------------------------ MODULE ConnectionLifecycle ------------------------
(***************************************************************************)
(* What the server promises about every connection on its own: the states  *)
(* the enum ConnState of connection.h lists, and the order in which one    *)
(* connection may pass through them.  MediaServer, where connections share *)
(* descriptors, tables and one thread, implements it.                      *)
(***************************************************************************)
CONSTANT Client
VARIABLE life

States == {"absent", "HANDSHAKING_TLS", "HANDSHAKING_WS", "NEGOTIATING",
           "STREAMING", "CLOSING", "gone"}

Init == life = [c \in Client |-> "absent"]

Move(c, from, to) == life[c] \in from /\ life' = [life EXCEPT ![c] = to]

Arrive(c) == Move(c, {"absent"}, "HANDSHAKING_TLS")
Secure(c) == Move(c, {"HANDSHAKING_TLS"}, "HANDSHAKING_WS")
\* CONNECTED lasts no longer than the callback that sends the offer.
Offer(c) == Move(c, {"HANDSHAKING_WS"}, "NEGOTIATING")
Answer(c) == Move(c, {"NEGOTIATING"}, "STREAMING")
\* Only an unanswered offer leaves a connection closing with its socket open.
Expire(c) == Move(c, {"NEGOTIATING"}, "CLOSING")
Leave(c) == Move(c, States \ {"gone"}, "gone")

\* The process exits and every connection with it.
Exit == life' = [c \in Client |-> "gone"]

Next == Exit \/ \E c \in Client :
    Arrive(c) \/ Secure(c) \/ Offer(c) \/ Answer(c) \/ Expire(c) \/ Leave(c)

Spec == Init /\ [][Next]_life
============================================================================
