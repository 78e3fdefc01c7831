----------------------- MODULE StreamDelivery_proofs -----------------------
(***************************************************************************)
(* Proof that StreamClient delivers: pictures and sounds reach the page in *)
(* the order of the server's packets, each at most once, and with          *)
(* timestamps that follow them.  Numbers move from the socket's queue to   *)
(* the requests, the parser, the codec, the replies and the page; the      *)
(* invariant cuts what has been streamed into consecutive stretches, one   *)
(* for each of these places (InOrder).                                     *)
(***************************************************************************)
EXTENDS StreamClient_proofs

\* The frames of s, or those that messages of type t in s carry, go up in
\* field f ("frame" or "pts") and lie above a and not above b.
Between(s, f, a, b) ==
    /\ \A i \in DOMAIN s : a < s[i][f] /\ s[i][f] <= b
    /\ \A i, j \in DOMAIN s : i < j => s[i][f] < s[j][f]
Within(s, t, f, a, b) ==
    /\ \A i \in DOMAIN s : s[i].type = t => a < s[i].frame[f] /\ s[i].frame[f] <= b
    /\ \A i, j \in DOMAIN s :
          i < j /\ s[i].type = t /\ s[j].type = t => s[i].frame[f] < s[j].frame[f]

\* What is behind the codec: the page's output, the replies of type t, and
\* what the codec holds, up to m.
Below(out, reps, t, held, f, m) ==
    \E c, d \in Nat : /\ c <= d /\ d <= m
                      /\ Between(out, f, 0, c) /\ Within(reps, t, f, c, d) /\ Between(held, f, d, m)

\* Every picture's timestamp is that of a later packet.
Late(out, reps, held) ==
    /\ \A i \in DOMAIN out : out[i].frame < out[i].pts
    /\ \A i \in DOMAIN reps : reps[i].type = "frame" => reps[i].frame.frame < reps[i].frame.pts
    /\ \A i \in DOMAIN held : held[i].frame < held[i].pts

\* Before the worker: the last packet handled is not above a, the last one
\* requested not above b.
Feed(a, b) ==
    /\ a <= b /\ b <= Len(kinds)
    /\ Within(inbox, "packet", "frame", b, Len(kinds))
    /\ Within(requests, "decode", "frame", a, b)

\* Behind it.
Sound(a) == Below(heard, replies, "audioFrame", worker.held.audio, "frame", a)
Pictures(m) == Below(shown, replies, "frame", worker.held.video, "frame", m)
Stamps(m) == Below(shown, replies, "frame", worker.held.video, "pts", m)
Drain(a) ==
    /\ worker.unit <= a
    /\ Sound(a)
    /\ Pictures(IF worker.unit = 0 THEN a ELSE worker.unit - 1)
    /\ Stamps(IF worker.unit = 0 THEN a ELSE worker.unit)

InOrder ==
    /\ \E a, b \in Nat : Feed(a, b) /\ Drain(a)
    /\ Late(shown, replies, worker.held.video)

----------------------------------------------------------------------------
(* Lemmas about these stretches.                                           *)

Carrier == [frame : Nat, pts : Nat]
IsMessage(m, t) == m.type = t => m.frame \in Carrier

LEMMA CarrierField == \A c \in Carrier, f \in {"frame", "pts"} : c[f] \in Nat
BY DEF Carrier

LEMMA WithinTail ==
    ASSUME NEW T, NEW s \in Seq(T), s # <<>>, NEW t, NEW f \in {"frame", "pts"},
           NEW a \in Nat, NEW b \in Nat, \A m \in T : IsMessage(m, t), Within(s, t, f, a, b)
    PROVE  /\ Within(Tail(s), t, f, a, b)
           /\ Head(s).type = t => /\ Head(s).frame[f] \in Nat /\ a < Head(s).frame[f] /\ Head(s).frame[f] <= b
                                  /\ Within(Tail(s), t, f, Head(s).frame[f], b)
<1>1. /\ 1 \in DOMAIN s /\ Head(s) = s[1] /\ Head(s) \in T
      /\ \A i \in DOMAIN Tail(s) : i \in Nat /\ 1 < i + 1 /\ i + 1 \in DOMAIN s /\ Tail(s)[i] = s[i + 1]
  BY TailOf
<1>2. \A i, j \in DOMAIN Tail(s) : i < j => i + 1 < j + 1
  BY <1>1
<1>3. Within(Tail(s), t, f, a, b)
  BY <1>1, <1>2 DEF Within
<1>4. ASSUME Head(s).type = t
      PROVE  /\ Head(s).frame[f] \in Nat /\ a < Head(s).frame[f] /\ Head(s).frame[f] <= b
             /\ Within(Tail(s), t, f, Head(s).frame[f], b)
  <2>1. Head(s).frame[f] \in Nat
    BY <1>1, <1>4 DEF IsMessage, Carrier
  <2>2. a < Head(s).frame[f] /\ Head(s).frame[f] <= b
    BY <1>1, <1>4 DEF Within
  <2>3. \A i \in DOMAIN Tail(s) : Tail(s)[i].type = t => Head(s).frame[f] < Tail(s)[i].frame[f]
    BY <1>1, <1>4 DEF Within
  <2> QED BY <1>3, <2>1, <2>2, <2>3 DEF Within
<1> QED BY <1>3, <1>4

LEMMA WithinAppend ==
    ASSUME NEW T, NEW s \in Seq(T), NEW t, NEW f \in {"frame", "pts"}, NEW e,
           NEW a \in Nat, NEW b \in Nat, \A m \in T : IsMessage(m, t), Within(s, t, f, a, b)
    PROVE  /\ e.type # t => Within(Append(s, e), t, f, a, b)
           /\ \A n \in Nat : e.type = t /\ e.frame[f] \in Nat /\ b < e.frame[f] /\ e.frame[f] <= n /\ a <= b
                 => Within(Append(s, e), t, f, a, n)
<1>1. /\ \A i \in DOMAIN Append(s, e) :
            \/ i \in DOMAIN s /\ Append(s, e)[i] = s[i] /\ i \in Nat /\ i <= Len(s)
            \/ i = Len(s) + 1 /\ Append(s, e)[i] = e
      /\ Len(s) \in Nat
  OBVIOUS
<1>2. e.type # t => Within(Append(s, e), t, f, a, b)
  BY <1>1 DEF Within
<1>3. ASSUME NEW n \in Nat, e.type = t, e.frame[f] \in Nat, b < e.frame[f], e.frame[f] <= n, a <= b
      PROVE  Within(Append(s, e), t, f, a, n)
  <2>1. \A i \in DOMAIN s : s[i].type = t => s[i].frame[f] \in Nat
    BY DEF IsMessage, Carrier
  <2>2. \A i \in DOMAIN Append(s, e) : Append(s, e)[i].type = t
           => a < Append(s, e)[i].frame[f] /\ Append(s, e)[i].frame[f] <= n
    BY <1>1, <1>3, <2>1 DEF Within
  <2>3. \A i, j \in DOMAIN Append(s, e) :
           i < j /\ Append(s, e)[i].type = t /\ Append(s, e)[j].type = t
             => Append(s, e)[i].frame[f] < Append(s, e)[j].frame[f]
    BY <1>1, <1>3, <2>1 DEF Within
  <2> QED BY <2>2, <2>3 DEF Within
<1> QED BY <1>2, <1>3

LEMMA WithinWiden ==
    ASSUME NEW T, NEW s \in Seq(T), NEW t, NEW f \in {"frame", "pts"}, \A m \in T : IsMessage(m, t),
           NEW a \in Nat, NEW b \in Nat, NEW n \in Nat, b <= n, Within(s, t, f, a, b)
    PROVE  Within(s, t, f, a, n)
<1>1. \A i \in DOMAIN s : s[i].type = t => s[i].frame[f] \in Nat
  BY DEF IsMessage, Carrier
<1> QED BY <1>1 DEF Within

LEMMA BetweenAppend ==
    ASSUME NEW s \in Seq(Carrier), NEW f \in {"frame", "pts"}, NEW e \in Carrier,
           NEW a \in Nat, NEW b \in Nat, NEW n \in Nat, Between(s, f, a, b),
           a <= b, b < e[f], e[f] <= n
    PROVE  Between(Append(s, e), f, a, n)
<1>1. /\ \A i \in DOMAIN Append(s, e) :
            \/ i \in DOMAIN s /\ Append(s, e)[i] = s[i] /\ i \in Nat /\ i <= Len(s)
            \/ i = Len(s) + 1 /\ Append(s, e)[i] = e
      /\ Len(s) \in Nat
  OBVIOUS
<1>2. e[f] \in Nat /\ \A i \in DOMAIN s : s[i][f] \in Nat
  BY CarrierField
<1>3. \A i \in DOMAIN Append(s, e) : a < Append(s, e)[i][f] /\ Append(s, e)[i][f] <= n
  BY <1>1, <1>2 DEF Between
<1>4. \A i, j \in DOMAIN Append(s, e) : i < j => Append(s, e)[i][f] < Append(s, e)[j][f]
  BY <1>1, <1>2 DEF Between
<1> QED BY <1>3, <1>4 DEF Between

LEMMA BetweenDrop ==
    ASSUME NEW s \in Seq(Carrier), NEW f \in {"frame", "pts"}, NEW i \in DOMAIN s,
           NEW a \in Nat, NEW b \in Nat, Between(s, f, a, b)
    PROVE  /\ s[i] \in Carrier /\ s[i][f] \in Nat /\ a < s[i][f] /\ s[i][f] <= b
           /\ Between(SubSeq(s, i + 1, Len(s)), f, s[i][f], b)
<1> DEFINE r == SubSeq(s, i + 1, Len(s))
<1>1. \A j \in DOMAIN r : j \in Nat /\ i < i + j /\ i + j \in DOMAIN s /\ r[j] = s[i + j]
  <2>1. DOMAIN s = 1..Len(s) /\ Len(s) \in Nat /\ i \in 1..Len(s)
    OBVIOUS
  <2>2. DOMAIN r = 1..(Len(s) - i) /\ \A j \in 1..(Len(s) - i) : r[j] = s[i + j]
    BY <2>1
  <2> QED BY <2>1, <2>2
<1>2. s[i] \in Carrier /\ i \in Nat
  OBVIOUS
<1>3. s[i][f] \in Nat
  BY <1>2, CarrierField
<1>4. \A j \in DOMAIN r : s[i][f] < r[j][f] /\ r[j][f] <= b
  BY <1>1, <1>2 DEF Between
<1>5. \A j, k \in DOMAIN r : j < k => r[j][f] < r[k][f]
  <2>1. \A j, k \in DOMAIN r : j < k => i + j < i + k
    BY <1>1, <1>2
  <2> QED BY <1>1, <2>1 DEF Between
<1> HIDE DEF r
<1>6. Between(r, f, s[i][f], b)
  BY <1>4, <1>5 DEF Between
<1> QED BY <1>2, <1>6, <1>3 DEF Between, r

\* A reply is taken: its frame, if it has one, is put out or dropped.
LEMMA BelowTaken ==
    ASSUME NEW T, NEW reps \in Seq(T), reps # <<>>, NEW t, \A x \in T : IsMessage(x, t),
           NEW f \in {"frame", "pts"}, NEW out \in Seq(Carrier), NEW held, NEW m \in Nat,
           Below(out, reps, t, held, f, m)
    PROVE  /\ Below(out, Tail(reps), t, held, f, m)
           /\ Head(reps).type = t =>
                 /\ Below(Append(out, Head(reps).frame), Tail(reps), t, held, f, m)
                 /\ \A i \in DOMAIN out : out[i][f] < Head(reps).frame[f]
<1>1. PICK c \in Nat, d \in Nat :
         /\ c <= d /\ d <= m
         /\ Between(out, f, 0, c) /\ Within(reps, t, f, c, d) /\ Between(held, f, d, m)
  BY DEF Below
<1>2. /\ Within(Tail(reps), t, f, c, d)
      /\ Head(reps).type = t =>
            /\ Head(reps).frame[f] \in Nat /\ c < Head(reps).frame[f] /\ Head(reps).frame[f] <= d
            /\ Within(Tail(reps), t, f, Head(reps).frame[f], d)
  BY <1>1, WithinTail
<1>3. ASSUME Head(reps).type = t
      PROVE  /\ Below(Append(out, Head(reps).frame), Tail(reps), t, held, f, m)
             /\ \A i \in DOMAIN out : out[i][f] < Head(reps).frame[f]
  <2>1. Head(reps).frame \in Carrier
    BY <1>3, TailOf DEF IsMessage
  <2>2. Between(Append(out, Head(reps).frame), f, 0, Head(reps).frame[f])
    BY <1>1, <1>2, <1>3, <2>1, BetweenAppend
  <2>3. \A i \in DOMAIN out : out[i][f] < Head(reps).frame[f]
    <3>1. \A i \in DOMAIN out : out[i] \in Carrier
      OBVIOUS
    <3> QED BY <1>1, <1>2, <1>3, <3>1, CarrierField DEF Between
  <2> QED BY <1>1, <1>2, <1>3, <2>2, <2>3 DEF Below
<1> QED BY <1>1, <1>2, <1>3 DEF Below

\* A reply of another kind, more room above, or a codec that is emptied.
LEMMA BelowKept ==
    ASSUME NEW T, NEW reps \in Seq(T), NEW t, \A x \in T : IsMessage(x, t),
           NEW f \in {"frame", "pts"}, NEW out, NEW held \in Seq(Carrier), NEW m \in Nat,
           Below(out, reps, t, held, f, m)
    PROVE  /\ \A e : e.type # t => Below(out, Append(reps, e), t, held, f, m)
           /\ \A n \in Nat : m <= n => Below(out, reps, t, held, f, n)
           /\ \A n \in Nat : m <= n => Below(out, reps, t, <<>>, f, n)
<1>1. PICK c \in Nat, d \in Nat :
         /\ c <= d /\ d <= m
         /\ Between(out, f, 0, c) /\ Within(reps, t, f, c, d) /\ Between(held, f, d, m)
  BY DEF Below
<1>2. \A e : e.type # t => Within(Append(reps, e), t, f, c, d)
  BY <1>1, WithinAppend
<1>3. ASSUME NEW n \in Nat, m <= n
      PROVE  Between(held, f, d, n) /\ Between(<<>>, f, d, n) /\ d <= n
  <2>1. \A i \in DOMAIN held : held[i][f] \in Nat
    BY CarrierField
  <2> QED BY <1>1, <1>3, <2>1 DEF Between
<1> QED BY <1>1, <1>2, <1>3 DEF Below

\* A codec takes a frame.
LEMMA BelowPut ==
    ASSUME NEW out, NEW reps, NEW t, NEW f \in {"frame", "pts"}, NEW held \in Seq(Carrier),
           NEW m \in Nat, Below(out, reps, t, held, f, m),
           NEW e \in Carrier, NEW n \in Nat, m < e[f], e[f] <= n
    PROVE  Below(out, reps, t, Append(held, e), f, n)
<1>1. PICK c \in Nat, d \in Nat :
         /\ c <= d /\ d <= m
         /\ Between(out, f, 0, c) /\ Within(reps, t, f, c, d) /\ Between(held, f, d, m)
  BY DEF Below
<1>2. Between(Append(held, e), f, d, n) /\ e[f] \in Nat
  BY <1>1, BetweenAppend, CarrierField
<1> QED BY <1>1, <1>2 DEF Below

\* A codec gives frames up, and the last of them is put out or lost too.
LEMMA BelowReceived ==
    ASSUME NEW T, NEW reps \in Seq(T), NEW t, \A x \in T : IsMessage(x, t),
           NEW f \in {"frame", "pts"}, NEW out, NEW held \in Seq(Carrier), NEW m \in Nat,
           Below(out, reps, t, held, f, m), NEW i \in DOMAIN held
    PROVE  /\ Below(out, reps, t, SubSeq(held, i + 1, Len(held)), f, m)
           /\ Below(out, Append(reps, Message(t, held[i])), t, SubSeq(held, i + 1, Len(held)), f, m)
<1>1. PICK c \in Nat, d \in Nat :
         /\ c <= d /\ d <= m
         /\ Between(out, f, 0, c) /\ Within(reps, t, f, c, d) /\ Between(held, f, d, m)
  BY DEF Below
<1> DEFINE n == held[i][f]
<1>2. /\ n \in Nat /\ d < n /\ n <= m
      /\ Between(SubSeq(held, i + 1, Len(held)), f, n, m)
  BY <1>1, BetweenDrop
<1>3. Message(t, held[i]).type = t /\ Message(t, held[i]).frame[f] = n
  BY DEF Message
<1> HIDE DEF n
<1>4. Within(reps, t, f, c, n) /\ Within(Append(reps, Message(t, held[i])), t, f, c, n)
  <2>1. Within(reps, t, f, c, n)
    <3>1. \A k \in Nat : d <= k => Within(reps, t, f, c, k)
      BY <1>1, WithinWiden
    <3> QED BY <1>1, <1>2, <3>1
  <2> DEFINE e == Message(t, held[i])
  <2>2. e.type = t /\ e.frame[f] = n
    BY <1>3
  <2> HIDE DEF e
  <2>3. Within(Append(reps, e), t, f, c, n)
    <3>1. \A k \in Nat : e.type = t /\ e.frame[f] \in Nat /\ d < e.frame[f] /\ e.frame[f] <= k /\ c <= d
             => Within(Append(reps, e), t, f, c, k)
      BY <1>1, WithinAppend
    <3> QED BY <1>1, <1>2, <2>2, <3>1
  <2> QED BY <2>1, <2>3 DEF e
<1>5. c <= n
  BY <1>1, <1>2
<1> QED BY <1>1, <1>2, <1>4, <1>5 DEF Below

----------------------------------------------------------------------------
(* The two halves of the way.                                              *)

LEMMA Carried ==
    ASSUME TypeOK
    PROVE  /\ inbox \in Seq(ToServer) /\ \A m \in ToServer : IsMessage(m, "packet")
           /\ requests \in Seq(Request) /\ \A m \in Request : IsMessage(m, "decode")
           /\ replies \in Seq(Response)
           /\ \A m \in Response : IsMessage(m, "frame") /\ IsMessage(m, "audioFrame")
           /\ shown \in Seq(Carrier) /\ heard \in Seq(Carrier)
           /\ worker.held.video \in Seq(Carrier) /\ worker.held.audio \in Seq(Carrier)
           /\ worker.unit \in Nat /\ Len(kinds) \in Nat /\ Frame \subseteq Carrier
<1>1. Len(kinds) \in Nat /\ Streamed \subseteq Nat
  BY DEF TypeOK, Streamed
<1>2. Frame \subseteq Carrier
  BY <1>1 DEF Frame, Carrier
<1>3. /\ worker.unit \in Streamed \cup {0}
      /\ worker.held.video \in Seq(Frame) /\ worker.held.audio \in Seq(Frame)
  BY DEF TypeOK, Worker
<1>4. shown \in Seq(Frame) /\ heard \in Seq(Frame)
  BY DEF TypeOK
<1>5. \A s \in Seq(Frame) : s \in Seq(Carrier)
  BY <1>2, SeqGrows
<1>6. inbox \in Seq(ToServer) /\ requests \in Seq(Request) /\ replies \in Seq(Response)
  BY DEF TypeOK
<1>7. /\ \A m \in ToServer : IsMessage(m, "packet")
      /\ \A m \in Request : IsMessage(m, "decode")
      /\ \A m \in Response : IsMessage(m, "frame") /\ IsMessage(m, "audioFrame")
  BY <1>2, Messages DEF IsMessage
<1>8. worker.unit \in Nat
  BY <1>3 DEF Streamed
<1> QED BY <1>1, <1>2, <1>3, <1>4, <1>5, <1>6, <1>7, <1>8

\* What is taken from a queue, thrown away, or put in without a packet.
LEMMA FeedKept ==
    ASSUME TypeOK, NEW a \in Nat, NEW b \in Nat, Feed(a, b), UNCHANGED kinds,
           \/ UNCHANGED inbox
           \/ inbox # <<>> /\ inbox' = Tail(inbox)
           \/ \E m : m.type # "packet" /\ inbox' = Append(inbox, m)
           \/ \A i \in DOMAIN inbox' : inbox'[i].type # "packet",
           \/ UNCHANGED requests
           \/ requests # <<>> /\ requests' = Tail(requests)
           \/ \E m : m.type # "decode" /\ requests' = Append(requests, m)
           \/ \A i \in DOMAIN requests' : requests'[i].type # "decode"
    PROVE  Feed(a, b)'
<1>1. Within(inbox', "packet", "frame", b, Len(kinds))
  <2>1. inbox # <<>> => Within(Tail(inbox), "packet", "frame", b, Len(kinds))
    BY Carried, WithinTail DEF Feed
  <2>2. \A m : m.type # "packet" => Within(Append(inbox, m), "packet", "frame", b, Len(kinds))
    BY Carried, WithinAppend DEF Feed
  <2>3. (\A i \in DOMAIN inbox' : inbox'[i].type # "packet")
           => Within(inbox', "packet", "frame", b, Len(kinds))
    BY DEF Within
  <2> QED BY <2>1, <2>2, <2>3 DEF Feed
<1>2. Within(requests', "decode", "frame", a, b)
  <2>1. requests # <<>> => Within(Tail(requests), "decode", "frame", a, b)
    BY Carried, WithinTail DEF Feed
  <2>2. \A m : m.type # "decode" => Within(Append(requests, m), "decode", "frame", a, b)
    BY Carried, WithinAppend DEF Feed
  <2>3. (\A i \in DOMAIN requests' : requests'[i].type # "decode")
           => Within(requests', "decode", "frame", a, b)
    BY DEF Within
  <2> QED BY <2>1, <2>2, <2>3 DEF Feed
<1> QED BY <1>1, <1>2 DEF Feed

\* More room, as handling a packet makes it, or a codec and parser reset.
LEMMA DrainWider ==
    ASSUME TypeOK, NEW a \in Nat, NEW n \in Nat, a <= n, Drain(a)
    PROVE  Drain(n)
<1>1. \A m \in Nat : /\ m <= n /\ Sound(m) => Sound(n)
                     /\ m <= n /\ Pictures(m) => Pictures(n)
                     /\ m <= n /\ Stamps(m) => Stamps(n)
  BY Carried, BelowKept DEF Sound, Pictures, Stamps
<1> QED BY <1>1, Carried DEF Drain

\* A plain reply, or none, while the codecs keep what they hold or lose it.
LEMMA DrainKept ==
    ASSUME TypeOK, NEW a \in Nat, Drain(a), UNCHANGED outputVars,
           \/ UNCHANGED replies
           \/ \E m : m.type \notin {"frame", "audioFrame"} /\ replies' = Append(replies, m),
           \/ UNCHANGED <<worker.held, worker.unit>>
           \/ worker'.held = NothingHeld /\ worker'.unit = 0
    PROVE  Drain(a)'
<1>1. <<>> \in Seq(Carrier)
  OBVIOUS
<1>2. ASSUME NEW out, NEW held \in Seq(Carrier), NEW t \in {"frame", "audioFrame"},
             NEW f \in {"frame", "pts"}, NEW m \in Nat, Below(out, replies, t, held, f, m)
      PROVE  /\ Below(out, replies', t, held, f, m)
             /\ \A n \in Nat : m <= n => Below(out, replies', t, <<>>, f, n)
  <2>1. replies \in Seq(Response) /\ \A x \in Response : IsMessage(x, t)
    BY Carried
  <2>2. \A n \in Nat : m <= n => Below(out, replies, t, <<>>, f, n)
    BY <1>2, <2>1, BelowKept
  <2>3. \A e : e.type # t => Below(out, Append(replies, e), t, held, f, m)
    BY <1>2, <2>1, BelowKept
  <2>4. \A n \in Nat : m <= n => \A e : e.type # t => Below(out, Append(replies, e), t, <<>>, f, n)
    BY <1>1, <2>2, <2>1, BelowKept
  <2> QED BY <1>2, <2>2, <2>3, <2>4
<1>3. shown' = shown /\ heard' = heard
  BY DEF outputVars
<1>4. \A m, n \in Nat : m <= n =>
         /\ Sound(m) => /\ Below(heard, replies', "audioFrame", worker.held.audio, "frame", m)
                        /\ Below(heard, replies', "audioFrame", <<>>, "frame", n)
         /\ Pictures(m) => /\ Below(shown, replies', "frame", worker.held.video, "frame", m)
                           /\ Below(shown, replies', "frame", <<>>, "frame", n)
         /\ Stamps(m) => /\ Below(shown, replies', "frame", worker.held.video, "pts", m)
                         /\ Below(shown, replies', "frame", <<>>, "pts", n)
  BY <1>2, Carried DEF Sound, Pictures, Stamps
<1>5. CASE UNCHANGED <<worker.held, worker.unit>>
  <2> DEFINE p == IF worker.unit = 0 THEN a ELSE worker.unit - 1
             q == IF worker.unit = 0 THEN a ELSE worker.unit
  <2>1. p \in Nat /\ q \in Nat
    BY Carried
  <2>2. worker.unit <= a /\ Sound(a) /\ Pictures(p) /\ Stamps(q)
    BY DEF Drain
  <2>3. p' = p /\ q' = q /\ UNCHANGED <<worker.unit, worker.held.video, worker.held.audio>>
    BY <1>5
  <2> HIDE DEF p, q
  <2>4. worker'.unit <= a /\ Sound(a)' /\ Pictures(p)' /\ Stamps(q)'
    BY <1>3, <1>4, <2>1, <2>2, <2>3 DEF Sound, Pictures, Stamps
  <2> QED BY <2>4 DEF Drain, p, q
<1>6. CASE worker'.held = NothingHeld /\ worker'.unit = 0
  <2>1. worker'.held.video = <<>> /\ worker'.held.audio = <<>> /\ 0 <= a
    BY <1>6 DEF NothingHeld
  <2>2. /\ Sound(a)
        /\ \E m \in Nat : m <= a /\ Pictures(m)
        /\ \E m \in Nat : m <= a /\ Stamps(m)
    BY Carried DEF Drain
  <2> QED BY <1>3, <1>4, <1>6, <2>1, <2>2 DEF Drain, Sound, Pictures, Stamps
<1> QED BY <1>5, <1>6

LEMMA LateKept ==
    ASSUME NEW T, NEW reps \in Seq(T), NEW out, NEW held, Late(out, reps, held)
    PROVE  /\ \A e : e.type # "frame" => Late(out, Append(reps, e), held)
           /\ Late(out, reps, <<>>)
           /\ reps # <<>> => Late(out, Tail(reps), held)
<1>1. \A e : \A i \in DOMAIN Append(reps, e) :
         \/ i \in DOMAIN reps /\ Append(reps, e)[i] = reps[i]
         \/ Append(reps, e)[i] = e
  OBVIOUS
<1>2. reps # <<>> => \A i \in DOMAIN Tail(reps) : i + 1 \in DOMAIN reps /\ Tail(reps)[i] = reps[i + 1]
  BY TailOf
<1>3. DOMAIN <<>> = {}
  OBVIOUS
<1> QED BY <1>1, <1>2, <1>3 DEF Late

LEMMA LatePut ==
    ASSUME NEW T, NEW reps \in Seq(T), NEW out, NEW held \in Seq(Carrier), Late(out, reps, held)
    PROVE  /\ \A e \in Carrier : e.frame < e.pts => Late(out, reps, Append(held, e))
           /\ \A i \in DOMAIN held :
                 /\ Late(out, reps, SubSeq(held, i + 1, Len(held)))
                 /\ Late(out, Append(reps, Message("frame", held[i])), SubSeq(held, i + 1, Len(held)))
<1>1. \A e \in Carrier : \A i \in DOMAIN Append(held, e) :
         \/ i \in DOMAIN held /\ Append(held, e)[i] = held[i]
         \/ Append(held, e)[i] = e
  OBVIOUS
<1>2. \A i \in DOMAIN held : \A j \in DOMAIN SubSeq(held, i + 1, Len(held)) :
         i + j \in DOMAIN held /\ SubSeq(held, i + 1, Len(held))[j] = held[i + j]
  <2>1. DOMAIN held = 1..Len(held) /\ Len(held) \in Nat
    OBVIOUS
  <2>2. \A i \in 1..Len(held) : \A j \in DOMAIN SubSeq(held, i + 1, Len(held)) :
           j \in 1..(Len(held) - i) /\ SubSeq(held, i + 1, Len(held))[j] = held[i + j]
    OBVIOUS
  <2> QED BY <2>1, <2>2
<1>3. \A e : \A i \in DOMAIN Append(reps, e) :
         \/ i \in DOMAIN reps /\ Append(reps, e)[i] = reps[i]
         \/ Append(reps, e)[i] = e
  OBVIOUS
<1>4. \A f : Message("frame", f).frame = f
  BY DEF Message
<1> QED BY <1>1, <1>2, <1>3, <1>4 DEF Late

\* A reply is taken.
LEMMA DrainTaken ==
    ASSUME TypeOK, NEW a \in Nat, Drain(a), Late(shown, replies, worker.held.video),
           replies # <<>>, replies' = Tail(replies), UNCHANGED worker,
           \/ UNCHANGED shown
           \/ Head(replies).type = "frame" /\ shown' = Append(shown, Head(replies).frame),
           \/ UNCHANGED heard
           \/ Head(replies).type = "audioFrame" /\ heard' = Append(heard, Head(replies).frame)
    PROVE  /\ Drain(a)' /\ Late(shown, replies, worker.held.video)'
           /\ Head(replies).type = "frame" =>
                 \A i \in DOMAIN shown : shown[i].frame < Head(replies).frame.frame
           /\ Head(replies).type = "audioFrame" =>
                 \A i \in DOMAIN heard : heard[i].frame < Head(replies).frame.frame
<1> DEFINE p == IF worker.unit = 0 THEN a ELSE worker.unit - 1
           q == IF worker.unit = 0 THEN a ELSE worker.unit
<1>1. p \in Nat /\ q \in Nat
  BY Carried
<1>2. worker.unit <= a /\ Sound(a) /\ Pictures(p) /\ Stamps(q)
  BY DEF Drain
<1>3. p' = p /\ q' = q
  OBVIOUS
<1> HIDE DEF p, q
<1>4. /\ Below(heard, Tail(replies), "audioFrame", worker.held.audio, "frame", a)
      /\ Head(replies).type = "audioFrame" =>
            /\ Below(Append(heard, Head(replies).frame), Tail(replies), "audioFrame",
                     worker.held.audio, "frame", a)
            /\ \A i \in DOMAIN heard : heard[i]["frame"] < Head(replies).frame["frame"]
  BY <1>2, Carried, BelowTaken DEF Sound
<1>5. /\ Below(shown, Tail(replies), "frame", worker.held.video, "frame", p)
      /\ Head(replies).type = "frame" =>
            /\ Below(Append(shown, Head(replies).frame), Tail(replies), "frame",
                     worker.held.video, "frame", p)
            /\ \A i \in DOMAIN shown : shown[i]["frame"] < Head(replies).frame["frame"]
  BY <1>1, <1>2, Carried, BelowTaken DEF Pictures
<1>6. /\ Below(shown, Tail(replies), "frame", worker.held.video, "pts", q)
      /\ Head(replies).type = "frame" =>
            Below(Append(shown, Head(replies).frame), Tail(replies), "frame",
                  worker.held.video, "pts", q)
  BY <1>1, <1>2, Carried, BelowTaken DEF Stamps
<1>7. Sound(a)' /\ Pictures(p)' /\ Stamps(q)'
  BY <1>3, <1>4, <1>5, <1>6 DEF Sound, Pictures, Stamps
<1>8. Late(shown, replies, worker.held.video)'
  <2>1. /\ \A i \in DOMAIN Tail(replies) : i + 1 \in DOMAIN replies /\ Tail(replies)[i] = replies[i + 1]
        /\ Head(replies) = replies[1] /\ 1 \in DOMAIN replies
    BY Carried, TailOf
  <2>2. \A i \in DOMAIN shown' :
           \/ i \in DOMAIN shown /\ shown'[i] = shown[i]
           \/ Head(replies).type = "frame" /\ shown'[i] = Head(replies).frame
    <3>1. shown \in Seq(Carrier)
      BY Carried
    <3>2. \A e : \A i \in DOMAIN Append(shown, e) :
             \/ i \in DOMAIN shown /\ Append(shown, e)[i] = shown[i]
             \/ Append(shown, e)[i] = e
      BY <3>1
    <3> QED BY <3>2
  <2> QED BY <2>1, <2>2 DEF Late
<1> QED BY <1>2, <1>4, <1>5, <1>7, <1>8 DEF Drain, p, q

----------------------------------------------------------------------------
(* Every step keeps the order.                                             *)

LEMMA InitOrder == Init => InOrder
<1> SUFFICES ASSUME Init PROVE InOrder
  OBVIOUS
<1>1. \A f, t, a, b : Between(<<>>, f, a, b) /\ Within(<<>>, t, f, a, b)
  BY DEF Between, Within
<1>2. \A t, f : Below(<<>>, <<>>, t, <<>>, f, 0)
  BY <1>1 DEF Below
<1>3. Feed(0, 0) /\ Drain(0)
  BY <1>1, <1>2 DEF Init, Feed, Drain, Sound, Pictures, Stamps, NoWorker, NothingHeld
<1>4. Late(shown, replies, worker.held.video)
  BY DEF Init, Late, NoWorker, NothingHeld
<1> QED BY <1>3, <1>4 DEF InOrder

LEMMA ServerOrder ==
    ASSUME TypeOK, InOrder, Server
    PROVE  InOrder'
<1>1. PICK a \in Nat, b \in Nat : Feed(a, b) /\ Drain(a)
  BY DEF InOrder
<1>2. UNCHANGED workerVars
  BY DEF Server, ServerAccepts, ServerTakesAnswer, ServerTimesOut, ServerStreams, ServerStops,
         ServerSeesClose
<1>3. Drain(a)' /\ Late(shown, replies, worker.held.video)'
  BY <1>1, <1>2 DEF InOrder, Drain, Sound, Pictures, Stamps, workerVars, outputVars
<1>4. Feed(a, b)'
  <2>1. CASE ServerStreams
    <3> DEFINE e == Packet("packet", Len(kinds) + 1)
               n == Len(kinds) + 1
    <3>1. /\ inbox' = Append(inbox, e) /\ Len(kinds') = n /\ Len(kinds) \in Nat /\ n \in Nat
      BY <2>1, Carried DEF ServerStreams, TypeOK
    <3>2. e.type = "packet" /\ e.frame["frame"] = n
      BY DEF Packet, Message, Stamped
    <3> HIDE DEF e
    <3>3. b <= Len(kinds) /\ Len(kinds) < n
      BY <1>1, <3>1 DEF Feed
    <3>4. \A k \in Nat : e.type = "packet" /\ e.frame["frame"] \in Nat /\ Len(kinds) < e.frame["frame"]
                          /\ e.frame["frame"] <= k /\ b <= Len(kinds)
             => Within(Append(inbox, e), "packet", "frame", b, k)
      BY <1>1, <3>1, Carried, WithinAppend DEF Feed
    <3>5. Within(inbox', "packet", "frame", b, n)
      BY <3>1, <3>2, <3>3, <3>4
    <3> QED BY <1>1, <1>2, <3>1, <3>3, <3>5 DEF Feed, workerVars
  <2>2. CASE ~ServerStreams
    <3>1. UNCHANGED <<kinds, requests>>
      BY <1>2, <2>2 DEF Server, ServerAccepts, ServerTakesAnswer, ServerTimesOut, ServerStops,
         ServerSeesClose, workerVars
    <3>2. /\ Plain("close").type = "close"
          /\ \A i \in DOMAIN <<Plain("open"), Plain("offer")>> :
                <<Plain("open"), Plain("offer")>>[i].type # "packet"
      BY DEF Plain, Message
    <3>3. \/ UNCHANGED inbox
          \/ \E m : m.type # "packet" /\ inbox' = Append(inbox, m)
          \/ \A i \in DOMAIN inbox' : inbox'[i].type # "packet"
      BY <2>2, <3>2 DEF Server, ServerAccepts, ServerTakesAnswer, ServerTimesOut, ServerStops,
         ServerSeesClose, wireVars
    <3> QED BY <1>1, <3>1, <3>3, FeedKept
  <2> QED BY <2>1, <2>2
<1> QED BY <1>3, <1>4 DEF InOrder

LEMMA PageOrder ==
    ASSUME TypeOK, InOrder, User \/ Socket \/ OnError
    PROVE  InOrder'
<1>1. PICK a \in Nat, b \in Nat : Feed(a, b) /\ Drain(a)
  BY DEF InOrder
<1>2. UNCHANGED <<kinds, replies, outputVars>>
  <2>1. User \/ OnOpen \/ OnOffer \/ OnPacket => UNCHANGED <<kinds, replies, outputVars>>
    BY DEF User, Connect, Disconnect, OnOpen, OnOffer, OnPacket, workerVars, serverVars
  <2>2. OnOfferNoWorker \/ OnClose \/ OnError => UNCHANGED <<kinds, replies, outputVars>>
    BY DEF OnOfferNoWorker, OnClose, OnError, workerVars, serverVars
  <2> QED BY <2>1, <2>2 DEF Socket
<1>3. UNCHANGED worker \/ (worker'.held = NothingHeld /\ worker'.unit = 0)
  <2>1. User \/ OnOpen \/ OnPacket => UNCHANGED worker
    BY DEF User, Connect, Disconnect, OnOpen, OnPacket, workerVars
  <2>2. OnOfferNoWorker \/ OnClose \/ OnError => UNCHANGED worker
    BY DEF OnOfferNoWorker, OnClose, OnError, workerVars
  <2>3. OnOffer => worker'.held = NothingHeld /\ worker'.unit = 0
    BY DEF OnOffer, NoWorker
  <2> QED BY <2>1, <2>2, <2>3 DEF Socket
<1>4. Drain(a)'
  BY <1>1, <1>2, <1>3, DrainKept
<1>5. Late(shown, replies, worker.held.video)'
  <2>1. worker'.held.video = worker.held.video \/ worker'.held.video = <<>>
    BY <1>3 DEF NothingHeld
  <2> QED BY <1>2, <2>1, Carried, LateKept DEF InOrder, outputVars
<1>6. CASE OnPacket
  <2> DEFINE e == Message("decode", Head(inbox).frame)
  <2>1. /\ inbox # <<>> /\ Head(inbox).type = "packet" /\ inbox' = Tail(inbox)
        /\ requests' = Append(requests, e)
    BY <1>6 DEF OnPacket, Delivers
  <2>2. PICK k \in Nat : /\ k = Head(inbox).frame["frame"] /\ b < k /\ k <= Len(kinds)
                          /\ Within(inbox', "packet", "frame", k, Len(kinds))
    BY <1>1, <2>1, Carried, WithinTail DEF Feed
  <2>3. e.type = "decode" /\ e.frame["frame"] = k
    BY <2>2 DEF Message
  <2> HIDE DEF e
  <2>4. \A n \in Nat : e.type = "decode" /\ e.frame["frame"] \in Nat /\ b < e.frame["frame"]
                        /\ e.frame["frame"] <= n /\ a <= b
           => Within(Append(requests, e), "decode", "frame", a, n)
    BY <1>1, Carried, WithinAppend DEF Feed
  <2>5. Within(requests', "decode", "frame", a, k)
    BY <1>1, <2>1, <2>2, <2>3, <2>4 DEF Feed
  <2>6. a <= k
    BY <1>1, <2>2 DEF Feed
  <2>7. Feed(a, k)'
    BY <1>2, <2>2, <2>5, <2>6 DEF Feed
  <2> QED BY <1>4, <1>5, <2>2, <2>7 DEF InOrder
<1>7. CASE ~OnPacket
  <2>1. \/ UNCHANGED inbox
        \/ inbox # <<>> /\ inbox' = Tail(inbox)
        \/ \A i \in DOMAIN inbox' : inbox'[i].type # "packet"
    <3>1. User => UNCHANGED inbox
      BY DEF User, Connect, Disconnect
    <3>2. OnOpen \/ OnOffer \/ OnOfferNoWorker => inbox # <<>> /\ inbox' = Tail(inbox)
      BY DEF OnOpen, OnOffer, OnOfferNoWorker, Delivers
    <3>3. OnClose \/ OnError => inbox' = <<>>
      BY DEF OnClose, OnError
    <3> QED BY <1>7, <3>1, <3>2, <3>3 DEF Socket
  <2>2. \/ UNCHANGED requests
        \/ \E m : m.type # "decode" /\ requests' = Append(requests, m)
        \/ \A i \in DOMAIN requests' : requests'[i].type # "decode"
    <3>1. /\ Plain("destroy").type # "decode"
          /\ \A i \in DOMAIN <<Plain("init")>> : <<Plain("init")>>[i].type # "decode"
      BY DEF Plain, Message
    <3>2. Connect \/ OnOpen => UNCHANGED requests
      BY DEF Connect, OnOpen, workerVars
    <3>3. OnOfferNoWorker \/ OnClose \/ OnError => UNCHANGED requests
      BY DEF OnOfferNoWorker, Refuse, OnClose, OnError, workerVars
    <3>4. Disconnect => requests' \in {requests, Append(requests, Plain("destroy"))}
      BY DEF Disconnect
    <3>5. OnOffer => requests' = <<Plain("init")>>
      BY DEF OnOffer
    <3> QED BY <1>7, <3>1, <3>2, <3>3, <3>4, <3>5 DEF User, Socket
  <2>3. Feed(a, b)'
    BY <1>1, <1>2, <2>1, <2>2, FeedKept
  <2> QED BY <1>4, <1>5, <2>3 DEF InOrder
<1> QED BY <1>6, <1>7

LEMMA ReplyOrder ==
    ASSUME TypeOK, InOrder, WorkerReply \/ InitTimesOut \/ Terminate
    PROVE  InOrder'
<1>1. PICK a \in Nat, b \in Nat : Feed(a, b) /\ Drain(a)
  BY DEF InOrder
<1>2. UNCHANGED <<kinds, inbox>>
  BY DEF WorkerReply, InitReady, InitFailed, OnFrame, OnAudioFrame, OnOtherReply, InitTimesOut,
         Terminate, serverVars, wireVars
<1>3. Feed(a, b)'
  <2>1. \/ UNCHANGED requests
        \/ \E m : m.type # "decode" /\ requests' = Append(requests, m)
        \/ \A i \in DOMAIN requests' : requests'[i].type # "decode"
    <3>1. Plain("initAudio").type # "decode"
      BY DEF Plain, Message
    <3>2. InitReady => requests' \in {requests, Append(requests, Plain("initAudio"))}
      BY DEF InitReady, Accept
    <3>3. InitFailed \/ InitTimesOut => UNCHANGED requests
      BY DEF InitFailed, InitTimesOut, Refuse
    <3>4. OnFrame \/ OnAudioFrame \/ OnOtherReply => UNCHANGED requests
      BY DEF OnFrame, OnAudioFrame, OnOtherReply
    <3>5. Terminate => requests' = <<>>
      BY DEF Terminate
    <3> QED BY <3>1, <3>2, <3>3, <3>4, <3>5 DEF WorkerReply
  <2> QED BY <1>1, <1>2, <2>1, FeedKept
<1>4. CASE WorkerReply
  <2>1. /\ replies # <<>> /\ replies' = Tail(replies) /\ UNCHANGED worker
        /\ \/ UNCHANGED shown
           \/ Head(replies).type = "frame" /\ shown' = Append(shown, Head(replies).frame)
        /\ \/ UNCHANGED heard
           \/ Head(replies).type = "audioFrame" /\ heard' = Append(heard, Head(replies).frame)
    <3>1. CASE InitReady \/ InitFailed
      BY <3>1 DEF InitReady, InitFailed, Replied, outputVars
    <3>2. CASE OnFrame \/ OnAudioFrame
      BY <3>2 DEF OnFrame, OnAudioFrame, Replied
    <3>3. CASE OnOtherReply
      BY <3>3 DEF OnOtherReply, Replied, outputVars
    <3> QED BY <1>4, <3>1, <3>2, <3>3 DEF WorkerReply
  <2>2. Drain(a)' /\ Late(shown, replies, worker.held.video)'
    BY <1>1, <2>1, DrainTaken DEF InOrder
  <2> QED BY <1>3, <2>2 DEF InOrder
<1>5. CASE InitTimesOut \/ Terminate
  <2>1. UNCHANGED <<replies, outputVars, worker.held, worker.unit>>
    BY <1>5 DEF InitTimesOut, Terminate, TypeOK, Worker
  <2>2. Drain(a)'
    BY <1>1, <2>1, DrainKept
  <2>3. Late(shown, replies, worker.held.video)'
    BY <2>1 DEF InOrder, Late, outputVars
  <2> QED BY <1>3, <2>2, <2>3 DEF InOrder
<1> QED BY <1>4, <1>5

\* What a receive does to frames that are in order, for the codec it is for
\* and for the other one.
LEMMA ReceivedOrder ==
    ASSUME TypeOK, NEW t \in {"frame", "audioFrame"}, NEW f \in {"frame", "pts"}, NEW out,
           NEW s, s.held \in Seq(Carrier), NEW m \in Nat, Below(out, replies, t, s.held, f, m),
           NEW h, Kept(s, h, t)
    PROVE  Below(out, replies', t, h, f, m)
<1>1. replies \in Seq(Response) /\ \A x \in Response : IsMessage(x, t)
  BY Carried
<1>2. Plain("error").type # t
  BY DEF Plain, Message
<1>3. CASE h = s.held /\ (UNCHANGED replies \/ Reply(Plain("error")))
  BY <1>1, <1>2, <1>3, BelowKept DEF Reply
<1>4. CASE \E i \in DOMAIN s.held :
              /\ h = SubSeq(s.held, i + 1, Len(s.held))
              /\ \/ UNCHANGED replies \/ Reply(Plain("error"))
                 \/ Reply(Message(t, s.held[i]))
  <2>1. PICK i \in DOMAIN s.held :
           /\ h = SubSeq(s.held, i + 1, Len(s.held))
           /\ \/ UNCHANGED replies \/ Reply(Plain("error"))
              \/ Reply(Message(t, s.held[i]))
    BY <1>4
  <2>2. /\ Below(out, replies, t, h, f, m)
        /\ Below(out, Append(replies, Message(t, s.held[i])), t, h, f, m)
    BY <1>1, <2>1, BelowReceived
  <2>3. h \in Seq(Carrier)
    BY <2>1
  <2>4. Below(out, Append(replies, Plain("error")), t, h, f, m)
    BY <1>1, <1>2, <2>2, <2>3, BelowKept
  <2> QED BY <2>1, <2>2, <2>4 DEF Reply
<1> QED BY <1>3, <1>4 DEF Kept

LEMMA OtherOrder ==
    ASSUME TypeOK, NEW t \in {"frame", "audioFrame"}, NEW u, u # t, NEW f \in {"frame", "pts"},
           NEW out, NEW held \in Seq(Carrier), NEW m \in Nat, Below(out, replies, t, held, f, m),
           NEW s, NEW h, Kept(s, h, u)
    PROVE  \A n \in Nat : m <= n => Below(out, replies', t, held, f, n)
<1>1. replies \in Seq(Response) /\ \A x \in Response : IsMessage(x, t)
  BY Carried
<1>2. UNCHANGED replies \/ \E e : e.type # t /\ replies' = Append(replies, e)
  <2>1. Plain("error").type # t /\ \A x : Message(u, x).type # t
    BY DEF Plain, Message
  <2> QED BY <2>1 DEF Kept, Reply
<1>3. \A n \in Nat : m <= n => Below(out, replies, t, held, f, n)
  BY <1>1, BelowKept
<1>4. \A n \in Nat : m <= n => \A e : e.type # t => Below(out, Append(replies, e), t, held, f, n)
  BY <1>1, <1>3, BelowKept
<1> QED BY <1>2, <1>3, <1>4

\* Pictures: the new packet gives its number, as a timestamp, to the picture
\* before it.
LEMMA VideoOrder ==
    ASSUME TypeOK, NEW a \in Nat, NEW k \in Streamed, a < k, Drain(a),
           Late(shown, replies, worker.held.video),
           Decode("video", SentVideo(k), "frame"), UNCHANGED outputVars
    PROVE  Drain(k)' /\ Late(shown, replies, worker.held.video)'
<1>1. PICK s \in SentVideo(k) : \E h :
         worker' = [worker EXCEPT !.unit = s.unit, !.held["video"] = h] /\ Kept(s, h, "frame")
  BY DecodeCases
<1>2. PICK h : worker' = [worker EXCEPT !.unit = s.unit, !.held["video"] = h] /\ Kept(s, h, "frame")
  BY <1>1
<1>3. /\ worker \in Worker /\ k \in Nat /\ k > 0 /\ worker.unit \in Nat /\ worker.unit <= a
      /\ worker.held.video \in Seq(Carrier)
  <2>1. k \in Nat /\ k > 0
    BY DEF Streamed
  <2> QED BY <2>1, Carried DEF Drain, TypeOK
<1>4. worker'.unit = s.unit /\ worker'.held.video = h /\ worker'.held.audio = worker.held.audio
  BY <1>2, <1>3 DEF Worker
<1>5. UNCHANGED <<shown, heard>>
  BY DEF outputVars
<1> DEFINE p == IF worker.unit = 0 THEN a ELSE worker.unit - 1
           q == IF worker.unit = 0 THEN a ELSE worker.unit
           x == Stamped(worker.unit, k)
\* In each case there is room for what the codec now holds.
<1>6. p \in Nat /\ q \in Nat /\ Pictures(p) /\ Stamps(q) /\ Sound(a)
  BY <1>3 DEF Drain
<1>7. /\ s.unit \in Nat /\ s.unit <= k /\ s.held \in Seq(Carrier)
      /\ Below(shown, replies, "frame", s.held, "frame", IF s.unit = 0 THEN k ELSE s.unit - 1)
      /\ Below(shown, replies, "frame", s.held, "pts", IF s.unit = 0 THEN k ELSE s.unit)
      /\ Late(shown, replies, s.held)
  <2>1. \A n \in Nat : /\ p <= n => Below(shown, replies, "frame", worker.held.video, "frame", n)
                       /\ q <= n => Below(shown, replies, "frame", worker.held.video, "pts", n)
    BY <1>3, <1>6, Carried, BelowKept DEF Pictures, Stamps
  <2>2. CASE worker.unit # 0 /\ s.unit = k /\ s.held = Append(worker.held.video, x)
    <3>1. x \in Carrier /\ x["frame"] = worker.unit /\ x["pts"] = k /\ x.frame < x.pts
      BY <1>3 DEF Stamped, Carrier
    <3>2. p < worker.unit /\ worker.unit <= k - 1 /\ k - 1 \in Nat /\ q < k
      BY <1>3, <2>2
    <3> HIDE DEF x, p, q
    <3>3. Below(shown, replies, "frame", Append(worker.held.video, x), "frame", k - 1)
      BY <1>3, <1>6, <3>1, <3>2, BelowPut DEF Pictures
    <3>4. Below(shown, replies, "frame", Append(worker.held.video, x), "pts", k)
      <4>1. q < x["pts"] /\ x["pts"] <= k
        BY <1>3, <3>1, <3>2
      <4> QED BY <1>3, <1>6, <3>1, <4>1, BelowPut DEF Stamps
    <3>5. Late(shown, replies, Append(worker.held.video, x))
      BY <1>3, <3>1, Carried, LatePut
    <3>6. Append(worker.held.video, x) \in Seq(Carrier)
      BY <1>3, <3>1
    <3> QED BY <1>3, <2>2, <3>3, <3>4, <3>5, <3>6
  <2>3. CASE worker.unit = 0 /\ s.unit = k /\ s.held = worker.held.video
    BY <1>3, <2>1, <2>3
  <2>4. CASE s.unit \in {0, worker.unit} /\ s.held = worker.held.video
    BY <1>3, <2>1, <2>4
  <2> QED BY <1>3, <2>2, <2>3, <2>4, SentCases
<1> HIDE DEF p, q, x
<1>8. /\ Below(shown, replies', "frame", h, "frame", IF s.unit = 0 THEN k ELSE s.unit - 1)
      /\ Below(shown, replies', "frame", h, "pts", IF s.unit = 0 THEN k ELSE s.unit)
  <2>1. \A m \in Nat, f \in {"frame", "pts"} :
           Below(shown, replies, "frame", s.held, f, m) => Below(shown, replies', "frame", h, f, m)
    BY <1>2, <1>7, ReceivedOrder
  <2> QED BY <1>3, <1>7, <2>1
<1>9. Below(heard, replies', "audioFrame", worker.held.audio, "frame", k)
  <2>1. worker.held.audio \in Seq(Carrier) /\ a <= k
    BY <1>3, Carried
  <2> QED BY <1>2, <1>3, <1>6, <2>1, OtherOrder DEF Sound
<1>10. Late(shown, replies', h)
  <2>1. /\ replies \in Seq(Response)
        /\ \A y : Message("frame", y).type = "frame"
        /\ Plain("error").type # "frame"
    BY Carried DEF Message, Plain
  <2>2. \A i \in DOMAIN s.held :
           /\ Late(shown, replies, SubSeq(s.held, i + 1, Len(s.held)))
           /\ Late(shown, Append(replies, Message("frame", s.held[i])), SubSeq(s.held, i + 1, Len(s.held)))
    BY <1>7, <2>1, LatePut
  <2>3. \A y : Late(shown, replies, y) => Late(shown, Append(replies, Plain("error")), y)
    BY <2>1, LateKept
  <2> QED BY <1>2, <1>7, <2>2, <2>3 DEF Kept, Reply
<1> QED BY <1>3, <1>4, <1>5, <1>7, <1>8, <1>9, <1>10 DEF Drain, Sound, Pictures, Stamps

\* Sound: a packet goes into the codec under its own number.
LEMMA AudioOrder ==
    ASSUME TypeOK, NEW a \in Nat, NEW k \in Streamed, a < k, Drain(a),
           Late(shown, replies, worker.held.video),
           Decode("audio", SentAudio(k), "audioFrame"), UNCHANGED outputVars
    PROVE  Drain(k)' /\ Late(shown, replies, worker.held.video)'
<1>1. PICK s \in SentAudio(k) : \E h :
         worker' = [worker EXCEPT !.unit = s.unit, !.held["audio"] = h] /\ Kept(s, h, "audioFrame")
  BY DecodeCases
<1>2. PICK h : worker' = [worker EXCEPT !.unit = s.unit, !.held["audio"] = h] /\ Kept(s, h, "audioFrame")
  BY <1>1
<1>3. /\ worker \in Worker /\ k \in Nat /\ k > 0 /\ worker.unit \in Nat /\ worker.unit <= a
      /\ worker.held.video \in Seq(Carrier) /\ worker.held.audio \in Seq(Carrier)
  <2>1. k \in Nat /\ k > 0
    BY DEF Streamed
  <2> QED BY <2>1, Carried DEF Drain, TypeOK
<1>4. s.unit = worker.unit /\ s.held \in {worker.held.audio, Append(worker.held.audio, Stamped(k, k))}
  BY <1>3, SentCases
<1>5. worker'.unit = worker.unit /\ worker'.held.audio = h /\ worker'.held.video = worker.held.video
  BY <1>2, <1>3, <1>4 DEF Worker
<1>6. UNCHANGED <<shown, heard>>
  BY DEF outputVars
<1> DEFINE p == IF worker.unit = 0 THEN a ELSE worker.unit - 1
           q == IF worker.unit = 0 THEN a ELSE worker.unit
           P == IF worker.unit = 0 THEN k ELSE worker.unit - 1
           Q == IF worker.unit = 0 THEN k ELSE worker.unit
           x == Stamped(k, k)
<1>7. /\ p \in Nat /\ q \in Nat /\ P \in Nat /\ Q \in Nat /\ p <= P /\ q <= Q
      /\ Pictures(p) /\ Stamps(q) /\ Sound(a)
  BY <1>3 DEF Drain
<1>8. x \in Carrier /\ x["frame"] = k
  BY <1>3 DEF Stamped, Carrier
<1> HIDE DEF p, q, P, Q, x
<1>9. s.held \in Seq(Carrier) /\ Below(heard, replies, "audioFrame", s.held, "frame", k)
  <2>1. CASE s.held = worker.held.audio
    <3>1. replies \in Seq(Response) /\ \A y \in Response : IsMessage(y, "audioFrame")
      BY Carried
    <3>2. \A n \in Nat : a <= n => Below(heard, replies, "audioFrame", worker.held.audio, "frame", n)
      BY <1>3, <1>7, <3>1, BelowKept DEF Sound
    <3> QED BY <1>3, <2>1, <3>2
  <2>2. CASE s.held = Append(worker.held.audio, x)
    <3>1. Below(heard, replies, "audioFrame", Append(worker.held.audio, x), "frame", k)
      <4>1. a < x["frame"] /\ x["frame"] <= k
        BY <1>3, <1>8
      <4> QED BY <1>3, <1>7, <1>8, <4>1, BelowPut DEF Sound
    <3> QED BY <1>3, <1>8, <2>2, <3>1
  <2> QED BY <1>4, <2>1, <2>2 DEF x
<1>10. Below(heard, replies', "audioFrame", h, "frame", k)
  BY <1>2, <1>3, <1>9, ReceivedOrder
<1>11. /\ Below(shown, replies', "frame", worker.held.video, "frame", P)
       /\ Below(shown, replies', "frame", worker.held.video, "pts", Q)
  BY <1>2, <1>3, <1>7, OtherOrder DEF Pictures, Stamps
<1>12. Late(shown, replies', worker.held.video)
  <2>1. UNCHANGED replies \/ \E e : e.type # "frame" /\ replies' = Append(replies, e)
    <3>1. Plain("error").type # "frame" /\ \A y : Message("audioFrame", y).type # "frame"
      BY DEF Plain, Message
    <3> QED BY <1>2, <3>1 DEF Kept, Reply
  <2> QED BY <2>1, Carried, LateKept
<1> QED BY <1>3, <1>5, <1>6, <1>10, <1>11, <1>12 DEF Drain, Sound, Pictures, Stamps, P, Q

LEMMA WorkerOrder ==
    ASSUME TypeOK, InOrder, WorkerTask \/ Loading \/ WorkerBreaks
    PROVE  InOrder'
<1>1. PICK a \in Nat, b \in Nat : Feed(a, b) /\ Drain(a)
  BY DEF InOrder
<1>2. UNCHANGED <<kinds, inbox, outputVars>>
  BY DEF WorkerTask, HandleInit, HandleInitAudio, HandleDecode, HandleDestroy,
         Loading, InitLoaded, LoadFails, WorkerBreaks, wireVars, serverVars
<1>3. /\ worker \in Worker
      /\ \A t \in {"ready", "error", "destroyed"} : Plain(t).type = t
  BY DEF TypeOK, Plain, Message
\* Every task but the one of a packet.
<1>4. ASSUME UNCHANGED requests \/ (requests # <<>> /\ requests' = Tail(requests)),
             \/ UNCHANGED replies
             \/ \E m : m.type \notin {"frame", "audioFrame"} /\ replies' = Append(replies, m),
             \/ UNCHANGED <<worker.held, worker.unit>>
             \/ worker'.held = NothingHeld /\ worker'.unit = 0
      PROVE  InOrder'
  <2>1. Feed(a, b)'
    BY <1>1, <1>2, <1>4, FeedKept
  <2>2. Drain(a)'
    BY <1>1, <1>2, <1>4, DrainKept
  <2>3. Late(shown, replies, worker.held.video)'
    <3>1. worker'.held.video = worker.held.video \/ worker'.held.video = <<>>
      BY <1>4 DEF NothingHeld
    <3>2. Late(shown, replies', worker.held.video)
      BY <1>4, Carried, LateKept DEF InOrder
    <3>3. Late(shown, replies', <<>>)
      <4>1. Late(shown, replies, <<>>)
        BY Carried, LateKept DEF InOrder
      <4> QED BY <1>4, <4>1, Carried, LateKept
    <3> QED BY <1>2, <3>1, <3>2, <3>3 DEF outputVars
  <2> QED BY <2>1, <2>2, <2>3 DEF InOrder
<1>5. CASE HandleInit \/ HandleInitAudio \/ HandleDestroy
  <2>1. requests # <<>> /\ requests' = Tail(requests)
    BY <1>5 DEF HandleInit, HandleInitAudio, HandleDestroy, Requested
  <2>2. \/ UNCHANGED replies
        \/ \E m : m.type \notin {"frame", "audioFrame"} /\ replies' = Append(replies, m)
    BY <1>3, <1>5 DEF HandleInit, HandleInitAudio, InitAudio, HandleDestroy, Reply
  <2>3. \/ UNCHANGED <<worker.held, worker.unit>>
        \/ worker'.held = NothingHeld /\ worker'.unit = 0
    BY <1>3, <1>5 DEF HandleInit, HandleInitAudio, InitAudio, HandleDestroy, Freed, Worker
  <2> QED BY <1>4, <2>1, <2>2, <2>3
<1>6. CASE Loading \/ WorkerBreaks
  <2>1. UNCHANGED requests
    BY <1>6 DEF Loading, InitLoaded, LoadFails, WorkerBreaks
  <2>2. \/ UNCHANGED replies
        \/ \E m : m.type \notin {"frame", "audioFrame"} /\ replies' = Append(replies, m)
    BY <1>3, <1>6 DEF Loading, InitLoaded, LoadFails, WorkerBreaks, Reply
  <2>3. UNCHANGED <<worker.held, worker.unit>>
    BY <1>3, <1>6 DEF Loading, InitLoaded, LoadFails, WorkerBreaks, Worker
  <2> QED BY <1>4, <2>1, <2>2, <2>3
<1>7. CASE HandleDecode
  <2>1. requests # <<>> /\ Head(requests).type = "decode" /\ requests' = Tail(requests)
    BY <1>7 DEF HandleDecode, Requested
  <2>2. PICK k \in Nat : /\ k = Head(requests).frame.frame /\ a < k /\ k <= b
                        /\ Within(requests', "decode", "frame", k, b)
    BY <1>1, <2>1, Carried, WithinTail DEF Feed
  <2>3. k \in Streamed
    <3>1. b <= Len(kinds) /\ Len(kinds) \in Nat
      BY <1>1, Carried DEF Feed
    <3> QED BY <2>2, <3>1 DEF Streamed
  <2>4. Feed(k, b)'
    BY <1>1, <1>2, <2>2 DEF Feed
  <2>5. Late(shown, replies, worker.held.video) /\ a <= k
    BY <2>2 DEF InOrder
  <2>6. \/ UNCHANGED worker /\ (Reply(Plain("error")) \/ UNCHANGED replies)
        \/ Decode("video", SentVideo(k), "frame")
        \/ Decode("audio", SentAudio(k), "audioFrame")
    BY <1>7, <2>2 DEF HandleDecode
  <2>7. CASE UNCHANGED worker /\ (Reply(Plain("error")) \/ UNCHANGED replies)
    BY <1>3, <1>4, <2>1, <2>7 DEF Reply
  <2>8. CASE Decode("video", SentVideo(k), "frame")
    BY <1>1, <1>2, <2>2, <2>3, <2>4, <2>5, <2>8, VideoOrder DEF InOrder
  <2>9. CASE Decode("audio", SentAudio(k), "audioFrame")
    BY <1>1, <1>2, <2>2, <2>3, <2>4, <2>5, <2>9, AudioOrder DEF InOrder
  <2> QED BY <2>6, <2>7, <2>8, <2>9
<1> QED BY <1>5, <1>6, <1>7 DEF WorkerTask

\* From the socket over both queues, the parser and the codecs to the page,
\* pictures, sounds and timestamps keep the order of the server's packets,
\* whatever is refused, held back or dropped on the way.
THEOREM OrderInvariance == Spec => [](TypeOK /\ InOrder)
<1>1. Init => TypeOK /\ InOrder
  BY InitInvariant, InitOrder DEF IInv
<1>2. TypeOK /\ InOrder /\ [Next]_vars => TypeOK' /\ InOrder'
  <2> SUFFICES ASSUME TypeOK, InOrder, [Next]_vars PROVE TypeOK' /\ InOrder'
    OBVIOUS
  <2>1. TypeOK'
    BY TypeStep
  <2>2. CASE UNCHANGED vars
    BY <2>1, <2>2 DEF InOrder, Feed, Drain, Sound, Pictures, Stamps, vars, wireVars, serverVars,
                      workerVars, outputVars
  <2>3. CASE Next
    BY <2>1, <2>3, ServerOrder, PageOrder, ReplyOrder, WorkerOrder DEF Next
  <2> QED BY <2>1, <2>2, <2>3
<1> QED BY <1>1, <1>2, PTL DEF Spec

----------------------------------------------------------------------------
(* What follows from it.                                                   *)

\* Timestamps go up with the pictures and lie after them, whatever packets the
\* codecs refuse and whatever frames are lost.
THEOREM StampsFollowHolds == Spec => []StampsFollow
<1>1. TypeOK /\ InOrder => StampsFollow
  <2> SUFFICES ASSUME TypeOK, InOrder, NEW i \in DOMAIN shown
               PROVE  /\ shown[i].pts > shown[i].frame
                      /\ i > 1 => shown[i].pts > shown[i - 1].pts
    BY DEF StampsFollow
  <2>1. shown \in Seq(Carrier)
    BY Carried
  <2>2. \A j \in DOMAIN shown : shown[j].frame \in Nat /\ shown[j]["pts"] \in Nat
    <3>1. \A j \in DOMAIN shown : shown[j] \in Carrier
      BY <2>1
    <3>2. \A c \in Carrier : c.frame \in Nat
      BY DEF Carrier
    <3> QED BY <3>1, <3>2, CarrierField
  <2>3. i \in Nat /\ (i > 1 => i - 1 \in DOMAIN shown /\ i - 1 < i)
    BY <2>1
  <2>4. \A j, k \in DOMAIN shown : j < k => shown[j]["pts"] < shown[k]["pts"]
    BY DEF InOrder, Drain, Stamps, Below, Between
  <2>5. shown[i].frame < shown[i].pts
    BY DEF InOrder, Late
  <2> QED BY <2>2, <2>3, <2>4, <2>5
<1> QED BY <1>1, OrderInvariance, PTL

LEMMA NumbersAppend ==
    ASSUME NEW s \in Seq(Carrier), NEW e
    PROVE  Numbers(Append(s, e)) = Append(Numbers(s), e.frame)
<1>1. /\ DOMAIN Append(s, e) = 1..(Len(s) + 1) /\ DOMAIN s = 1..Len(s) /\ Len(s) \in Nat
      /\ \A i \in 1..Len(s) : Append(s, e)[i] = s[i]
      /\ Append(s, e)[Len(s) + 1] = e
  OBVIOUS
<1>2. Numbers(s) \in Seq(Nat) /\ Len(Numbers(s)) = Len(s)
  <2>1. \A i \in 1..Len(s) : s[i].frame \in Nat
    <3>1. \A i \in 1..Len(s) : s[i] \in Carrier
      OBVIOUS
    <3> QED BY <3>1 DEF Carrier
  <2>2. Numbers(s) = [i \in 1..Len(s) |-> s[i].frame]
    BY <1>1 DEF Numbers
  <2> QED BY <1>1, <2>1, <2>2
<1>3. /\ DOMAIN Append(Numbers(s), e.frame) = 1..(Len(s) + 1)
      /\ \A i \in 1..Len(s) : Append(Numbers(s), e.frame)[i] = s[i].frame
      /\ Append(Numbers(s), e.frame)[Len(s) + 1] = e.frame
  BY <1>1, <1>2 DEF Numbers
<1> QED BY <1>1, <1>2, <1>3 DEF Numbers

\* The refinement: a frame given to a callback is handed over, and every other
\* step of the page, the worker or the network leaves what was delivered alone.
THEOREM DeliveryHolds == Spec => DeliverySpec
<1>1. Init => Video!Init /\ Audio!Init
  BY DEF Init, Video!Init, Audio!Init, Numbers
<1>2. TypeOK /\ InOrder /\ [Next]_vars
        => [Video!Next]_<<Len(kinds), Numbers(shown)>> /\ [Audio!Next]_<<Len(kinds), Numbers(heard)>>
  <2> SUFFICES ASSUME TypeOK, InOrder, [Next]_vars
               PROVE  /\ [Video!Next]_<<Len(kinds), Numbers(shown)>>
                      /\ [Audio!Next]_<<Len(kinds), Numbers(heard)>>
    OBVIOUS
  <2> USE DEF Video!Next, Video!Issue, Video!Hand, Audio!Next, Audio!Issue, Audio!Hand
  <2>1. CASE ServerStreams
    <3>1. Len(kinds') = Len(kinds) + 1
      BY <2>1 DEF ServerStreams, TypeOK
    <3>2. UNCHANGED <<shown, heard>>
      BY <2>1 DEF ServerStreams, workerVars, outputVars
    <3>3. Numbers(shown)' = Numbers(shown) /\ Numbers(heard)' = Numbers(heard)
      BY <3>2
    <3> QED BY <3>1, <3>3
  <2>2. CASE OnFrame \/ OnAudioFrame
    <3>1. PICK a \in Nat, b \in Nat : Feed(a, b) /\ Drain(a)
      BY DEF InOrder
    <3>2. /\ replies # <<>> /\ replies' = Tail(replies) /\ UNCHANGED <<kinds, worker>>
          /\ Head(replies).type \in {"frame", "audioFrame"}
          /\ \/ UNCHANGED shown
             \/ Head(replies).type = "frame" /\ shown' = Append(shown, Head(replies).frame)
          /\ \/ UNCHANGED heard
             \/ Head(replies).type = "audioFrame" /\ heard' = Append(heard, Head(replies).frame)
      BY <2>2 DEF OnFrame, OnAudioFrame, Replied, serverVars
    <3>3. Head(replies).frame.frame \in 1..Len(kinds)
      <4>1. Head(replies).frame \in Frame
        BY <3>2, Messages, TailOf DEF TypeOK
      <4> QED BY <4>1 DEF Frame, Streamed
    <3>4. /\ Head(replies).type = "frame" =>
                \A i \in DOMAIN shown : shown[i].frame < Head(replies).frame.frame
          /\ Head(replies).type = "audioFrame" =>
                \A i \in DOMAIN heard : heard[i].frame < Head(replies).frame.frame
      BY <3>1, <3>2, DrainTaken DEF InOrder
    <3>5. /\ DOMAIN Numbers(shown) = DOMAIN shown
          /\ DOMAIN Numbers(heard) = DOMAIN heard
          /\ \A i \in DOMAIN shown : Numbers(shown)[i] = shown[i].frame
          /\ \A i \in DOMAIN heard : Numbers(heard)[i] = heard[i].frame
      BY DEF Numbers
    <3>6. \A e : /\ Numbers(Append(shown, e)) = Append(Numbers(shown), e.frame)
                 /\ Numbers(Append(heard, e)) = Append(Numbers(heard), e.frame)
      BY Carried, NumbersAppend
    <3>7. Numbers(shown)' = Numbers(shown') /\ Numbers(heard)' = Numbers(heard')
      BY DEF Numbers
    <3>8. [Video!Next]_<<Len(kinds), Numbers(shown)>>
      <4>1. CASE UNCHANGED shown
        BY <3>2, <3>7, <4>1
      <4>2. CASE Head(replies).type = "frame" /\ shown' = Append(shown, Head(replies).frame)
        <5>1. Numbers(shown)' = Append(Numbers(shown), Head(replies).frame.frame)
          BY <3>6, <3>7, <4>2
        <5>2. \A i \in DOMAIN Numbers(shown) : Numbers(shown)[i] < Head(replies).frame.frame
          BY <3>4, <3>5, <4>2
        <5>3. UNCHANGED Len(kinds)
          BY <3>2
        <5> QED BY <3>3, <5>1, <5>2, <5>3
      <4> QED BY <3>2, <4>1, <4>2
    <3>9. [Audio!Next]_<<Len(kinds), Numbers(heard)>>
      <4>1. CASE UNCHANGED heard
        BY <3>2, <3>7, <4>1
      <4>2. CASE Head(replies).type = "audioFrame" /\ heard' = Append(heard, Head(replies).frame)
        <5>1. Numbers(heard)' = Append(Numbers(heard), Head(replies).frame.frame)
          BY <3>6, <3>7, <4>2
        <5>2. \A i \in DOMAIN Numbers(heard) : Numbers(heard)[i] < Head(replies).frame.frame
          BY <3>4, <3>5, <4>2
        <5>3. UNCHANGED Len(kinds)
          BY <3>2
        <5> QED BY <3>3, <5>1, <5>2, <5>3
      <4> QED BY <3>2, <4>1, <4>2
    <3> QED BY <3>8, <3>9
  <2>3. CASE UNCHANGED <<kinds, shown, heard>>
    BY <2>3 DEF Numbers
  <2>4. ServerStreams \/ OnFrame \/ OnAudioFrame \/ UNCHANGED <<kinds, shown, heard>>
    <3>1. CASE Server
      BY <3>1 DEF Server, ServerAccepts, ServerTakesAnswer, ServerTimesOut, ServerStops,
              ServerSeesClose, workerVars, outputVars
    <3>2. CASE User \/ Socket \/ OnError
      <4>1. User \/ OnOpen \/ OnOffer \/ OnPacket => UNCHANGED <<kinds, shown, heard>>
        BY DEF User, Connect, Disconnect, OnOpen, OnOffer, OnPacket, workerVars, serverVars, outputVars
      <4>2. OnOfferNoWorker \/ OnClose \/ OnError => UNCHANGED <<kinds, shown, heard>>
        BY DEF OnOfferNoWorker, OnClose, OnError, workerVars, serverVars, outputVars
      <4> QED BY <3>2, <4>1, <4>2 DEF Socket
    <3>3. CASE WorkerReply \/ InitTimesOut \/ Terminate
      BY <3>3 DEF WorkerReply, InitReady, InitFailed, OnOtherReply, InitTimesOut, Terminate,
              serverVars, outputVars
    <3>4. CASE WorkerTask \/ Loading \/ WorkerBreaks
      BY <3>4 DEF WorkerTask, HandleInit, HandleInitAudio, HandleDecode, HandleDestroy,
              Loading, InitLoaded, LoadFails, WorkerBreaks, serverVars, outputVars
    <3>5. CASE UNCHANGED vars
      BY <3>5 DEF vars, serverVars, workerVars, outputVars
    <3> QED BY <3>1, <3>2, <3>3, <3>4, <3>5 DEF Next
  <2> QED BY <2>1, <2>2, <2>3, <2>4
<1> QED BY <1>1, <1>2, OrderInvariance, PTL DEF Spec, DeliverySpec, Video!Spec, Audio!Spec

=============================================================================
