--------------------------- MODULE FrameDelivery ---------------------------
(***************************************************************************)
(* What splitting packets into fragments must not break: the receiver is   *)
(* handed frames the sender issued, each at most once and in the order     *)
(* they were issued.  Frames may be lost.  FragmentReassembly implements   *)
(* it as long as frame ids are not used twice, StreamClient once for the   *)
(* pictures and once for the sound.                                        *)
(***************************************************************************)
EXTENDS Naturals, Sequences

VARIABLES
    issued,   \* number of the last frame issued
    handed    \* numbers of the frames handed over

Init == issued = 0 /\ handed = <<>>

Issue == issued' = issued + 1 /\ UNCHANGED handed

Hand ==
    /\ \E k \in 1..issued :
          /\ \A i \in DOMAIN handed : handed[i] < k
          /\ handed' = Append(handed, k)
    /\ UNCHANGED issued

Next == Issue \/ Hand

Spec == Init /\ [][Next]_<<issued, handed>>
============================================================================
