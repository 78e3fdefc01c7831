----------------------------- MODULE Repetition -----------------------------
(* Loops: a state after n steps, for the readers and writers of bits.      *)
EXTENDS Integers, Sequences

\* What n steps make of p; step k is the function step[k].
Repeat(step, p, n) ==
    LET after[k \in 0..n] == IF k = 0 THEN p ELSE step[k - 1][after[k - 1]]
    IN  after[n]

\* 1 << n
Pow2(n) == Repeat([k \in Nat |-> [v \in Nat |-> 2 * v]], 1, n)
=============================================================================
