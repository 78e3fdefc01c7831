------------------------- MODULE SpsReader_proofs -------------------------
EXTENDS FrameRate, SpsSyntax, FiniteSetTheorems, SequenceTheorems, WellFoundedInduction, TLAPS

----------------------------------------------------------------------------
(* Induction and repetition.                                               *)

LEMMA UpToInduction ==
    ASSUME NEW n \in Nat, NEW T, 0 \in T, \A k \in 0..(n - 1) : k \in T => k + 1 \in T
    PROVE  \A k \in 0..n : k \in T
<1> DEFINE outside == {k \in 0..n : k \notin T}
           less == {p \in Nat \X Nat : p[1] < p[2]}
<1> SUFFICES ASSUME outside # {} PROVE FALSE
  OBVIOUS
<1>1. IsWellFoundedOn(less, Nat)
  BY NatLessThanWellFounded DEF OpToRel
<1>2. outside \subseteq Nat
  OBVIOUS
<1>3. PICK k \in outside : \A m \in outside : ~ (<<m, k>> \in less)
  BY <1>1, <1>2, WFMin
<1>4. k \in Nat /\ k # 0 /\ k - 1 \in 0..(n - 1) /\ k <= n
  BY <1>3
<1>5. k - 1 \in T
  <2>1. SUFFICES ASSUME k - 1 \in outside PROVE FALSE
    BY <1>4
  <2>2. <<k - 1, k>> \in less
    BY <1>4
  <2> QED BY <1>3, <2>1, <2>2
<1>6. (k - 1) + 1 = k
  BY <1>4
<1> QED BY <1>3, <1>4, <1>5, <1>6

\* The states that a repetition goes through.
Path(a, step, p, n) ==
    /\ a = [k \in 0..n |-> a[k]] /\ a[0] = p
    /\ \A k \in 0..n : k # 0 => a[k] = step[k - 1][a[k - 1]]

Equation(a, step, p, n) == a = [k \in 0..n |-> IF k = 0 THEN p ELSE step[k - 1][a[k - 1]]]

LEMMA PathEquation ==
    ASSUME NEW step, NEW p, NEW n \in Nat, NEW a
    PROVE  Path(a, step, p, n) <=> Equation(a, step, p, n)
<1> DEFINE b == [k \in 0..n |-> IF k = 0 THEN p ELSE step[k - 1][a[k - 1]]]
<1>1. ASSUME Path(a, step, p, n) PROVE a = b
  <2>1. \A k \in 0..n : a[k] = IF k = 0 THEN p ELSE step[k - 1][a[k - 1]]
    BY <1>1 DEF Path
  <2>2. a = [k \in 0..n |-> a[k]]
    BY <1>1 DEF Path
  <2> QED BY <2>1, <2>2, Zenon
<1>2. ASSUME a = b PROVE Path(a, step, p, n)
  <2>1. b[0] = p /\ b = [k \in 0..n |-> b[k]]
    OBVIOUS
  <2>2. \A k \in 0..n : k # 0 => b[k] = step[k - 1][a[k - 1]]
    OBVIOUS
  <2> HIDE DEF b
  <2> QED BY <1>2, <2>1, <2>2, Zenon DEF Path
<1> HIDE DEF b
<1>3. Equation(a, step, p, n) <=> a = b
  BY Zenon DEF Equation, b
<1> QED BY <1>1, <1>2, <1>3

LEMMA PathUnique ==
    ASSUME NEW step, NEW p, NEW m \in Nat, NEW n \in Nat, m <= n,
           NEW a, Path(a, step, p, m), NEW b, Path(b, step, p, n)
    PROVE  \A k \in 0..m : a[k] = b[k]
<1> DEFINE T == {k \in Nat : a[k] = b[k]}
<1>1. 0 \in T
  BY DEF Path
<1>2. \A k \in 0..(m - 1) : k \in T => k + 1 \in T
  <2> SUFFICES ASSUME NEW k \in 0..(m - 1), k \in T PROVE k + 1 \in T
    OBVIOUS
  <2>1. k + 1 \in 0..m /\ k + 1 \in 0..n /\ k + 1 # 0 /\ (k + 1) - 1 = k /\ k + 1 \in Nat
    OBVIOUS
  <2>2. a[k + 1] = step[k][a[k]]
    BY <2>1 DEF Path
  <2>3. b[k + 1] = step[k][b[k]]
    BY <2>1 DEF Path
  <2> QED BY <2>1, <2>2, <2>3
<1> HIDE DEF T
<1>3. \A k \in 0..m : k \in T
  BY <1>1, <1>2, UpToInduction
<1> QED BY <1>3 DEF T

LEMMA PathExists ==
    ASSUME NEW step, NEW p, NEW n \in Nat
    PROVE  \E a : Path(a, step, p, n)
<1> DEFINE T == {k \in Nat : \E a : Path(a, step, p, k)}
<1>1. 0 \in T
  <2> DEFINE a == [k \in 0..0 |-> p]
  <2>1. Path(a, step, p, 0)
    BY DEF Path
  <2> QED BY <2>1
<1>2. \A k \in 0..(n - 1) : k \in T => k + 1 \in T
  <2> SUFFICES ASSUME NEW k \in 0..(n - 1), NEW a, Path(a, step, p, k)
               PROVE  \E b : Path(b, step, p, k + 1)
    OBVIOUS
  <2> DEFINE b == [j \in 0..(k + 1) |-> IF j = k + 1 THEN step[k][a[k]] ELSE a[j]]
  <2>1. b[0] = p
    BY DEF Path
  <2>2. ASSUME NEW j \in 0..(k + 1), j # 0 PROVE b[j] = step[j - 1][b[j - 1]]
    <3>1. j - 1 \in 0..(k + 1) /\ j - 1 # k + 1
      BY <2>2
    <3>2. b[j - 1] = a[j - 1]
      BY <3>1
    <3>3. CASE j = k + 1
      BY <3>2, <3>3
    <3>4. CASE j # k + 1
      <4>1. j \in 0..k
        BY <3>4
      <4>2. a[j] = step[j - 1][a[j - 1]]
        BY <4>1, <2>2 DEF Path
      <4>3. b[j] = a[j]
        BY <3>4
      <4> QED BY <3>2, <4>2, <4>3
    <3> QED BY <3>3, <3>4
  <2>3. b = [j \in 0..(k + 1) |-> b[j]]
    OBVIOUS
  <2> HIDE DEF b
  <2>4. Path(b, step, p, k + 1)
    BY <2>1, <2>2, <2>3 DEF Path
  <2> QED BY <2>4
<1> HIDE DEF T
<1>3. n \in 0..n
  OBVIOUS
<1>4. n \in T
  BY <1>1, <1>2, <1>3, UpToInduction
<1> QED BY <1>4 DEF T

LEMMA RepeatIsPath ==
    ASSUME NEW step, NEW p, NEW n \in Nat
    PROVE  \E a : Path(a, step, p, n) /\ Repeat(step, p, n) = a[n]
<1> DEFINE c == CHOOSE a : Equation(a, step, p, n)
<1>1. \E a : Equation(a, step, p, n)
  BY PathExists, PathEquation
<1>2. Equation(c, step, p, n)
  BY <1>1, Zenon
<1>3. Path(c, step, p, n)
  BY <1>2, PathEquation
<1>4. Repeat(step, p, n) = c[n]
  BY DEF Repeat, Equation
<1> HIDE DEF c
<1> QED BY <1>3, <1>4

\* The equations that define a repetition.
LEMMA RepeatStep ==
    ASSUME NEW step, NEW p, NEW n \in Nat
    PROVE  /\ Repeat(step, p, 0) = p
           /\ Repeat(step, p, n + 1) = step[n][Repeat(step, p, n)]
<1>1. PICK a : Path(a, step, p, 0) /\ Repeat(step, p, 0) = a[0]
  BY RepeatIsPath
<1>2. PICK b : Path(b, step, p, n) /\ Repeat(step, p, n) = b[n]
  BY RepeatIsPath
<1>3. n + 1 \in Nat /\ n <= n + 1 /\ n \in 0..n
  OBVIOUS
<1>4. PICK c : Path(c, step, p, n + 1) /\ Repeat(step, p, n + 1) = c[n + 1]
  BY <1>3, RepeatIsPath
<1>5. b[n] = c[n]
  BY <1>2, <1>3, <1>4, PathUnique
<1>6. n + 1 \in 0..(n + 1) /\ n + 1 # 0 /\ (n + 1) - 1 = n
  OBVIOUS
<1>7. c[n + 1] = step[n][c[n]]
  BY <1>4, <1>6 DEF Path
<1>8. Repeat(step, p, 0) = p
  BY <1>1 DEF Path
<1> QED BY <1>2, <1>4, <1>5, <1>7, <1>8

\* What every step keeps, a repetition keeps.
LEMMA RepeatKeeps ==
    ASSUME NEW step, NEW S, NEW p \in S, NEW n \in Nat,
           \A x \in S, k \in 0..(n - 1) : step[k][x] \in S
    PROVE  Repeat(step, p, n) \in S
<1> DEFINE T == {k \in Nat : Repeat(step, p, k) \in S}
<1>1. 0 \in T
  BY RepeatStep
<1>2. \A k \in 0..(n - 1) : k \in T => k + 1 \in T
  BY RepeatStep
<1> HIDE DEF T
<1>3. n \in T
  BY <1>1, <1>2, UpToInduction
<1> QED BY <1>3 DEF T

----------------------------------------------------------------------------
(* The reader: types.                                                      *)

BitsOK == bits \in Seq({0, 1})

LEMMA BitType ==
    ASSUME BitsOK
    PROVE  /\ End \in Nat
           /\ \A p \in Nat : Bit(p) \in {0, 1} /\ Bit(p) \in Nat
           /\ \A p \in Nat : p >= End => Bit(p) = 0
           /\ \A p \in Nat : p < End => Bit(p) = bits[p + 1]
           /\ \A p, n \in Nat : SkipBits(p, n) \in 0..End /\ SkipBits(p, n) \in Nat
<1>1. End \in Nat /\ \A k \in 1..End : bits[k] \in {0, 1}
  BY DEF BitsOK, End
<1>2. \A p \in Nat : p < End => p + 1 \in 1..End
  BY <1>1
<1>3. \A p \in Nat : Bit(p) \in {0, 1}
  BY <1>1, <1>2 DEF Bit
<1>4. \A p \in Nat : p >= End => Bit(p) = 0
  BY <1>1 DEF Bit
<1>5. \A p \in Nat : p < End => Bit(p) = bits[p + 1]
  BY <1>1 DEF Bit
<1>6. \A p, n \in Nat : SkipBits(p, n) \in 0..End
  BY <1>1 DEF SkipBits
<1>7. \A p \in Nat : Bit(p) \in Nat
  BY <1>3
<1>8. \A p, n \in Nat : SkipBits(p, n) \in Nat
  BY <1>1, <1>6
<1> QED BY <1>1, <1>3, <1>4, <1>5, <1>6, <1>7, <1>8, Zenon

LEMMA Pow2Step ==
    ASSUME NEW n \in Nat
    PROVE  Pow2(0) = 1 /\ Pow2(n) \in Nat \ {0} /\ Pow2(n + 1) = 2 * Pow2(n)
<1> DEFINE step == [k \in Nat |-> [v \in Nat |-> 2 * v]]
           S == Nat \ {0}
<1>1. \A x \in S, k \in 0..(n - 1) : step[k][x] \in S
  OBVIOUS
<1>2. \A v \in S : step[n][v] = 2 * v
  OBVIOUS
<1>3. \A m : Pow2(m) = Repeat(step, 1, m)
  BY DEF Pow2
<1> HIDE DEF step
<1>4. 1 \in S
  OBVIOUS
<1> HIDE DEF S
<1>5. Repeat(step, 1, n) \in S
  BY <1>1, <1>4, RepeatKeeps
<1>6. Repeat(step, 1, 0) = 1 /\ Repeat(step, 1, n + 1) = step[n][Repeat(step, 1, n)]
  BY RepeatStep
<1> QED BY <1>2, <1>3, <1>5, <1>6 DEF S

LEMMA ReadBitsStep ==
    ASSUME BitsOK, NEW p \in Nat, NEW n \in Nat
    PROVE  /\ ReadBits(p, 0) = 0 /\ ReadBits(p, n) \in Nat
           /\ ReadBits(p, n + 1) = 2 * ReadBits(p, n) + Bit(p + n)
<1> DEFINE step == [k \in Nat |-> [value \in Nat |-> 2 * value + Bit(p + k)]]
<1>1. \A k \in Nat : Bit(p + k) \in Nat
  <2> SUFFICES ASSUME NEW k \in Nat PROVE Bit(p + k) \in Nat
    OBVIOUS
  <2>1. p + k \in Nat
    OBVIOUS
  <2> HIDE DEF step
  <2> QED BY <2>1, BitType
<1>2. \A x \in Nat, k \in Nat : step[k][x] = 2 * x + Bit(p + k)
  OBVIOUS
<1>3. \A m : ReadBits(p, m) = Repeat(step, 0, m)
  BY DEF ReadBits
<1> HIDE DEF step
<1>4. \A x \in Nat, k \in 0..(n - 1) : step[k][x] \in Nat
  BY <1>1, <1>2
<1>5. Repeat(step, 0, n) \in Nat
  BY <1>4, RepeatKeeps
<1>6. Repeat(step, 0, 0) = 0 /\ Repeat(step, 0, n + 1) = step[n][Repeat(step, 0, n)]
  BY RepeatStep
<1> QED BY <1>2, <1>3, <1>5, <1>6

\* Where the zeros before p + n end.
Stops(q) == Bit(q) = 1 \/ q + 1 >= End

LEMMA ZerosIs ==
    ASSUME BitsOK, NEW p \in Nat
    PROVE  /\ Zeros(p) \in 0..End /\ Zeros(p) \in Nat
           /\ Stops(p + Zeros(p)) /\ \A k \in 0..(Zeros(p) - 1) : ~Stops(p + k)
<1> DEFINE S == {n \in Nat : Stops(p + n)}
           less == {q \in Nat \X Nat : q[1] < q[2]}
<1>1. End \in Nat
  BY BitType
<1>2. End \in S
  BY <1>1 DEF Stops
<1>3. IsWellFoundedOn(less, Nat)
  BY NatLessThanWellFounded DEF OpToRel
<1>4. PICK n \in S : \A m \in S : ~ (<<m, n>> \in less)
  BY <1>2, <1>3, WFMin
<1>5. \A m \in S : n <= m
  <2> SUFFICES ASSUME NEW m \in S PROVE n <= m
    OBVIOUS
  <2>1. <<m, n>> \in less <=> m < n
    OBVIOUS
  <2> QED BY <1>4, <2>1
<1>6. n \in 0..End /\ Stops(p + n) /\ \A k \in 0..(n - 1) : ~Stops(p + k)
  BY <1>1, <1>2, <1>5
<1>7. Zeros(p) = CHOOSE m \in 0..End : Stops(p + m) /\ \A k \in 0..(m - 1) : ~Stops(p + k)
  BY Zenon DEF Zeros, Stops
<1>8. /\ Zeros(p) \in 0..End
      /\ Stops(p + Zeros(p)) /\ \A k \in 0..(Zeros(p) - 1) : ~Stops(p + k)
  BY <1>6, <1>7, Zenon
<1> QED BY <1>1, <1>8

LEMMA UEType ==
    ASSUME BitsOK, NEW p \in Nat
    PROVE  ReadUE(p) \in Nat /\ AfterUE(p) \in Nat /\ AfterUE(p) \in 0..End /\ ReadSE(p) \in Int
<1>1. Zeros(p) \in Nat
  BY ZerosIs
<1>2. Pow2(Zeros(p)) \in Nat \ {0}
  BY <1>1, Pow2Step
<1>3. p + Zeros(p) + 1 \in Nat /\ 2 * Zeros(p) + 1 \in Nat
  BY <1>1
<1>4. ReadBits(p + Zeros(p) + 1, Zeros(p)) \in Nat
  BY <1>1, <1>3, ReadBitsStep
<1>5. ReadUE(p) \in Nat
  BY <1>2, <1>4 DEF ReadUE
<1>6. AfterUE(p) \in Nat /\ AfterUE(p) \in 0..End
  BY <1>3, BitType DEF AfterUE
<1>7. ReadSE(p) \in Int
  BY <1>5 DEF ReadSE
<1> QED BY <1>5, <1>6, <1>7

\* A loop over positions stays among them.
LEMMA RepeatType ==
    ASSUME NEW step, NEW p \in Nat, NEW n \in Nat, \A k \in Nat, q \in Nat : step[k][q] \in Nat
    PROVE  Repeat(step, p, n) \in Nat
<1>1. \A q \in Nat, k \in 0..(n - 1) : step[k][q] \in Nat
  OBVIOUS
<1> QED BY <1>1, RepeatKeeps

LEMMA UEsType ==
    ASSUME BitsOK, NEW p \in Nat, NEW n \in Nat
    PROVE  AfterUEs(p, n) \in Nat
<1> DEFINE step == [k \in Nat |-> [q \in Nat |-> AfterUE(q)]]
<1>1. \A k \in Nat, q \in Nat : step[k][q] \in Nat
  BY UEType
<1>2. AfterUEs(p, n) = Repeat(step, p, n)
  BY DEF AfterUEs
<1> HIDE DEF step
<1> QED BY <1>1, <1>2, RepeatType

LEMMA OptionType ==
    ASSUME BitsOK, NEW p \in Nat, NEW q, q \in Nat \/ Bit(p) # 1
    PROVE  AfterOption(p, q) \in Nat
BY BitType DEF AfterOption

LEMMA ScaleType ==
    ASSUME BitsOK, NEW s \in ScaleStates
    PROVE  NextScale(s) \in ScaleStates
<1> DEFINE next == (s.last + ReadSE(s.pos) + 256) % 256
<1>1. s.pos \in Nat /\ s.last \in 0..255
  BY DEF ScaleStates
<1>2. ReadSE(s.pos) \in Int /\ AfterUE(s.pos) \in Nat
  BY <1>1, UEType
<1>3. next \in 0..255
  <2>1. ASSUME NEW a \in Int, NEW b \in Int PROVE (a + b + 256) % 256 \in 0..255
    OBVIOUS
  <2>2. s.last \in Int
    BY <1>1
  <2> QED BY <1>2, <2>1, <2>2
<1>4. NextScale(s) = IF s.next = 0 THEN s
                     ELSE [pos |-> AfterUE(s.pos), next |-> next, last |-> IF next = 0 THEN s.last ELSE next]
  BY DEF NextScale
<1> HIDE DEF next
<1> QED BY <1>1, <1>2, <1>3, <1>4 DEF ScaleStates

LEMMA ScalingListType ==
    ASSUME BitsOK, NEW p \in Nat, NEW size \in Nat
    PROVE  AfterScalingList(p, size) \in Nat
<1> DEFINE step == [k \in Nat |-> [s \in ScaleStates |-> NextScale(s)]]
           first == [pos |-> p, next |-> 8, last |-> 8]
<1>1. \A x \in ScaleStates, k \in 0..(size - 1) : step[k][x] \in ScaleStates
  BY ScaleType
<1>2. first \in ScaleStates
  BY DEF ScaleStates
<1>3. AfterScalingList(p, size) = Repeat(step, first, size).pos
  BY DEF AfterScalingList
<1> HIDE DEF step, first
<1>4. Repeat(step, first, size) \in ScaleStates
  BY <1>1, <1>2, RepeatKeeps
<1> QED BY <1>3, <1>4 DEF ScaleStates

LEMMA ScalingListsType ==
    ASSUME BitsOK, NEW p \in Nat, NEW count \in Nat
    PROVE  AfterScalingLists(p, count) \in Nat
<1> DEFINE size(k) == IF k < 6 THEN 16 ELSE 64
           step == [k \in Nat |-> [q \in Nat |-> AfterOption(q, AfterScalingList(q + 1, size(k)))]]
<1>1. ASSUME NEW k \in Nat, NEW q \in Nat PROVE AfterOption(q, AfterScalingList(q + 1, size(k))) \in Nat
  <2>1. q + 1 \in Nat /\ size(k) \in Nat
    OBVIOUS
  <2> HIDE DEF size
  <2>2. AfterScalingList(q + 1, size(k)) \in Nat
    BY <2>1, ScalingListType
  <2> QED BY <2>2, OptionType
<1>2. AfterScalingLists(p, count) = Repeat(step, p, count)
  BY DEF AfterScalingLists
<1>3. \A k \in Nat, q \in Nat : step[k][q] \in Nat
  BY <1>1
<1> HIDE DEF step
<1> QED BY <1>2, <1>3, RepeatType

LEMMA ChromaType ==
    ASSUME BitsOK, NEW p \in Nat
    PROVE  AfterChroma(p) \in Nat
<1> DEFINE depths == SkipBits(AfterUE(p), IF ReadUE(p) = 3 THEN 1 ELSE 0)
           matrix == SkipBits(AfterUEs(depths, 2), 1)
           lists == AfterScalingLists(matrix + 1, IF ReadUE(p) = 3 THEN 12 ELSE 8)
<1>1. AfterUE(p) \in Nat
  BY UEType
<1>2. depths \in Nat
  BY <1>1, BitType
<1>3. AfterUEs(depths, 2) \in Nat
  BY <1>2, UEsType
<1>4. matrix \in Nat
  BY <1>3, BitType
<1>a. (IF ReadUE(p) = 3 THEN 12 ELSE 8) \in Nat
  OBVIOUS
<1>b. matrix + 1 \in Nat
  <2> HIDE DEF matrix
  <2> QED BY <1>4
<1>5. lists \in Nat
  BY <1>a, <1>b, ScalingListsType
<1>6. AfterChroma(p) = AfterOption(matrix, lists)
  BY DEF AfterChroma
<1> HIDE DEF depths, matrix, lists
<1> QED BY <1>4, <1>5, <1>6, OptionType

LEMMA PicOrderType ==
    ASSUME BitsOK, NEW p \in Nat
    PROVE  AfterPicOrder(p) \in Nat
<1> DEFINE cycle == AfterUEs(SkipBits(AfterUE(p), 1), 2)
<1>1. AfterUE(p) \in Nat /\ AfterUEs(p, 2) \in Nat
  BY UEType, UEsType
<1>2. SkipBits(AfterUE(p), 1) \in Nat
  BY <1>1, BitType
<1>3. cycle \in Nat
  BY <1>2, UEsType
<1>4. AfterPicOrder(p) = IF ReadUE(p) = 0 THEN AfterUEs(p, 2)
                         ELSE IF ReadUE(p) = 1 THEN AfterUEs(AfterUE(cycle), ReadUE(cycle)) ELSE AfterUE(p)
  BY DEF AfterPicOrder
<1> HIDE DEF cycle
<1>5. AfterUE(cycle) \in Nat /\ ReadUE(cycle) \in Nat
  BY <1>3, UEType
<1>6. AfterUEs(AfterUE(cycle), ReadUE(cycle)) \in Nat
  BY <1>5, UEsType
<1> QED BY <1>1, <1>4, <1>6

LEMMA DescriptionType ==
    ASSUME BitsOK, NEW p \in Nat
    PROVE  AfterDescription(p) \in Nat
<1> DEFINE ratio == IF ReadBits(p + 1, 8) = 255 THEN 40 ELSE 8
           aspect == SkipBits(p + 1, ratio)
           overscan == AfterOption(p, aspect)
           signal == AfterOption(overscan, SkipBits(overscan + 1, 1))
           colour == AfterOption(signal + 5, SkipBits(signal + 6, 24))
           location == AfterOption(signal, colour)
<1>c. p + 1 \in Nat
  OBVIOUS
<1>d. ratio \in Nat
  OBVIOUS
<1>1. aspect \in Nat
  <2> HIDE DEF ratio
  <2> QED BY <1>c, <1>d, BitType
<1>2. overscan \in Nat
  BY <1>1, OptionType
<1>3. AfterDescription(p) = AfterOption(location, AfterUEs(location + 1, 2))
  BY DEF AfterDescription
<1> HIDE DEF aspect, overscan
<1>b. overscan + 1 \in Nat
  BY <1>2
<1>4. SkipBits(overscan + 1, 1) \in Nat
  BY <1>b, BitType
<1>5. signal \in Nat
  BY <1>2, <1>4, OptionType
<1> HIDE DEF signal
<1>a. signal + 5 \in Nat /\ signal + 6 \in Nat
  BY <1>5
<1>6. SkipBits(signal + 6, 24) \in Nat
  BY <1>a, BitType
<1>7. colour \in Nat
  BY <1>a, <1>6, OptionType
<1>8. location \in Nat
  BY <1>5, <1>7, OptionType
<1> HIDE DEF location
<1>9. AfterUEs(location + 1, 2) \in Nat
  BY <1>8, UEsType
<1> QED BY <1>3, <1>8, <1>9, OptionType

\* A frame rate that the timer can take.
RateType(rate) ==
    /\ rate = Fps(rate.num, rate.den)
    /\ rate.num \in Nat \ {0} /\ rate.den \in Nat \ {0}

LEMMA DefaultType == RateType(DEFAULT_FPS) /\ DEFAULT_FPS.num = 25 /\ DEFAULT_FPS.den = 1
BY DEF RateType, DEFAULT_FPS, Fps

LEMMA TimingType ==
    ASSUME BitsOK, NEW p \in Nat, NEW ticks \in Nat \ {0}
    PROVE  RateType(Timing(p, ticks))
<1> DEFINE units == ReadBits(p + 1, 32)
           scale == ReadBits(p + 33, 32)
<1>a. p + 1 \in Nat /\ p + 33 \in Nat
  OBVIOUS
<1>1. units \in Nat /\ scale \in Nat
  BY <1>a, ReadBitsStep
<1>2. Timing(p, ticks) = IF Bit(p) = 0 \/ units = 0 \/ scale = 0 THEN DEFAULT_FPS
                         ELSE Fps(scale, ticks * units)
  BY DEF Timing
<1> HIDE DEF units, scale
<1>3. units # 0 => ticks * units \in Nat \ {0}
  BY <1>1
<1>4. scale # 0 /\ units # 0 => RateType(Fps(scale, ticks * units))
  BY <1>1, <1>3 DEF RateType, Fps
<1> QED BY <1>2, <1>4, DefaultType

LEMMA Vui264Type ==
    ASSUME BitsOK
    PROVE  Vui264 \in Nat
<1> DEFINE chroma == AfterUE(24)
           frameNum == IF ReadBits(0, 8) \in HighProfiles THEN AfterChroma(chroma) ELSE chroma
           refFrames == AfterPicOrder(AfterUE(frameNum))
           mbsOnly == AfterUEs(SkipBits(AfterUE(refFrames), 1), 2)
           cropping == SkipBits(mbsOnly, IF Bit(mbsOnly) = 1 THEN 2 ELSE 3)
<1>1. Vui264 = AfterOption(cropping, AfterUEs(cropping + 1, 4))
  BY DEF Vui264
<1>2. frameNum \in Nat
  BY UEType, ChromaType
<1> HIDE DEF frameNum
<1>3. refFrames \in Nat
  BY <1>2, UEType, PicOrderType
<1> HIDE DEF refFrames
<1>4. AfterUE(refFrames) \in Nat
  BY <1>3, UEType
<1>5. SkipBits(AfterUE(refFrames), 1) \in Nat
  BY <1>4, BitType
<1>6. mbsOnly \in Nat
  BY <1>5, UEsType
<1> HIDE DEF mbsOnly
<1>7. cropping \in Nat
  BY <1>6, BitType
<1> HIDE DEF cropping
<1>8. AfterUEs(cropping + 1, 4) \in Nat
  BY <1>7, UEsType
<1> QED BY <1>1, <1>7, <1>8, OptionType

\* Whatever the bytes, a rate is read that the timer can take.
LEMMA Rate264Type ==
    ASSUME BitsOK
    PROVE  RateType(ParseH264Fps)
<1>1. Vui264 + 1 \in Nat
  BY Vui264Type
<1>2. AfterDescription(Vui264 + 1) \in Nat
  BY <1>1, DescriptionType
<1>3. RateType(Timing(AfterDescription(Vui264 + 1), 2))
  BY <1>2, TimingType
<1> QED BY <1>3, DefaultType DEF ParseH264Fps

LEMMA ProfileType ==
    ASSUME BitsOK, NEW n \in Nat
    PROVE  AfterProfile(n) \in Nat
<1> DEFINE announced(first) == {k \in 1..n : Bit(first + 2 * (k - 1)) = 1}
           size == 88 * Cardinality(announced(104)) + 8 * Cardinality(announced(105))
<1>1. AfterProfile(n) = IF n = 0 THEN SkipBits(104, 0) ELSE SkipBits(120, size)
  BY DEF AfterProfile
<1>2. IsFiniteSet(1..n)
  BY FS_Interval
<1>3. \A first : Cardinality(announced(first)) \in Nat
  <2> SUFFICES ASSUME NEW first PROVE Cardinality(announced(first)) \in Nat
    OBVIOUS
  <2>1. announced(first) \subseteq 1..n
    OBVIOUS
  <2> HIDE DEF announced
  <2>2. IsFiniteSet(announced(first))
    BY <1>2, <2>1, FS_Subset
  <2> QED BY <2>2, FS_CardinalityType
<1> HIDE DEF announced
<1>4. Cardinality(announced(104)) \in Nat /\ Cardinality(announced(105)) \in Nat
  BY <1>3
<1>5. size \in Nat
  BY <1>4
<1> HIDE DEF size
<1>6. SkipBits(120, size) \in Nat /\ SkipBits(104, 0) \in Nat
  BY <1>5, BitType
<1> QED BY <1>1, <1>6

LEMMA MatrixType ==
    ASSUME BitsOK, NEW p \in Nat, NEW sizeId \in Nat
    PROVE  AfterMatrix(p, sizeId) \in Nat
<1> DEFINE n == (IF sizeId > 1 THEN 1 ELSE 0) + (IF sizeId = 0 THEN 16 ELSE 64)
<1>1. n \in Nat /\ p + 1 \in Nat
  OBVIOUS
<1>2. AfterMatrix(p, sizeId) = IF Bit(p) = 0 THEN AfterUE(SkipBits(p, 1)) ELSE AfterUEs(p + 1, n)
  BY DEF AfterMatrix
<1> HIDE DEF n
<1>3. SkipBits(p, 1) \in Nat
  BY BitType
<1> QED BY <1>1, <1>2, <1>3, UEType, UEsType

LEMMA PcmType ==
    ASSUME BitsOK, NEW p \in Nat
    PROVE  AfterPcm(p) \in Nat
<1>1. SkipBits(p, 9) \in Nat
  BY BitType
<1>2. AfterUEs(SkipBits(p, 9), 2) \in Nat
  BY <1>1, UEsType
<1>3. SkipBits(AfterUEs(SkipBits(p, 9), 2), 1) \in Nat
  BY <1>2, BitType
<1> QED BY <1>3, OptionType DEF AfterPcm

LEMMA PicturesType ==
    ASSUME BitsOK, NEW p \in Nat, NEW n \in Nat
    PROVE  AfterPictures(p, n) \in Nat
<1> DEFINE step == [k \in Nat |-> [q \in Nat |-> SkipBits(AfterUE(q), 1)]]
<1>1. \A k \in Nat, q \in Nat : step[k][q] \in Nat
  BY UEType, BitType
<1>2. AfterPictures(p, n) = Repeat(step, p, n)
  BY DEF AfterPictures
<1> HIDE DEF step
<1> QED BY <1>1, <1>2, RepeatType

LEMMA ShortTermSetType ==
    ASSUME BitsOK, NEW p \in Nat, NEW k \in Nat
    PROVE  AfterShortTermSet(p, k) \in Nat
<1> DEFINE predicted == AfterUE(SkipBits(p, 2))
           negative == IF k = 0 THEN p ELSE SkipBits(p, 1)
           pictures == AfterUEs(negative, 2)
           step == [j \in Nat |-> [q \in Nat |-> AfterOption(q, SkipBits(q, 2))]]
           first == AfterPictures(pictures, ReadUE(negative))
<1>1. AfterShortTermSet(p, k) =
          IF k # 0 /\ Bit(p) = 1 THEN Repeat(step, predicted, 16)
          ELSE AfterPictures(first, ReadUE(AfterUE(negative)))
  BY DEF AfterShortTermSet
<1>2. SkipBits(p, 1) \in Nat /\ SkipBits(p, 2) \in Nat
  BY BitType
<1>3. predicted \in Nat /\ negative \in Nat
  BY <1>2, UEType
<1>4. \A j \in Nat, q \in Nat : step[j][q] \in Nat
  BY BitType, OptionType
<1> HIDE DEF step, predicted, negative
<1>5. Repeat(step, predicted, 16) \in Nat
  BY <1>3, <1>4, RepeatType
<1>6. ReadUE(negative) \in Nat /\ AfterUE(negative) \in Nat /\ ReadUE(AfterUE(negative)) \in Nat
  BY <1>3, UEType
<1>7. pictures \in Nat
  BY <1>3, UEsType
<1> HIDE DEF pictures
<1>8. first \in Nat
  BY <1>6, <1>7, PicturesType
<1> HIDE DEF first
<1>9. AfterPictures(first, ReadUE(AfterUE(negative))) \in Nat
  BY <1>6, <1>8, PicturesType
<1> QED BY <1>1, <1>5, <1>9

LEMMA ShortTermSetsType ==
    ASSUME BitsOK, NEW p \in Nat
    PROVE  AfterShortTermSets(p) \in Nat
<1> DEFINE step == [k \in Nat |-> [q \in Nat |-> AfterShortTermSet(q, k)]]
<1>1. \A k \in Nat, q \in Nat : step[k][q] \in Nat
  BY ShortTermSetType
<1>2. AfterShortTermSets(p) = Repeat(step, AfterUE(p), ReadUE(p))
  BY DEF AfterShortTermSets
<1> HIDE DEF step
<1>3. AfterUE(p) \in Nat /\ ReadUE(p) \in Nat
  BY UEType
<1> DEFINE q == AfterUE(p)
           n == ReadUE(p)
<1> HIDE DEF q, n
<1>4. q \in Nat /\ n \in Nat
  BY <1>3 DEF q, n
<1>5. Repeat(step, q, n) \in Nat
  BY <1>1, <1>4, RepeatType
<1> QED BY <1>2, <1>5 DEF q, n

LEMMA LongTermType ==
    ASSUME BitsOK, NEW p \in Nat
    PROVE  AfterLongTerm(p) \in Nat
<1> DEFINE step == [k \in Nat |-> [q \in Nat |-> SkipBits(AfterUE(q), ReadUE(q) + 5)]]
<1>1. ASSUME NEW k \in Nat, NEW q \in Nat PROVE SkipBits(AfterUE(q), ReadUE(q) + 5) \in Nat
  <2>1. AfterUE(q) \in Nat /\ ReadUE(q) \in Nat
    BY UEType
  <2>2. ReadUE(q) + 5 \in Nat
    BY <2>1
  <2> QED BY <2>1, <2>2, BitType
<1>2. \A k \in Nat, q \in Nat : step[k][q] \in Nat
  BY <1>1
<1>3. AfterLongTerm(p) = AfterOption(p, Repeat(step, AfterUE(p + 1), ReadUE(p + 1)))
  BY DEF AfterLongTerm
<1> HIDE DEF step
<1>4. p + 1 \in Nat
  OBVIOUS
<1>5. AfterUE(p + 1) \in Nat /\ ReadUE(p + 1) \in Nat
  BY <1>4, UEType
<1>6. Repeat(step, AfterUE(p + 1), ReadUE(p + 1)) \in Nat
  BY <1>2, <1>5, RepeatType
<1> QED BY <1>3, <1>6, OptionType

LEMMA MatricesType ==
    ASSUME BitsOK, NEW p \in Nat, NEW n \in Nat
    PROVE  Repeat([k \in Nat |-> [q \in Nat |-> AfterMatrix(q, k \div 6)]], p, n) \in Nat
<1> DEFINE step == [k \in Nat |-> [q \in Nat |-> AfterMatrix(q, k \div 6)]]
<1>1. ASSUME NEW k \in Nat, NEW q \in Nat PROVE AfterMatrix(q, k \div 6) \in Nat
  <2>1. k \div 6 \in Nat
    OBVIOUS
  <2> QED BY <2>1, MatrixType
<1>2. \A k \in Nat, q \in Nat : step[k][q] \in Nat
  BY <1>1
<1> HIDE DEF step
<1>3. Repeat(step, p, n) \in Nat
  BY <1>2, RepeatType
<1> QED BY <1>3 DEF step

LEMMA Vui265Type ==
    ASSUME BitsOK
    PROVE  Vui265 \in Nat
<1> DEFINE subLayers == ReadBits(4, 3)
           chroma == AfterUE(AfterProfile(subLayers))
           size == SkipBits(AfterUE(chroma), IF ReadUE(chroma) = 3 THEN 1 ELSE 0)
           window == AfterUEs(size, 2)
           depths == AfterOption(window, AfterUEs(window + 1, 4))
           ordering == AfterUEs(depths, 3)
           count == 3 * (IF Bit(ordering) = 1 THEN subLayers + 1 ELSE 1)
           blocks == AfterUEs(SkipBits(ordering, 1), count)
           scaling == AfterUEs(blocks, 6)
           lists == Repeat([k \in Nat |-> [q \in Nat |-> AfterMatrix(q, k \div 6)]], scaling + 2, 20)
           given == AfterOption(scaling + 1, lists)
           tools == AfterOption(scaling, given)
           sets == AfterPcm(SkipBits(tools, 2))
           long == AfterLongTerm(AfterShortTermSets(sets))
<1>1. Vui265 = SkipBits(long, 2)
  BY DEF Vui265
<1>2. subLayers \in Nat
  BY ReadBitsStep
<1> HIDE DEF subLayers
<1>3. chroma \in Nat
  BY <1>2, ProfileType, UEType
<1> HIDE DEF chroma
<1>4. size \in Nat
  BY <1>3, UEType, BitType
<1> HIDE DEF size
<1>5. window \in Nat
  BY <1>4, UEsType
<1> HIDE DEF window
<1>6. window + 1 \in Nat
  BY <1>5
<1>7. depths \in Nat
  BY <1>5, <1>6, UEsType, OptionType
<1> HIDE DEF depths
<1>8. ordering \in Nat
  BY <1>7, UEsType
<1> HIDE DEF ordering
<1>9. SkipBits(ordering, 1) \in Nat
  BY <1>8, BitType
<1>a. count \in Nat
  <2>1. subLayers + 1 \in Nat
    BY <1>2
  <2>2. count = 3 * (subLayers + 1) \/ count = 3
    OBVIOUS
  <2> QED BY <2>1, <2>2
<1> HIDE DEF count
<1>10. blocks \in Nat
  BY <1>9, <1>a, UEsType
<1> HIDE DEF blocks
<1>11. scaling \in Nat
  BY <1>10, UEsType
<1> HIDE DEF scaling
<1>12. scaling + 1 \in Nat /\ scaling + 2 \in Nat
  BY <1>11
<1>13. lists \in Nat
  BY <1>12, MatricesType
<1> HIDE DEF lists
<1>14. given \in Nat
  BY <1>12, <1>13, OptionType
<1> HIDE DEF given
<1>15. tools \in Nat
  BY <1>11, <1>14, OptionType
<1> HIDE DEF tools
<1>16. SkipBits(tools, 2) \in Nat
  BY <1>15, BitType
<1>17. sets \in Nat
  BY <1>16, PcmType
<1> HIDE DEF sets
<1>18. AfterShortTermSets(sets) \in Nat
  BY <1>17, ShortTermSetsType
<1>19. long \in Nat
  BY <1>18, LongTermType
<1> HIDE DEF long
<1> QED BY <1>1, <1>19, BitType

\* Whatever the bytes, a rate is read that the timer can take.
LEMMA Rate265Type ==
    ASSUME BitsOK
    PROVE  RateType(ParseH265Fps)
<1> DEFINE display == SkipBits(AfterDescription(Vui265 + 1), 3)
           timing == AfterOption(display, AfterUEs(display + 1, 4))
<1>1. ParseH265Fps = IF Bit(Vui265) = 0 THEN DEFAULT_FPS ELSE Timing(timing, 1)
  BY DEF ParseH265Fps
<1>2. Vui265 + 1 \in Nat
  BY Vui265Type
<1>3. AfterDescription(Vui265 + 1) \in Nat
  BY <1>2, DescriptionType
<1>4. display \in Nat
  BY <1>3, BitType
<1> HIDE DEF display
<1>5. display + 1 \in Nat
  BY <1>4
<1>6. timing \in Nat
  BY <1>4, <1>5, UEsType, OptionType
<1> HIDE DEF timing
<1>7. RateType(Timing(timing, 1))
  BY <1>6, TimingType
<1> QED BY <1>1, <1>7, DefaultType
----------------------------------------------------------------------------
(* The bits that LoadFile gives the reader.                                *)

LEMMA PowValues ==
    /\ Pow2(0) = 1 /\ Pow2(1) = 2 /\ Pow2(2) = 4 /\ Pow2(3) = 8
    /\ Pow2(4) = 16 /\ Pow2(5) = 32 /\ Pow2(6) = 64 /\ Pow2(7) = 128
<1>1. \A n \in Nat : Pow2(0) = 1 /\ Pow2(n + 1) = 2 * Pow2(n)
  BY Pow2Step
<1>2. Pow2(0 + 1) = 2 /\ Pow2(1 + 1) = 2 * Pow2(1) /\ Pow2(2 + 1) = 2 * Pow2(2)
  BY <1>1
<1>3. Pow2(3 + 1) = 2 * Pow2(3) /\ Pow2(4 + 1) = 2 * Pow2(4)
  BY <1>1
<1>4. Pow2(5 + 1) = 2 * Pow2(5) /\ Pow2(6 + 1) = 2 * Pow2(6)
  BY <1>1
<1> QED BY <1>1, <1>2, <1>3, <1>4

LEMMA BitsOfType ==
    ASSUME NEW bytes \in Seq(0..255)
    PROVE  BitsOf(bytes) \in Seq({0, 1}) /\ Len(BitsOf(bytes)) = 8 * Len(bytes)
<1> DEFINE n == 8 * Len(bytes)
           value(b) == (bytes[((b - 1) \div 8) + 1] \div Pow2(7 - ((b - 1) % 8))) % 2
<1>1. n \in Nat
  OBVIOUS
<1>2. ASSUME NEW b \in 1..n PROVE value(b) \in {0, 1}
  <2>1. ((b - 1) \div 8) + 1 \in 1..Len(bytes) /\ 7 - ((b - 1) % 8) \in Nat
    BY <1>2
  <2>2. bytes[((b - 1) \div 8) + 1] \in Nat
    <3> DEFINE byte == bytes[((b - 1) \div 8) + 1]
    <3>1. byte \in 0..255
      BY <2>1, ElementOfSeq
    <3> HIDE DEF byte
    <3>2. byte \in Nat
      BY <3>1
    <3> QED BY <3>2 DEF byte
  <2>3. Pow2(7 - ((b - 1) % 8)) \in Nat \ {0}
    BY <2>1, Pow2Step
  <2>4. ASSUME NEW v \in Nat, NEW d \in Nat \ {0} PROVE (v \div d) % 2 \in {0, 1}
    <3>1. v \div d \in Int
      OBVIOUS
    <3> QED BY <3>1
  <2> QED BY <2>2, <2>3, <2>4
<1>3. BitsOf(bytes) = [b \in 1..n |-> value(b)]
  BY DEF BitsOf
<1> HIDE DEF value, n
<1>4. BitsOf(bytes) \in [1..n -> {0, 1}]
  BY <1>2, <1>3
<1>5. DOMAIN BitsOf(bytes) = 1..n
  BY <1>3
<1> QED BY <1>1, <1>4, <1>5 DEF n

LEMMA RbspType ==
    ASSUME NEW data \in Seq(0..255)
    PROVE  RemoveEmulationPrevention(data) \in Seq(0..255)
<1> DEFINE step == [k \in Nat |-> [rbsp \in Seq(Nat) |->
                       IF k >= 2 /\ data[k + 1] = 3 /\ data[k] = 0 /\ data[k - 1] = 0 THEN rbsp
                       ELSE Append(rbsp, data[k + 1])]]
<1>1. RemoveEmulationPrevention(data) = Repeat(step, <<>>, Len(data))
  BY DEF RemoveEmulationPrevention
<1>2. ASSUME NEW x \in Seq(0..255), NEW k \in 0..(Len(data) - 1) PROVE step[k][x] \in Seq(0..255)
  <2>1. x \in Seq(Nat) /\ k \in Nat
    OBVIOUS
  <2>2. step[k][x] = x \/ step[k][x] = Append(x, data[k + 1])
    BY <2>1
  <2>3. data[k + 1] \in 0..255
    <3>1. k + 1 \in 1..Len(data)
      OBVIOUS
    <3> QED BY <3>1, ElementOfSeq
  <2> QED BY <2>2, <2>3
<1> HIDE DEF step
<1>3. <<>> \in Seq(0..255) /\ Len(data) \in Nat
  OBVIOUS
<1> DEFINE S == Seq(0..255)
<1>4. <<>> \in S /\ \A x \in S, k \in 0..(Len(data) - 1) : step[k][x] \in S
  BY <1>2, <1>3
<1> HIDE DEF S
<1>5. Repeat(step, <<>>, Len(data)) \in S
  BY <1>3, <1>4, RepeatKeeps
<1> QED BY <1>1, <1>5 DEF S

----------------------------------------------------------------------------
(* Elements where they are written.  A file may end in one: the bits there *)
(* are its first ones, and the position behind it is the end.              *)

At(p, e) == \A k \in 1..Len(e) : p + k <= End => bits[p + k] = e[k]

Strings == Seq({0, 1})

LEMMA SkipFacts ==
    ASSUME BitsOK, NEW p \in 0..End, NEW m \in Nat
    PROVE  /\ SkipBits(p, 0) = p /\ SkipBits(p, m) \in 0..End /\ SkipBits(End, m) = End
           /\ p \in Nat /\ End \in 0..End
           /\ \A n \in Nat : SkipBits(SkipBits(p, m), n) = SkipBits(p, m + n)
           /\ p + m >= End <=> SkipBits(p, m) = End
           /\ p + m <= End => SkipBits(p, m) = p + m
<1>1. End \in Nat
  BY BitType
<1> QED BY <1>1 DEF SkipBits

LEMMA Joined ==
    ASSUME NEW a \in Strings, NEW b \in Strings
    PROVE  /\ a \o b \in Strings /\ Len(a) \in Nat /\ Len(b) \in Nat
           /\ Len(a \o b) = Len(a) + Len(b)
           /\ \A k \in 1..Len(a) : (a \o b)[k] = a[k]
           /\ \A k \in 1..Len(b) : (a \o b)[Len(a) + k] = b[k]
<1>1. /\ a \o b \in Strings /\ Len(a) \in Nat /\ Len(b) \in Nat
      /\ Len(a \o b) = Len(a) + Len(b)
  BY ConcatProperties, LenProperties DEF Strings
<1>2. \A k \in 1..(Len(a) + Len(b)) : (a \o b)[k] = IF k <= Len(a) THEN a[k] ELSE b[k - Len(a)]
  BY ConcatProperties DEF Strings
<1>3. \A k \in 1..Len(a) : (a \o b)[k] = a[k]
  BY <1>1, <1>2
<1>4. \A k \in 1..Len(b) : (a \o b)[Len(a) + k] = b[k]
  <2> SUFFICES ASSUME NEW k \in 1..Len(b) PROVE (a \o b)[Len(a) + k] = b[k]
    OBVIOUS
  <2>1. Len(a) + k \in 1..(Len(a) + Len(b)) /\ ~(Len(a) + k <= Len(a)) /\ (Len(a) + k) - Len(a) = k
    BY <1>1
  <2> QED BY <1>2, <2>1
<1> QED BY <1>1, <1>3, <1>4

LEMMA JoinedType ==
    ASSUME NEW a \in Strings, NEW b \in Strings
    PROVE  a \o b \in Strings
BY Joined

LEMMA JoinedLength ==
    ASSUME NEW a \in Strings, NEW b \in Strings
    PROVE  Len(a \o b) = Len(a) + Len(b)
BY Joined

LEMMA Length ==
    ASSUME NEW a \in Strings
    PROVE  Len(a) \in Nat
BY LenProperties DEF Strings

\* What is behind the elements a that were read from p on.
Behind(p, a) == SkipBits(p, Len(a))

LEMMA Behinds ==
    ASSUME BitsOK, NEW p \in 0..End, NEW a \in Strings, NEW b \in Strings, At(p, a \o b)
    PROVE  /\ a \o b \in Strings /\ At(p, a) /\ At(Behind(p, a), b)
           /\ Behind(p, a) \in 0..End
           /\ Behind(Behind(p, a), b) = Behind(p, a \o b)
<1>1. /\ End \in Nat /\ Len(a) \in Nat /\ Len(b) \in Nat /\ a \o b \in Strings
      /\ Len(a \o b) = Len(a) + Len(b)
      /\ \A k \in 1..Len(a) : (a \o b)[k] = a[k]
      /\ \A k \in 1..Len(b) : (a \o b)[Len(a) + k] = b[k]
  BY BitType, Joined
<1>2. At(p, a)
  BY <1>1 DEF At
<1>3. At(Behind(p, a), b)
  <2> SUFFICES ASSUME NEW k \in 1..Len(b), Behind(p, a) + k <= End
               PROVE  bits[Behind(p, a) + k] = b[k]
    BY DEF At
  <2>1. Behind(p, a) = p + Len(a)
    BY <1>1 DEF Behind, SkipBits
  <2>2. Len(a) + k \in 1..Len(a \o b) /\ p + (Len(a) + k) <= End
    BY <1>1, <2>1
  <2>3. bits[p + (Len(a) + k)] = (a \o b)[Len(a) + k]
    BY <2>2 DEF At
  <2>4. p + (Len(a) + k) = Behind(p, a) + k
    BY <1>1, <2>1
  <2> QED BY <1>1, <2>3, <2>4
<1>4. Behind(p, a) \in 0..End /\ Behind(Behind(p, a), b) = Behind(p, a \o b)
  BY <1>1, SkipFacts DEF Behind
<1> QED BY <1>1, <1>2, <1>3, <1>4

----------------------------------------------------------------------------
(* Numbers of a given length.                                              *)

LEMMA HalvedStep ==
    ASSUME NEW v \in Nat, NEW n \in Nat
    PROVE  /\ Halved(v, 0) = v /\ Halved(v, n) \in Nat
           /\ Halved(v, n + 1) = Halved(v, n) \div 2
<1> DEFINE step == [k \in Nat |-> [w \in Nat |-> w \div 2]]
<1>1. \A x \in Nat, k \in 0..(n - 1) : step[k][x] \in Nat
  OBVIOUS
<1>2. \A x \in Nat : step[n][x] = x \div 2
  OBVIOUS
<1>3. \A m : Halved(v, m) = Repeat(step, v, m)
  BY DEF Halved
<1> HIDE DEF step
<1>4. Repeat(step, v, n) \in Nat
  BY <1>1, RepeatKeeps
<1>5. Repeat(step, v, 0) = v /\ Repeat(step, v, n + 1) = step[n][Repeat(step, v, n)]
  BY RepeatStep
<1> QED BY <1>2, <1>3, <1>4, <1>5

LEMMA UType ==
    ASSUME NEW n \in Nat, NEW v \in Nat
    PROVE  /\ U(n, v) \in Strings /\ Len(U(n, v)) = n
           /\ \A k \in 1..n : U(n, v)[k] = Halved(v, n - k) % 2
<1> DEFINE digit(k) == Halved(v, n - k) % 2
<1>1. \A k \in 1..n : digit(k) \in {0, 1}
  <2> SUFFICES ASSUME NEW k \in 1..n PROVE digit(k) \in {0, 1}
    OBVIOUS
  <2>1. n - k \in Nat
    OBVIOUS
  <2>2. Halved(v, n - k) \in Nat
    BY <2>1, HalvedStep
  <2>3. \A w \in Nat : w % 2 \in {0, 1}
    OBVIOUS
  <2> QED BY <2>2, <2>3
<1>2. U(n, v) = [k \in 1..n |-> digit(k)]
  BY DEF U
<1>3. \A k \in 1..n : U(n, v)[k] = digit(k)
  BY <1>2
<1> HIDE DEF digit
<1>4. U(n, v) \in [1..n -> {0, 1}] /\ DOMAIN U(n, v) = 1..n
  BY <1>1, <1>2
<1> QED BY <1>3, <1>4 DEF Strings, digit

\* A number that is cut is read as one that is not larger.
LEMMA UReads ==
    ASSUME BitsOK, NEW p \in Nat, NEW n \in Nat, NEW v \in Word(n), At(p, U(n, v))
    PROVE  /\ ReadBits(p, n) \in Nat /\ ReadBits(p, n) <= v
           /\ p + n <= End => ReadBits(p, n) = v
<1> DEFINE T == {k \in Nat : /\ ReadBits(p, k) <= Halved(v, n - k)
                             /\ p + k <= End => ReadBits(p, k) = Halved(v, n - k)}
<1>1. v \in Nat /\ Halved(v, n) = 0 /\ End \in Nat
  BY BitType DEF Word
<1>2. 0 \in T
  <2>1. ReadBits(p, 0) = 0 /\ n - 0 = n
    BY ReadBitsStep
  <2> QED BY <1>1, <2>1
<1>3. \A k \in 0..(n - 1) : k \in T => k + 1 \in T
  <2> SUFFICES ASSUME NEW k \in 0..(n - 1), k \in T PROVE k + 1 \in T
    OBVIOUS
  <2> DEFINE r == ReadBits(p, k)
             h == Halved(v, n - (k + 1))
             b == Bit(p + k)
  <2>1. k \in Nat /\ n - (k + 1) \in Nat /\ (n - (k + 1)) + 1 = n - k /\ p + k \in Nat /\ k + 1 \in 1..n
    OBVIOUS
  <2>2. r \in Nat /\ ReadBits(p, k + 1) = 2 * r + b
    BY <2>1, ReadBitsStep
  <2>3. h \in Nat /\ Halved(v, n - k) = h \div 2
    <3> DEFINE j == n - (k + 1)
    <3>1. j \in Nat /\ j + 1 = n - k
      BY <2>1
    <3> HIDE DEF j
    <3>2. Halved(v, j) \in Nat /\ Halved(v, j + 1) = Halved(v, j) \div 2
      BY <1>1, <3>1, HalvedStep
    <3>3. Halved(v, n - k) = Halved(v, j) \div 2
      BY <3>1, <3>2
    <3> QED BY <3>2, <3>3 DEF j
  <2>4. b = 0 \/ (p + k < End /\ b = bits[p + (k + 1)])
    BY <1>1, <2>1, BitType DEF Bit
  <2>5. p + (k + 1) <= End => b = h % 2
    <3> SUFFICES ASSUME p + (k + 1) <= End PROVE b = h % 2
      OBVIOUS
    <3>1. k + 1 \in 1..Len(U(n, v)) /\ U(n, v)[k + 1] = h % 2
      BY <1>1, <2>1, UType
    <3>2. bits[p + (k + 1)] = h % 2
      BY <3>1 DEF At
    <3>3. p + k < End /\ (p + k) + 1 = p + (k + 1)
      BY <1>1, <2>1
    <3>4. Bit(p + k) = bits[p + (k + 1)]
      BY <2>1, <3>3, BitType
    <3> QED BY <3>2, <3>4
  <2>6. r <= h \div 2 /\ (p + k <= End => r = h \div 2)
    BY <2>3
  <2> HIDE DEF r, h, b, T
  <2>7. b \in Nat /\ (p + (k + 1) > End => b = 0)
    <3>1. \A w \in Nat : w % 2 \in Nat
      OBVIOUS
    <3> QED BY <1>1, <2>1, <2>3, <2>4, <2>5, <3>1
  <2>8. 2 * r + b <= h
    <3>1. h = 2 * (h \div 2) + (h % 2) /\ h % 2 >= 0
      BY <2>3
    <3>2. p + (k + 1) <= End \/ p + (k + 1) > End
      BY <1>1, <2>1
    <3> QED BY <2>2, <2>3, <2>5, <2>6, <2>7, <3>1, <3>2
  <2>9. p + (k + 1) <= End => 2 * r + b = h
    <3>1. h = 2 * (h \div 2) + (h % 2) /\ h % 2 >= 0
      BY <2>3
    <3>2. p + (k + 1) <= End => p + k <= End
      BY <1>1, <2>1
    <3> QED BY <2>2, <2>3, <2>5, <2>6, <2>7, <3>1, <3>2
  <2> QED BY <2>1, <2>2, <2>8, <2>9 DEF T, h
<1> HIDE DEF T
<1>4. n \in T
  BY <1>2, <1>3, UpToInduction
<1>5. n - n = 0 /\ Halved(v, 0) = v
  BY <1>1, HalvedStep
<1>6. ReadBits(p, n) \in Nat
  BY ReadBitsStep
<1> QED BY <1>4, <1>5, <1>6 DEF T

LEMMA ReadsNothing ==
    ASSUME BitsOK, NEW p \in Nat, p >= End, NEW n \in Nat
    PROVE  ReadBits(p, n) = 0
<1> DEFINE T == {k \in Nat : ReadBits(p, k) = 0}
<1>1. 0 \in T
  BY ReadBitsStep
<1>2. \A k \in 0..(n - 1) : k \in T => k + 1 \in T
  <2> SUFFICES ASSUME NEW k \in 0..(n - 1), k \in T PROVE k + 1 \in T
    OBVIOUS
  <2>1. k \in Nat /\ p + k \in Nat /\ p + k >= End
    BY BitType
  <2>2. Bit(p + k) = 0
    BY <2>1, BitType
  <2>3. ReadBits(p, k + 1) = 2 * ReadBits(p, k) + Bit(p + k)
    BY <2>1, ReadBitsStep
  <2> QED BY <2>1, <2>2, <2>3
<1> HIDE DEF T
<1>3. n \in T
  BY <1>1, <1>2, UpToInduction
<1> QED BY <1>3 DEF T

LEMMA ReadFirstBit ==
    ASSUME BitsOK, NEW p \in Nat, Bit(p) = 1, NEW n \in Nat
    PROVE  ReadBits(p, n + 1) = Pow2(n) + ReadBits(p + 1, n)
<1> DEFINE T == {k \in Nat : ReadBits(p, k + 1) = Pow2(k) + ReadBits(p + 1, k)}
<1>1. p + 1 \in Nat /\ p + 0 = p /\ 0 + 1 = 1
  OBVIOUS
<1>2. 0 \in T
  <2>1. ReadBits(p, 0) = 0 /\ ReadBits(p, 0 + 1) = 2 * ReadBits(p, 0) + Bit(p + 0)
    BY ReadBitsStep
  <2>2. Pow2(0) = 1 /\ ReadBits(p + 1, 0) = 0
    BY <1>1, Pow2Step, ReadBitsStep
  <2> QED BY <1>1, <2>1, <2>2
<1>3. \A k \in 0..(n - 1) : k \in T => k + 1 \in T
  <2> SUFFICES ASSUME NEW k \in 0..(n - 1), k \in T PROVE k + 1 \in T
    OBVIOUS
  <2>1. k \in Nat /\ k + 1 \in Nat /\ p + (k + 1) = (p + 1) + k
    OBVIOUS
  <2>2. ReadBits(p, k + 1 + 1) = 2 * ReadBits(p, k + 1) + Bit(p + (k + 1))
    BY <2>1, ReadBitsStep
  <2>3. ReadBits(p + 1, k + 1) = 2 * ReadBits(p + 1, k) + Bit((p + 1) + k)
    BY <1>1, <2>1, ReadBitsStep
  <2>4. Pow2(k) \in Nat /\ Pow2(k + 1) = 2 * Pow2(k)
    BY <2>1, Pow2Step
  <2>5. ReadBits(p + 1, k) \in Nat /\ (p + 1) + k \in Nat
    BY <1>1, <2>1, ReadBitsStep
  <2>6. Bit((p + 1) + k) \in Nat
    BY <2>5, BitType
  <2> QED BY <2>1, <2>2, <2>3, <2>4, <2>5, <2>6
<1> HIDE DEF T
<1>4. n \in T
  BY <1>2, <1>3, UpToInduction
<1> QED BY <1>4 DEF T

----------------------------------------------------------------------------
(* Exponential-Golomb codes.                                               *)

LEMMA HasFirstDigit ==
    ASSUME NEW w \in Nat \ {0}
    PROVE  \E n \in 0..(w - 1) : Halved(w, n) = 1
<1> SUFFICES ASSUME \A n \in 0..(w - 1) : Halved(w, n) # 1 PROVE FALSE
  OBVIOUS
<1> DEFINE T == {k \in Nat : Halved(w, k) >= 2}
           V == {k \in Nat : Halved(w, k) = 0 \/ Halved(w, k) <= w - k}
<1>1. \A k \in Nat : Halved(w, 0) = w /\ Halved(w, k) \in Nat /\ Halved(w, k + 1) = Halved(w, k) \div 2
  BY HalvedStep
<1>2. 0 \in T
  <2>1. 0 \in 0..(w - 1)
    OBVIOUS
  <2>2. Halved(w, 0) # 1
    BY <2>1
  <2> QED BY <1>1, <2>2
<1>3. \A k \in 0..(w - 1 - 1) : k \in T => k + 1 \in T
  <2> SUFFICES ASSUME NEW k \in 0..(w - 1 - 1), k \in T PROVE k + 1 \in T
    OBVIOUS
  <2>1. k \in Nat /\ k + 1 \in 0..(w - 1) /\ k + 1 \in Nat
    OBVIOUS
  <2>2. Halved(w, k + 1) # 1
    BY <2>1
  <2>3. Halved(w, k) \in Nat /\ Halved(w, k) >= 2 /\ Halved(w, k + 1) = Halved(w, k) \div 2
    BY <1>1, <2>1
  <2> QED BY <2>1, <2>2, <2>3
<1>4. 0 \in V
  BY <1>1
<1>5. \A k \in 0..(w - 1) : k \in V => k + 1 \in V
  <2> SUFFICES ASSUME NEW k \in 0..(w - 1), k \in V PROVE k + 1 \in V
    OBVIOUS
  <2>1. k \in Nat /\ k + 1 \in Nat
    OBVIOUS
  <2>2. Halved(w, k) \in Nat /\ Halved(w, k + 1) = Halved(w, k) \div 2
    BY <1>1, <2>1
  <2> QED BY <2>1, <2>2
<1> HIDE DEF T, V
<1>6. w - 1 \in Nat /\ (w - 1) + 1 = w
  OBVIOUS
<1>7. w - 1 \in T
  <2> DEFINE n == w - 1
  <2>1. n \in Nat /\ \A k \in 0..(n - 1) : k \in T => k + 1 \in T
    BY <1>3, <1>6
  <2> HIDE DEF n
  <2>2. n \in T
    BY <1>2, <2>1, UpToInduction
  <2> QED BY <2>2 DEF n
<1>8. w \in V
  BY <1>4, <1>5, UpToInduction
<1>9. Halved(w, w) = 0
  BY <1>1, <1>8 DEF V
<1>10. Halved(w, w) = Halved(w, w - 1) \div 2
  <2> DEFINE n == w - 1
  <2>1. n \in Nat /\ n + 1 = w
    BY <1>6
  <2> HIDE DEF n
  <2>2. Halved(w, n + 1) = Halved(w, n) \div 2
    BY <1>1, <2>1
  <2> QED BY <2>1, <2>2 DEF n
<1>11. Halved(w, w - 1) \in Nat /\ Halved(w, w - 1) >= 2
  BY <1>1, <1>6, <1>7 DEF T
<1> QED BY <1>9, <1>10, <1>11

ZeroBits(n) == [k \in 1..n |-> 0]

LEMMA ZeroBitsType ==
    ASSUME NEW n \in Nat
    PROVE  ZeroBits(n) \in Strings /\ Len(ZeroBits(n)) = n /\ \A k \in 1..n : ZeroBits(n)[k] = 0
BY DEF ZeroBits, Strings

LEMMA UeForm ==
    ASSUME NEW v \in Nat
    PROVE  \E n \in Nat : /\ Halved(v + 1, n) = 1
                          /\ Ue(v) = ZeroBits(n) \o U(n + 1, v + 1)
                          /\ Ue(v) \in Strings /\ Len(Ue(v)) = 2 * n + 1
<1> DEFINE least == CHOOSE n \in 0..v : Halved(v + 1, n) = 1
<1>1. \E k \in 0..v : Halved(v + 1, k) = 1
  <2> DEFINE w == v + 1
  <2>1. w \in Nat \ {0} /\ w - 1 = v
    OBVIOUS
  <2> HIDE DEF w
  <2>2. \E k \in 0..(w - 1) : Halved(w, k) = 1
    BY <2>1, HasFirstDigit
  <2>3. \E k \in 0..v : Halved(w, k) = 1
    BY <2>1, <2>2
  <2> QED BY <2>3 DEF w
<1>2. least \in 0..v /\ Halved(v + 1, least) = 1
  BY <1>1, Zenon
<1>3. Ue(v) = ZeroBits(least) \o U(least + 1, v + 1)
  BY DEF Ue, ZeroBits
<1> HIDE DEF least
<1>4. PICK n \in 0..v : Halved(v + 1, n) = 1 /\ Ue(v) = ZeroBits(n) \o U(n + 1, v + 1)
  BY <1>2, <1>3
<1> DEFINE z == ZeroBits(n)
           u == U(n + 1, v + 1)
<1>5. n \in Nat /\ n + 1 \in Nat /\ v + 1 \in Nat
  OBVIOUS
<1>6. z \in Strings /\ Len(z) = n
  BY <1>5, ZeroBitsType
<1>7. u \in Strings /\ Len(u) = n + 1
  BY <1>5, UType
<1>8. Ue(v) = z \o u
  BY <1>4
<1> HIDE DEF z, u
<1>9. Ue(v) \in Strings /\ Len(Ue(v)) = Len(z) + Len(u)
  <2>1. z \o u \in Strings
    BY <1>6, <1>7, Joined
  <2>2. Len(z \o u) = Len(z) + Len(u)
    BY <1>6, <1>7, Joined
  <2> QED BY <1>8, <2>1, <2>2
<1>10. Len(Ue(v)) = 2 * n + 1
  BY <1>5, <1>6, <1>7, <1>9
<1> QED BY <1>4, <1>5, <1>9, <1>10

LEMMA UeType ==
    ASSUME NEW v \in Nat
    PROVE  Ue(v) \in Strings
BY UeForm

\* Whatever is behind the end, an element that the file ends in is read up to
\* there.
LEMMA UeReads ==
    ASSUME BitsOK, NEW p \in 0..End, NEW v \in Nat, At(p, Ue(v))
    PROVE  /\ AfterUE(p) = Behind(p, Ue(v))
           /\ ReadUE(p) = v \/ AfterUE(p) = End
<1>1. PICK n \in Nat : /\ Halved(v + 1, n) = 1
                       /\ Ue(v) = ZeroBits(n) \o U(n + 1, v + 1)
                       /\ Ue(v) \in Strings /\ Len(Ue(v)) = 2 * n + 1
  BY UeForm
<1> DEFINE z == ZeroBits(n)
           u == U(n + 1, v + 1)
           q == Behind(p, z)
<1>2. /\ End \in Nat /\ p \in Nat /\ n + 1 \in Nat /\ v + 1 \in Nat
      /\ z \in Strings /\ Len(z) = n /\ u \in Strings /\ Len(u) = n + 1
      /\ \A k \in 1..n : z[k] = 0
  <2>1. End \in Nat /\ p \in Nat /\ n + 1 \in Nat /\ v + 1 \in Nat
    BY BitType
  <2>2. u \in Strings /\ Len(u) = n + 1
    BY <2>1, UType
  <2> QED BY <2>1, <2>2, ZeroBitsType
<1>3. At(p, z) /\ At(q, u)
  BY <1>1, <1>2, Behinds
<1>4. q = SkipBits(p, n)
  BY <1>2 DEF Behind
<1>5. \A k \in 0..(n - 1) : p + k < End => Bit(p + k) = 0
  <2> SUFFICES ASSUME NEW k \in 0..(n - 1), p + k < End PROVE Bit(p + k) = 0
    OBVIOUS
  <2>1. k + 1 \in 1..Len(z) /\ p + (k + 1) <= End /\ (p + k) + 1 = p + (k + 1) /\ p + k \in Nat
    BY <1>2
  <2>2. bits[p + (k + 1)] = 0
    BY <1>2, <1>3, <2>1 DEF At
  <2>3. Bit(p + k) = bits[(p + k) + 1]
    BY <2>1, BitType
  <2> QED BY <2>1, <2>2, <2>3
<1> DEFINE m == Zeros(p)
<1>6. m \in Nat /\ Stops(p + m) /\ \A k \in 0..(m - 1) : ~Stops(p + k)
  BY <1>2, ZerosIs
<1>7. AfterUE(p) = SkipBits(p, 2 * m + 1)
  BY DEF AfterUE
<1>8. ReadUE(p) = Pow2(m) - 1 + ReadBits(p + m + 1, m)
  BY DEF ReadUE
<1> HIDE DEF m, z, u
<1>9. Behind(p, Ue(v)) = SkipBits(p, 2 * n + 1)
  BY <1>1 DEF Behind
<1>10. CASE p + n < End
  <2>1. q = p + n /\ q \in Nat /\ q + 1 <= End
    BY <1>2, <1>4, <1>10 DEF SkipBits
  <2>2. Bit(q) = 1
    <3>1. 1 \in 1..Len(u)
      BY <1>2
    <3>2. bits[q + 1] = u[1]
      BY <1>3, <2>1, <3>1 DEF At
    <3>3. u[1] = Halved(v + 1, (n + 1) - 1) % 2
      BY <1>2, UType DEF u
    <3>4. (n + 1) - 1 = n /\ 1 % 2 = 1
      BY <1>2
    <3>5. bits[q + 1] = 1
      BY <1>1, <3>2, <3>3, <3>4
    <3>6. q < End
      BY <1>2, <2>1
    <3> QED BY <2>1, <3>5, <3>6, BitType
  <2>3. Stops(p + n) /\ \A k \in 0..(n - 1) : ~Stops(p + k)
    <3>1. Stops(p + n)
      BY <2>1, <2>2 DEF Stops
    <3>2. ASSUME NEW k \in 0..(n - 1) PROVE ~Stops(p + k)
      <4>1. p + k < End /\ ~(p + k + 1 >= End)
        BY <1>2, <1>10
      <4>2. Bit(p + k) = 0
        BY <1>5, <4>1
      <4> QED BY <4>1, <4>2 DEF Stops
    <3> QED BY <3>1, <3>2
  <2>4. m = n
    <3>1. ~(m < n)
      BY <1>6, <2>3
    <3>2. ~(n < m)
      BY <1>6, <2>3
    <3> QED BY <1>6, <3>1, <3>2
  <2>5. AfterUE(p) = Behind(p, Ue(v))
    BY <1>7, <1>9, <2>4
  <2>6. CASE p + (2 * n + 1) <= End
    <3>1. v + 1 \in Word(n + 1)
      <4>1. Halved(v + 1, n + 1) = Halved(v + 1, n) \div 2
        BY <1>2, HalvedStep
      <4>2. Halved(v + 1, n + 1) = 0
        BY <1>1, <4>1
      <4> QED BY <1>2, <4>2 DEF Word
    <3>2. q + (n + 1) <= End
      BY <1>2, <2>1, <2>6
    <3>3. ReadBits(q, n + 1) = v + 1
      BY <1>2, <1>3, <2>1, <3>1, <3>2, UReads DEF u
    <3>4. ReadBits(q, n + 1) = Pow2(n) + ReadBits(q + 1, n)
      BY <2>1, <2>2, ReadFirstBit
    <3>5. Pow2(n) \in Nat /\ ReadBits(q + 1, n) \in Nat
      <4>1. q + 1 \in Nat
        BY <2>1
      <4> QED BY <4>1, Pow2Step, ReadBitsStep
    <3>6. ReadUE(p) = Pow2(n) - 1 + ReadBits(q + 1, n)
      BY <1>8, <2>1, <2>4
    <3> DEFINE b == ReadBits(q + 1, n)
               w == Pow2(n)
    <3>7. w \in Nat /\ b \in Nat /\ v + 1 = w + b /\ ReadUE(p) = w - 1 + b
      BY <3>3, <3>4, <3>5, <3>6
    <3> HIDE DEF b, w
    <3>8. ReadUE(p) = v
      BY <3>7
    <3> QED BY <2>5, <3>8
  <2>7. CASE ~(p + (2 * n + 1) <= End)
    <3>1. SkipBits(p, 2 * n + 1) = End
      BY <1>2, <2>7 DEF SkipBits
    <3> QED BY <1>9, <2>5, <3>1
  <2> QED BY <2>6, <2>7
<1>11. CASE ~(p + n < End)
  <2>1. SkipBits(p, 2 * n + 1) = End
    BY <1>2, <1>11 DEF SkipBits
  <2>2. Bit(p + m) = 0
    <3>1. p + m \in Nat
      BY <1>2, <1>6
    <3>2. CASE p + m < End
      <4>1. m \in 0..(n - 1)
        BY <1>2, <1>6, <1>11, <3>2
      <4> QED BY <1>5, <3>2, <4>1
    <3>3. CASE ~(p + m < End)
      BY <1>2, <3>1, <3>3, BitType
    <3> QED BY <3>2, <3>3
  <2>3. p + m + 1 >= End
    BY <1>6, <2>2 DEF Stops
  <2>4. SkipBits(p, 2 * m + 1) = End
    BY <1>2, <1>6, <2>3 DEF SkipBits
  <2> QED BY <1>7, <1>9, <2>1, <2>4
<1> QED BY <1>10, <1>11

LEMMA SeReads ==
    ASSUME BitsOK, NEW p \in 0..End, NEW v \in Int, At(p, Se(v))
    PROVE  /\ AfterUE(p) = Behind(p, Se(v))
           /\ ReadSE(p) = v \/ AfterUE(p) = End
<1> DEFINE u == IF v > 0 THEN 2 * v - 1 ELSE -2 * v
<1>1. u \in Nat /\ Se(v) = Ue(u)
  BY DEF Se
<1>2. u % 2 = (IF v > 0 THEN 1 ELSE 0)
  OBVIOUS
<1>3. v > 0 => (u + 1) \div 2 = v
  OBVIOUS
<1>4. ~(v > 0) => -(u \div 2) = v
  OBVIOUS
<1> HIDE DEF u
<1>5. AfterUE(p) = Behind(p, Ue(u)) /\ (ReadUE(p) = u \/ AfterUE(p) = End)
  BY <1>1, UeReads
<1>6. ReadUE(p) = u => ReadSE(p) = v
  <2>1. ReadUE(p) = u => ReadSE(p) = IF u % 2 = 1 THEN (u + 1) \div 2 ELSE -(u \div 2)
    BY DEF ReadSE
  <2> QED BY <1>2, <1>3, <1>4, <2>1
<1> QED BY <1>1, <1>5, <1>6

LEMMA SeType ==
    ASSUME NEW v \in Int
    PROVE  Se(v) \in Strings
<1>1. \E u \in Nat : Se(v) = Ue(u)
  <2>1. (IF v > 0 THEN 2 * v - 1 ELSE -2 * v) \in Nat
    OBVIOUS
  <2> QED BY <2>1 DEF Se
<1> QED BY <1>1, UeType

----------------------------------------------------------------------------
(* Elements in a row.                                                      *)

\* The first k of them.
Joint(parts, k) ==
    Repeat([j \in Nat |-> [s \in Seq({0, 1}) |-> s \o parts[j + 1]]], <<>>, k)

LEMMA JointStep ==
    ASSUME NEW n \in Nat, NEW parts, \A k \in 1..n : parts[k] \in Strings
    PROVE  /\ Joint(parts, 0) = <<>>
           /\ \A k \in 0..n : Joint(parts, k) \in Strings
           /\ \A k \in 0..(n - 1) : Joint(parts, k + 1) = Joint(parts, k) \o parts[k + 1]
<1> DEFINE step == [j \in Nat |-> [s \in Seq({0, 1}) |-> s \o parts[j + 1]]]
           T == {k \in Nat : Joint(parts, k) \in Strings}
<1>1. \A k \in Nat, s \in Strings : step[k][s] = s \o parts[k + 1]
  BY DEF Strings
<1>2. \A k : Joint(parts, k) = Repeat(step, <<>>, k)
  BY DEF Joint
<1> HIDE DEF step
<1>3. \A k \in Nat : Joint(parts, 0) = <<>> /\ Joint(parts, k + 1) = step[k][Joint(parts, k)]
  BY <1>2, RepeatStep
<1>4. 0 \in T
  <2>1. <<>> \in Strings
    BY EmptySeq DEF Strings
  <2> QED BY <1>3, <2>1
<1>5. \A k \in 0..(n - 1) : k \in T => k + 1 \in T
  <2> SUFFICES ASSUME NEW k \in 0..(n - 1), k \in T PROVE k + 1 \in T
    OBVIOUS
  <2>1. k \in Nat /\ k + 1 \in 1..n /\ k + 1 \in Nat
    OBVIOUS
  <2>2. Joint(parts, k + 1) = Joint(parts, k) \o parts[k + 1]
    BY <1>1, <1>3, <2>1
  <2>3. parts[k + 1] \in Strings
    BY <2>1
  <2>4. Joint(parts, k) \o parts[k + 1] \in Strings
    BY <2>3, Joined
  <2> QED BY <2>1, <2>2, <2>4
<1> HIDE DEF T
<1>6. \A k \in 0..n : k \in T
  BY <1>4, <1>5, UpToInduction
<1>7. \A k \in 0..n : Joint(parts, k) \in Strings
  BY <1>6 DEF T
<1>8. \A k \in 0..(n - 1) : Joint(parts, k + 1) = Joint(parts, k) \o parts[k + 1]
  <2> SUFFICES ASSUME NEW k \in 0..(n - 1)
               PROVE  Joint(parts, k + 1) = Joint(parts, k) \o parts[k + 1]
    OBVIOUS
  <2>1. k \in Nat /\ k \in 0..n
    OBVIOUS
  <2> QED BY <1>1, <1>3, <1>7, <2>1
<1> QED BY <1>3, <1>7, <1>8

LEMMA ConcatIsJoint ==
    ASSUME NEW n \in Nat, NEW parts, Len(parts) = n, \A k \in 1..n : parts[k] \in Strings
    PROVE  Concat(parts) = Joint(parts, n) /\ Concat(parts) \in Strings
<1>1. Concat(parts) = Joint(parts, n)
  BY DEF Concat, Joint
<1>2. n \in 0..n
  OBVIOUS
<1> QED BY <1>1, <1>2, JointStep

\* A loop whose steps read the elements reads all of them.
LEMMA LoopReads ==
    ASSUME BitsOK, NEW n \in Nat, NEW parts, \A k \in 1..n : parts[k] \in Strings,
           NEW p \in 0..End, At(p, Joint(parts, n)), NEW step,
           \A k \in 1..n, q \in 0..End : At(q, parts[k]) => step[k - 1][q] = Behind(q, parts[k])
    PROVE  Repeat(step, p, n) = Behind(p, Joint(parts, n))
<1> DEFINE T == {k \in Nat : At(p, Joint(parts, k)) => Repeat(step, p, k) = Behind(p, Joint(parts, k))}
<1>1. 0 \in T
  <2>1. Joint(parts, 0) = <<>> /\ Len(<<>>) = 0
    BY JointStep
  <2>2. Behind(p, Joint(parts, 0)) = p
    BY <2>1, SkipFacts DEF Behind
  <2>3. Repeat(step, p, 0) = p
    BY RepeatStep
  <2> QED BY <2>2, <2>3
<1>2. \A k \in 0..(n - 1) : k \in T => k + 1 \in T
  <2> SUFFICES ASSUME NEW k \in 0..(n - 1), k \in T PROVE k + 1 \in T
    OBVIOUS
  <2>a. k + 1 \in Nat
    OBVIOUS
  <2> SUFFICES ASSUME At(p, Joint(parts, k + 1))
               PROVE  Repeat(step, p, k + 1) = Behind(p, Joint(parts, k + 1))
    BY <2>a
  <2> DEFINE a == Joint(parts, k)
             b == parts[k + 1]
             q == Behind(p, a)
  <2>1. k \in Nat /\ k \in 0..n /\ k + 1 \in 1..n /\ (k + 1) - 1 = k
    OBVIOUS
  <2>2. a \in Strings /\ b \in Strings /\ Joint(parts, k + 1) = a \o b
    BY <2>1, JointStep
  <2>3. At(p, a \o b)
    BY <2>2
  <2>4. At(p, a) /\ At(q, b) /\ q \in 0..End /\ Behind(q, b) = Behind(p, a \o b)
    <3> HIDE DEF a, b
    <3> QED BY <2>2, <2>3, Behinds
  <2>5. Repeat(step, p, k) = q
    BY <2>4
  <2>6. Repeat(step, p, k + 1) = step[k][Repeat(step, p, k)]
    BY <2>1, RepeatStep
  <2>7. step[k][q] = Behind(q, b)
    <3> HIDE DEF q
    <3>1. \A j \in 1..n : At(q, parts[j]) => step[j - 1][q] = Behind(q, parts[j])
      BY <2>4
    <3> QED BY <2>1, <2>4, <3>1
  <2> QED BY <2>2, <2>4, <2>5, <2>6, <2>7
<1> HIDE DEF T
<1>3. n \in T
  BY <1>1, <1>2, UpToInduction
<1> QED BY <1>3 DEF T

\* At the end a loop stays there.
LEMMA LoopStays ==
    ASSUME NEW step, NEW n \in Nat, \A k \in Nat : step[k][End] = End
    PROVE  Repeat(step, End, n) = End
<1> DEFINE S == {End}
<1>1. End \in S /\ \A x \in S, k \in 0..(n - 1) : step[k][x] \in S
  OBVIOUS
<1> HIDE DEF S
<1>2. Repeat(step, End, n) \in S
  BY <1>1, RepeatKeeps
<1> QED BY <1>2 DEF S

LEMMA UeStays ==
    ASSUME BitsOK
    PROVE  AfterUE(End) = End
<1>1. End \in Nat /\ End \in 0..End
  BY BitType
<1>2. Zeros(End) \in Nat
  BY <1>1, ZerosIs
<1>3. 2 * Zeros(End) + 1 \in Nat
  BY <1>2
<1> HIDE DEF Zeros
<1> QED BY <1>1, <1>3, SkipFacts DEF AfterUE

LEMMA UesStay ==
    ASSUME BitsOK, NEW n \in Nat
    PROVE  AfterUEs(End, n) = End
<1> DEFINE step == [k \in Nat |-> [q \in Nat |-> AfterUE(q)]]
<1>1. \A k \in Nat : step[k][End] = End
  BY BitType, UeStays
<1>2. AfterUEs(End, n) = Repeat(step, End, n)
  BY DEF AfterUEs
<1> HIDE DEF step
<1> QED BY <1>1, <1>2, LoopStays

LEMMA UesReads ==
    ASSUME BitsOK, NEW p \in 0..End, NEW n \in Nat, NEW values \in [1..n -> Nat], At(p, Ues(values))
    PROVE  AfterUEs(p, n) = Behind(p, Ues(values))
<1> DEFINE parts == [k \in 1..Len(values) |-> Ue(values[k])]
           step == [k \in Nat |-> [q \in Nat |-> AfterUE(q)]]
<1>1. Len(values) = n
  OBVIOUS
<1>2. Len(parts) = n /\ \A k \in 1..n : parts[k] = Ue(values[k]) /\ values[k] \in Nat
  BY <1>1
<1>3. \A k \in Nat, q \in Nat : step[k][q] = AfterUE(q)
  OBVIOUS
<1>4. Ues(values) = Concat(parts)
  BY DEF Ues
<1>5. AfterUEs(p, n) = Repeat(step, p, n)
  BY DEF AfterUEs
<1> HIDE DEF parts, step
<1>6. \A k \in 1..n : parts[k] \in Strings
  BY <1>2, UeType
<1>7. Concat(parts) = Joint(parts, n)
  BY <1>2, <1>6, ConcatIsJoint
<1>8. \A k \in 1..n, q \in 0..End : At(q, parts[k]) => step[k - 1][q] = Behind(q, parts[k])
  <2> SUFFICES ASSUME NEW k \in 1..n, NEW q \in 0..End, At(q, parts[k])
               PROVE  step[k - 1][q] = Behind(q, parts[k])
    OBVIOUS
  <2>1. k - 1 \in Nat /\ q \in Nat
    BY BitType
  <2>2. step[k - 1][q] = AfterUE(q)
    BY <1>3, <2>1
  <2>3. AfterUE(q) = Behind(q, Ue(values[k]))
    BY <1>2, UeReads
  <2> QED BY <1>2, <2>2, <2>3
<1>9. At(p, Joint(parts, n))
  BY <1>4, <1>7
<1> QED BY <1>4, <1>5, <1>6, <1>7, <1>8, <1>9, LoopReads

LEMMA UesType ==
    ASSUME NEW n \in Nat, NEW values \in [1..n -> Nat]
    PROVE  Ues(values) \in Strings
<1> DEFINE parts == [k \in 1..Len(values) |-> Ue(values[k])]
<1>1. Len(values) = n
  OBVIOUS
<1>2. Len(parts) = n /\ \A k \in 1..n : parts[k] = Ue(values[k]) /\ values[k] \in Nat
  BY <1>1
<1>3. Ues(values) = Concat(parts)
  BY DEF Ues
<1> HIDE DEF parts
<1>4. \A k \in 1..n : parts[k] \in Strings
  BY <1>2, UeType
<1> QED BY <1>2, <1>3, <1>4, ConcatIsJoint

----------------------------------------------------------------------------
(* Flags, and what they announce.                                          *)

LEMMA BitsType ==
    ASSUME NEW n \in Nat, NEW b \in Bits(n)
    PROVE  b \in Strings /\ Len(b) = n
BY DEF Bits, Strings

LEMMA NoBits == <<>> \in Strings /\ Len(<<>>) = 0
BY EmptySeq DEF Strings

LEMMA FlagType ==
    ASSUME NEW b \in BOOLEAN
    PROVE  /\ Flag(b) \in Strings /\ Len(Flag(b)) = 1
           /\ Flag(b)[1] = (IF b THEN 1 ELSE 0)
BY DEF Flag, Strings

LEMMA FirstBit ==
    ASSUME BitsOK, NEW p \in 0..End, NEW e \in Strings, Len(e) > 0, At(p, e), p # End
    PROVE  Bit(p) = e[1]
<1>1. End \in Nat /\ p \in Nat /\ p < End
  BY BitType
<1>2. Len(e) \in Nat
  BY LenProperties DEF Strings
<1>3. 1 \in 1..Len(e) /\ p + 1 <= End
  BY <1>1, <1>2
<1>4. bits[p + 1] = e[1]
  BY <1>3 DEF At
<1> QED BY <1>1, <1>4, BitType

LEMMA OptionalType ==
    ASSUME NEW b \in BOOLEAN, NEW f, b => f \in Strings
    PROVE  /\ Optional(b, f) \in Strings /\ Len(Optional(b, f)) > 0
           /\ Optional(b, f)[1] = (IF b THEN 1 ELSE 0)
<1>1. <<1>> \in Strings /\ <<0>> \in Strings /\ Len(<<1>>) = 1 /\ Len(<<0>>) = 1
  BY DEF Strings
<1>2. CASE b
  <2>1. /\ <<1>> \o f \in Strings /\ Len(<<1>> \o f) = Len(<<1>>) + Len(f) /\ Len(f) \in Nat
        /\ \A k \in 1..Len(<<1>>) : (<<1>> \o f)[k] = <<1>>[k]
    BY <1>1, <1>2, Joined
  <2>2. (<<1>> \o f)[1] = 1
    BY <1>1, <2>1
  <2> QED BY <1>1, <1>2, <2>1, <2>2 DEF Optional
<1>3. CASE ~b
  BY <1>1, <1>3 DEF Optional
<1> QED BY <1>2, <1>3

\* The flag itself, and the elements behind it if it is set.
LEMMA OptionReads ==
    ASSUME BitsOK, NEW p \in 0..End, NEW b \in BOOLEAN, NEW f, b => f \in Strings,
           At(p, Optional(b, f)), NEW q,
           b /\ p < End /\ p + 1 \in 0..End /\ At(p + 1, f) => q = Behind(p + 1, f)
    PROVE  AfterOption(p, q) = Behind(p, Optional(b, f))
<1>1. /\ End \in Nat /\ p \in Nat
      /\ <<1>> \in Strings /\ <<0>> \in Strings /\ Len(<<1>>) = 1 /\ Len(<<0>>) = 1
  BY BitType DEF Strings
<1>2. CASE p = End
  <2>1. Bit(p) = 0
    BY <1>1, <1>2, BitType
  <2>2. AfterOption(p, q) = End
    BY <1>1, <1>2, <2>1, SkipFacts DEF AfterOption
  <2>3. Optional(b, f) \in Strings
    BY OptionalType
  <2>4. Len(Optional(b, f)) \in Nat
    BY <2>3, LenProperties DEF Strings
  <2> QED BY <1>1, <1>2, <2>2, <2>4, SkipFacts DEF Behind
<1>3. CASE p # End
  <2>1. Bit(p) = IF b THEN 1 ELSE 0
    BY <1>3, OptionalType, FirstBit
  <2>2. p < End /\ p + 1 \in 0..End /\ SkipBits(p, 1) = p + 1
    BY <1>1, <1>3 DEF SkipBits
  <2>3. CASE b
    <3>1. Optional(b, f) = <<1>> \o f
      BY <2>3 DEF Optional
    <3>2. Behind(p, <<1>>) = p + 1
      BY <1>1, <2>2 DEF Behind
    <3> DEFINE one == <<1>>
    <3>a. one \in Strings /\ f \in Strings /\ At(p, one \o f)
      BY <1>1, <2>3, <3>1
    <3>3. At(p + 1, f) /\ Behind(p + 1, f) = Behind(p, <<1>> \o f)
      <4> HIDE DEF one
      <4>1. At(Behind(p, one), f) /\ Behind(Behind(p, one), f) = Behind(p, one \o f)
        BY <3>a, Behinds
      <4> QED BY <3>2, <4>1 DEF one
    <3>4. AfterOption(p, q) = q
      BY <2>1, <2>3 DEF AfterOption
    <3> QED BY <2>2, <2>3, <3>1, <3>3, <3>4
  <2>4. CASE ~b
    <3>1. Optional(b, f) = <<0>>
      BY <2>4 DEF Optional
    <3>2. AfterOption(p, q) = SkipBits(p, 1)
      BY <2>1, <2>4 DEF AfterOption
    <3> QED BY <1>1, <3>1, <3>2 DEF Behind
  <2> QED BY <2>3, <2>4
<1> QED BY <1>2, <1>3

----------------------------------------------------------------------------
(* The description in the video usability information.                     *)

LEMMA AspectReads ==
    ASSUME BitsOK, NEW p \in 0..End, NEW b \in BOOLEAN, NEW ratio \in Word(8), NEW sar \in Bits(32),
           At(p, Optional(b, U(8, ratio) \o (IF ratio = 255 THEN sar ELSE <<>>)))
    PROVE  /\ Optional(b, U(8, ratio) \o (IF ratio = 255 THEN sar ELSE <<>>)) \in Strings
           /\ AfterOption(p, SkipBits(p + 1, IF ReadBits(p + 1, 8) = 255 THEN 40 ELSE 8))
                  = Behind(p, Optional(b, U(8, ratio) \o (IF ratio = 255 THEN sar ELSE <<>>)))
<1> DEFINE u == U(8, ratio)
           s == IF ratio = 255 THEN sar ELSE <<>>
           f == u \o s
           q == SkipBits(p + 1, IF ReadBits(p + 1, 8) = 255 THEN 40 ELSE 8)
<1>1. ratio \in Nat /\ p \in Nat /\ End \in Nat
  BY BitType DEF Word
<1>2. u \in Strings /\ Len(u) = 8
  BY <1>1, UType
<1>3. s \in Strings /\ Len(s) = (IF ratio = 255 THEN 32 ELSE 0)
  BY BitsType, NoBits
<1>4. ASSUME p + 1 \in 0..End, At(p + 1, f) PROVE q = Behind(p + 1, f)
  <2> HIDE DEF s
  <2>1. At(p + 1, u)
    BY <1>2, <1>3, <1>4, Behinds
  <2>2. Len(f) = 8 + Len(s)
    <3> HIDE DEF u
    <3>1. Len(u \o s) = Len(u) + Len(s)
      BY <1>2, <1>3, JoinedLength
    <3> QED BY <1>2, <3>1
  <2>3. (p + 1) + 8 <= End => ReadBits(p + 1, 8) = ratio
    <3>1. p + 1 \in Nat
      BY <1>1
    <3> QED BY <2>1, <3>1, UReads
  <2> HIDE DEF u, f
  <2> QED BY <1>1, <1>3, <2>2, <2>3 DEF Behind, SkipBits
<1>5. f \in Strings
  <2> HIDE DEF u, s
  <2> QED BY <1>2, <1>3, Joined
<1> HIDE DEF f, q
<1>6. Optional(b, f) \in Strings
  BY <1>5, OptionalType
<1>7. At(p, Optional(b, f))
  BY DEF f
<1>8. AfterOption(p, q) = Behind(p, Optional(b, f))
  BY <1>4, <1>5, <1>7, OptionReads
<1> QED BY <1>6, <1>8 DEF f, q

LEMMA OverscanReads ==
    ASSUME BitsOK, NEW p \in 0..End, NEW s \in Option(Bits(1)), At(p, Optional(s # <<>>, s))
    PROVE  /\ Optional(s # <<>>, s) \in Strings
           /\ AfterOption(p, SkipBits(p + 1, 1)) = Behind(p, Optional(s # <<>>, s))
<1> DEFINE b == s # <<>>
<1>1. b \in BOOLEAN /\ (b => s \in Strings /\ Len(s) = 1)
  BY BitsType DEF Option
<1>2. b => SkipBits(p + 1, 1) = Behind(p + 1, s)
  BY <1>1 DEF Behind
<1>3. At(p, Optional(b, s))
  OBVIOUS
<1> HIDE DEF b
<1>4. Optional(b, s) \in Strings
  BY <1>1, OptionalType
<1>5. AfterOption(p, SkipBits(p + 1, 1)) = Behind(p, Optional(b, s))
  BY <1>1, <1>2, <1>3, OptionReads
<1> QED BY <1>4, <1>5 DEF b

\* The colours are behind four bits, which may end the file.
LEMMA SignalReads ==
    ASSUME BitsOK, NEW p \in 0..End, NEW s \in Option(Bits(4)), NEW c \in Option(Bits(24)),
           At(p, Optional(s # <<>>, s \o Optional(c # <<>>, c)))
    PROVE  /\ Optional(s # <<>>, s \o Optional(c # <<>>, c)) \in Strings
           /\ AfterOption(p, AfterOption(p + 5, SkipBits(p + 6, 24)))
                  = Behind(p, Optional(s # <<>>, s \o Optional(c # <<>>, c)))
<1> DEFINE b == s # <<>>
           d == c # <<>>
           o == Optional(d, c)
           f == s \o o
           q == AfterOption(p + 5, SkipBits(p + 6, 24))
<1>1. b \in BOOLEAN /\ (b => s \in Strings /\ Len(s) = 4)
  BY BitsType DEF Option
<1>2. d \in BOOLEAN /\ (d => c \in Strings /\ Len(c) = 24)
  BY BitsType DEF Option
<1>3. End \in Nat /\ p \in Nat
  BY BitType
<1>4. At(p, Optional(b, f))
  OBVIOUS
<1> HIDE DEF d
<1>5. o \in Strings /\ Len(o) > 0
  BY <1>2, OptionalType
<1> HIDE DEF b, o
<1>6. b => f \in Strings /\ Len(f) = 4 + Len(o) /\ Len(o) \in Nat
  BY <1>1, <1>5, JoinedType, JoinedLength, Length
<1>7. ASSUME b, p + 1 \in 0..End, At(p + 1, f) PROVE q = Behind(p + 1, f)
  <2>1. /\ At(Behind(p + 1, s), o) /\ Behind(p + 1, s) \in 0..End
        /\ Behind(Behind(p + 1, s), o) = Behind(p + 1, f)
    BY <1>1, <1>5, <1>7, Behinds
  <2>2. Behind(p + 1, s) = SkipBits(p + 1, 4)
    BY <1>1, <1>7 DEF Behind
  <2>3. CASE p + 5 <= End
    <3>1. SkipBits(p + 1, 4) = p + 5 /\ p + 5 \in 0..End
      BY <1>3, <2>3 DEF SkipBits
    <3>2. At(p + 5, Optional(d, c))
      BY <2>1, <2>2, <3>1 DEF o
    <3>3. d => SkipBits(p + 6, 24) = Behind((p + 5) + 1, c)
      <4>1. (p + 5) + 1 = p + 6
        BY <1>3
      <4> QED BY <1>2, <4>1 DEF Behind
    <3>4. q = Behind(p + 5, o)
      <4> DEFINE r == SkipBits(p + 6, 24)
                 x == p + 5
      <4>1. x \in 0..End /\ At(x, Optional(d, c)) /\ (d => r = Behind(x + 1, c))
        BY <3>1, <3>2, <3>3
      <4> HIDE DEF r, x
      <4>2. AfterOption(x, r) = Behind(x, Optional(d, c))
        BY <1>2, <4>1, OptionReads
      <4> QED BY <4>2 DEF r, x, o
    <3> QED BY <2>1, <2>2, <3>1, <3>4
  <2>4. CASE ~(p + 5 <= End)
    <3>1. SkipBits(p + 1, 4) = End
      BY <1>3, <2>4 DEF SkipBits
    <3>2. Behind(End, o) = End
      BY <1>3, <1>6, <1>7, SkipFacts DEF Behind
    <3>3. p + 5 \in Nat /\ p + 5 >= End
      BY <1>3, <2>4
    <3>4. Bit(p + 5) = 0
      BY <3>3, BitType
    <3>5. q = SkipBits(p + 5, 1)
      BY <3>4 DEF AfterOption
    <3>6. SkipBits(p + 5, 1) = End
      BY <1>3, <3>3 DEF SkipBits
    <3> QED BY <2>1, <2>2, <3>1, <3>2, <3>5, <3>6
  <2> QED BY <2>3, <2>4
<1> HIDE DEF f, q
<1>8. Optional(b, f) \in Strings
  BY <1>1, <1>6, OptionalType
<1>9. AfterOption(p, q) = Behind(p, Optional(b, f))
  BY <1>1, <1>4, <1>6, <1>7, OptionReads
<1> QED BY <1>8, <1>9 DEF b, d, f, o, q

\* Windows and chroma locations: numbers behind a flag.
LEMMA NumbersRead ==
    ASSUME BitsOK, NEW p \in 0..End, NEW n \in Nat, NEW values \in Option([1..n -> Nat]),
           At(p, Optional(values # <<>>, Ues(values)))
    PROVE  /\ Optional(values # <<>>, Ues(values)) \in Strings
           /\ AfterOption(p, AfterUEs(p + 1, n)) = Behind(p, Optional(values # <<>>, Ues(values)))
<1> DEFINE b == values # <<>>
           f == Ues(values)
<1>1. b => values \in [1..n -> Nat]
  BY DEF Option
<1>2. At(p, Optional(b, f)) /\ b \in BOOLEAN
  OBVIOUS
<1> HIDE DEF b
<1>3. b => f \in Strings
  BY <1>1, UesType
<1>4. b /\ p + 1 \in 0..End /\ At(p + 1, f) => AfterUEs(p + 1, n) = Behind(p + 1, f)
  BY <1>1, UesReads
<1> HIDE DEF f
<1>5. Optional(b, f) \in Strings
  BY <1>2, <1>3, OptionalType
<1>6. AfterOption(p, AfterUEs(p + 1, n)) = Behind(p, Optional(b, f))
  BY <1>2, <1>3, <1>4, OptionReads
<1> QED BY <1>5, <1>6 DEF b, f

Aspect(v) == Optional(v.aspect, U(8, v.ratio) \o (IF v.ratio = 255 THEN v.sar ELSE <<>>))
Overscan(v) == Optional(v.overscan # <<>>, v.overscan)
Signal(v) == Optional(v.signal # <<>>, v.signal \o Optional(v.colour # <<>>, v.colour))
Location(v) == Optional(v.location # <<>>, Ues(v.location))

LEMMA DescriptionParts ==
    ASSUME NEW v \in Vui
    PROVE  /\ Aspect(v) \in Strings /\ Overscan(v) \in Strings
           /\ Signal(v) \in Strings /\ Location(v) \in Strings
           /\ Description(v) = ((Aspect(v) \o Overscan(v)) \o Signal(v)) \o Location(v)
           /\ v.aspect \in BOOLEAN /\ v.ratio \in Word(8) /\ v.sar \in Bits(32)
           /\ v.overscan \in Option(Bits(1)) /\ v.signal \in Option(Bits(4))
           /\ v.colour \in Option(Bits(24)) /\ v.location \in Option([1..2 -> Nat])
<1>1. /\ v.aspect \in BOOLEAN /\ v.ratio \in Word(8) /\ v.sar \in Bits(32)
      /\ v.overscan \in Option(Bits(1)) /\ v.signal \in Option(Bits(4))
      /\ v.colour \in Option(Bits(24)) /\ v.location \in Option([1..2 -> UeValues])
  BY DEF Vui
<1>2. v.location \in Option([1..2 -> Nat])
  BY <1>1 DEF Option, UeValues
<1>3. Aspect(v) \in Strings
  <2> DEFINE u == U(8, v.ratio)
             s == IF v.ratio = 255 THEN v.sar ELSE <<>>
  <2>1. u \in Strings
    <3>1. v.ratio \in Nat
      BY <1>1 DEF Word
    <3> QED BY <3>1, UType
  <2>2. s \in Strings
    <3>1. v.sar \in Strings
      BY <1>1, BitsType
    <3> QED BY <3>1, NoBits
  <2>3. Aspect(v) = Optional(v.aspect, u \o s)
    BY DEF Aspect
  <2> HIDE DEF u, s
  <2>4. u \o s \in Strings
    BY <2>1, <2>2, JoinedType
  <2> QED BY <1>1, <2>3, <2>4, OptionalType
<1>4. Overscan(v) \in Strings
  <2>1. v.overscan # <<>> => v.overscan \in Strings
    BY <1>1, BitsType DEF Option
  <2> QED BY <2>1, OptionalType DEF Overscan
<1>5. Signal(v) \in Strings
  <2> DEFINE o == Optional(v.colour # <<>>, v.colour)
  <2>1. v.colour # <<>> => v.colour \in Strings
    BY <1>1, BitsType DEF Option
  <2>2. o \in Strings
    BY <2>1, OptionalType
  <2>3. v.signal # <<>> => v.signal \in Strings
    BY <1>1, BitsType DEF Option
  <2>4. Signal(v) = Optional(v.signal # <<>>, v.signal \o o)
    BY DEF Signal
  <2> HIDE DEF o
  <2>5. v.signal # <<>> => v.signal \o o \in Strings
    BY <2>2, <2>3, JoinedType
  <2> QED BY <2>4, <2>5, OptionalType
<1>6. Location(v) \in Strings
  <2>1. v.location # <<>> => v.location \in [1..2 -> Nat]
    BY <1>2 DEF Option
  <2>2. v.location # <<>> => Ues(v.location) \in Strings
    BY <2>1, UesType
  <2> QED BY <2>2, OptionalType DEF Location
<1>7. Description(v) = ((Aspect(v) \o Overscan(v)) \o Signal(v)) \o Location(v)
  BY DEF Description, Aspect, Overscan, Signal, Location
<1> QED BY <1>1, <1>2, <1>3, <1>4, <1>5, <1>6, <1>7

LEMMA DescriptionString ==
    ASSUME NEW v \in Vui
    PROVE  Description(v) \in Strings
<1> DEFINE a == Aspect(v)
           b == Overscan(v)
           c == Signal(v)
           d == Location(v)
<1>1. a \in Strings /\ b \in Strings /\ c \in Strings /\ d \in Strings
  BY DescriptionParts
<1>2. Description(v) = ((a \o b) \o c) \o d
  BY DescriptionParts
<1> HIDE DEF a, b, c, d
<1>3. a \o b \in Strings
  BY <1>1, JoinedType
<1>4. (a \o b) \o c \in Strings
  BY <1>1, <1>3, JoinedType
<1> QED BY <1>1, <1>2, <1>4, JoinedType

LEMMA DescriptionReads ==
    ASSUME BitsOK, NEW p \in 0..End, NEW v \in Vui, At(p, Description(v))
    PROVE  AfterDescription(p) = Behind(p, Description(v))
<1> DEFINE a == Aspect(v)
           b == Overscan(v)
           c == Signal(v)
           d == Location(v)
           ab == a \o b
           abc == ab \o c
           x == Behind(p, a)
           y == Behind(p, ab)
           z == Behind(p, abc)
<1>1. a \in Strings /\ b \in Strings /\ c \in Strings /\ d \in Strings /\ Description(v) = abc \o d
  BY DescriptionParts
<1>2. ab \in Strings /\ abc \in Strings
  <2> HIDE DEF a, b, c, d
  <2>1. ab \in Strings
    BY <1>1, JoinedType
  <2> HIDE DEF ab
  <2> QED BY <1>1, <2>1, JoinedType
<1> HIDE DEF abc
<1>3. At(p, abc) /\ At(z, d) /\ z \in 0..End /\ Behind(z, d) = Behind(p, abc \o d)
  <2> HIDE DEF d
  <2> QED BY <1>1, <1>2, Behinds
<1> HIDE DEF ab
<1>4. At(p, ab) /\ At(y, c) /\ y \in 0..End /\ Behind(y, c) = z
  <2>1. At(p, ab \o c)
    BY <1>3 DEF abc
  <2> HIDE DEF c
  <2> QED BY <1>1, <1>2, <2>1, Behinds DEF abc
<1>5. At(p, a) /\ At(x, b) /\ x \in 0..End /\ Behind(x, b) = y
  <2>1. At(p, a \o b)
    BY <1>4 DEF ab
  <2> HIDE DEF a, b
  <2> QED BY <1>1, <1>2, <2>1, Behinds DEF ab
<1> HIDE DEF x, y, z
<1>6. AfterOption(p, SkipBits(p + 1, IF ReadBits(p + 1, 8) = 255 THEN 40 ELSE 8)) = x
  <2>1. v.aspect \in BOOLEAN /\ v.ratio \in Word(8) /\ v.sar \in Bits(32)
    BY DescriptionParts
  <2>2. At(p, Optional(v.aspect, U(8, v.ratio) \o (IF v.ratio = 255 THEN v.sar ELSE <<>>)))
    BY <1>5 DEF a, Aspect
  <2> QED BY <2>1, <2>2, AspectReads DEF a, Aspect, x
<1>7. AfterOption(x, SkipBits(x + 1, 1)) = y
  <2>1. v.overscan \in Option(Bits(1)) /\ At(x, Optional(v.overscan # <<>>, v.overscan))
    BY <1>5, DescriptionParts DEF b, Overscan
  <2>2. AfterOption(x, SkipBits(x + 1, 1)) = Behind(x, Optional(v.overscan # <<>>, v.overscan))
    BY <1>5, <2>1, OverscanReads
  <2> QED BY <1>5, <2>2 DEF b, Overscan
<1>8. AfterOption(y, AfterOption(y + 5, SkipBits(y + 6, 24))) = z
  <2>1. /\ v.signal \in Option(Bits(4)) /\ v.colour \in Option(Bits(24))
        /\ At(y, Optional(v.signal # <<>>, v.signal \o Optional(v.colour # <<>>, v.colour)))
    BY <1>4, DescriptionParts DEF c, Signal
  <2>2. AfterOption(y, AfterOption(y + 5, SkipBits(y + 6, 24)))
            = Behind(y, Optional(v.signal # <<>>, v.signal \o Optional(v.colour # <<>>, v.colour)))
    BY <1>4, <2>1, SignalReads
  <2> QED BY <1>4, <2>2 DEF c, Signal
<1>9. AfterOption(z, AfterUEs(z + 1, 2)) = Behind(z, d)
  <2>1. v.location \in Option([1..2 -> Nat]) /\ At(z, Optional(v.location # <<>>, Ues(v.location)))
    BY <1>3, DescriptionParts DEF d, Location
  <2>2. AfterOption(z, AfterUEs(z + 1, 2)) = Behind(z, Optional(v.location # <<>>, Ues(v.location)))
    BY <1>3, <2>1, NumbersRead
  <2> QED BY <2>2 DEF d, Location
<1>10. AfterDescription(p) = Behind(z, d)
  BY <1>6, <1>7, <1>8, <1>9, Zenon DEF AfterDescription
<1> QED BY <1>1, <1>3, <1>10

----------------------------------------------------------------------------
(* The timing information.                                                 *)

\* What a timing stands for, when a frame lasts so many ticks.
TimingRate(timing, ticks) ==
    IF timing = <<>> \/ timing[1] = 0 \/ timing[2] = 0 THEN DEFAULT_FPS
    ELSE Fps(timing[2], ticks * timing[1])

\* The default, or not above what is written.
NotFaster(rate, wanted) ==
    \/ rate = DEFAULT_FPS
    \/ rate.num > 0 /\ rate.num * wanted.den <= wanted.num * rate.den

LEMMA TimingString ==
    ASSUME NEW timing \in Timings
    PROVE  /\ TimingInfo(timing) \in Strings /\ Len(TimingInfo(timing)) > 0
           /\ timing # <<>> => Len(TimingInfo(timing)) = 65
<1> DEFINE u == U(32, timing[1])
           w == U(32, timing[2])
           b == timing # <<>>
<1>1. b => u \in Strings /\ w \in Strings /\ Len(u) = 32 /\ Len(w) = 32
  <2>1. b => timing[1] \in Nat /\ timing[2] \in Nat
    BY DEF Timings, Option, Word
  <2> QED BY <2>1, UType
<1>2. TimingInfo(timing) = Optional(b, u \o w)
  BY DEF TimingInfo
<1>3. b => TimingInfo(timing) = <<1>> \o (u \o w)
  BY <1>2 DEF Optional
<1>4. b \in BOOLEAN /\ (b <=> timing # <<>>)
  OBVIOUS
<1> HIDE DEF b, u, w
<1>5. b => u \o w \in Strings /\ Len(u \o w) = Len(u) + Len(w)
  BY <1>1, JoinedType, JoinedLength
<1>6. TimingInfo(timing) \in Strings /\ Len(TimingInfo(timing)) > 0
  BY <1>2, <1>4, <1>5, OptionalType
<1>7. ASSUME b PROVE Len(TimingInfo(timing)) = 65
  <2> DEFINE one == <<1>>
             x == u \o w
  <2>1. one \in Strings /\ Len(one) = 1
    BY DEF Strings
  <2>2. x \in Strings
    BY <1>5, <1>7
  <2>3. Len(x) = 64
    <3>1. Len(x) = Len(u) + Len(w)
      BY <1>5, <1>7
    <3>2. Len(u) = 32 /\ Len(w) = 32
      BY <1>1, <1>7
    <3> HIDE DEF x
    <3> QED BY <3>1, <3>2
  <2>4. TimingInfo(timing) = one \o x
    BY <1>3, <1>7
  <2> HIDE DEF one, x
  <2>5. Len(one \o x) = Len(one) + Len(x)
    BY <2>1, <2>2, JoinedLength
  <2> QED BY <2>1, <2>3, <2>4, <2>5
<1> QED BY <1>4, <1>6, <1>7

\* The number of ticks is read first: a file that ends in it has no scale.
LEMMA TimingReads ==
    ASSUME BitsOK, NEW p \in 0..End, NEW timing \in Timings, NEW ticks \in Nat \ {0},
           At(p, TimingInfo(timing))
    PROVE  /\ NotFaster(Timing(p, ticks), TimingRate(timing, ticks))
           /\ p + Len(TimingInfo(timing)) <= End => Timing(p, ticks) = TimingRate(timing, ticks)
<1> DEFINE u == U(32, timing[1])
           w == U(32, timing[2])
           units == ReadBits(p + 1, 32)
           scale == ReadBits(p + 33, 32)
<1>1. End \in Nat /\ p \in Nat /\ p + 1 \in Nat /\ p + 33 \in Nat
  BY BitType
<1>2. Timing(p, ticks) = IF Bit(p) = 0 \/ units = 0 \/ scale = 0 THEN DEFAULT_FPS
                         ELSE Fps(scale, ticks * units)
  BY DEF Timing
<1>3. TimingInfo(timing) \in Strings /\ Len(TimingInfo(timing)) > 0 /\ Len(TimingInfo(timing)) \in Nat
  BY TimingString, Length
<1>4. CASE p = End
  <2>1. Bit(p) = 0
    BY <1>1, <1>4, BitType
  <2> QED BY <1>1, <1>2, <1>3, <1>4, <2>1 DEF NotFaster
<1>5. CASE p # End /\ timing = <<>>
  <2>1. TimingInfo(timing) = <<0>>
    BY <1>5 DEF TimingInfo, Optional
  <2>2. Bit(p) = 0
    BY <1>3, <1>5, <2>1, FirstBit
  <2> QED BY <1>2, <1>5, <2>2 DEF NotFaster, TimingRate
<1>6. CASE p # End /\ timing # <<>>
  <2>1. timing[1] \in Word(32) /\ timing[2] \in Word(32)
    BY <1>6 DEF Timings, Option
  <2>2. timing[1] \in Nat /\ timing[2] \in Nat
    BY <2>1 DEF Word
  <2>3. u \in Strings /\ w \in Strings /\ Len(u) = 32 /\ Len(w) = 32
    BY <2>2, UType
  <2> DEFINE one == <<1>>
             x == u \o w
  <2>4. TimingInfo(timing) = one \o x
    BY <1>6 DEF TimingInfo, Optional
  <2>5. one \in Strings /\ Len(one) = 1
    BY DEF Strings
  <2>6. Bit(p) = 1
    <3>1. TimingInfo(timing)[1] = 1
      BY <1>6, <2>2, <2>3, <2>4, <2>5, Joined
    <3> QED BY <1>3, <1>6, <3>1, FirstBit
  <2>7. x \in Strings
    <3> HIDE DEF u, w
    <3> QED BY <2>3, JoinedType
  <2>8. Behind(p, one) = p + 1
    BY <1>1, <1>6, <2>5 DEF Behind, SkipBits
  <2>9. At(p + 1, x) /\ p + 1 \in 0..End
    <3> HIDE DEF x, one
    <3> QED BY <1>6, <2>4, <2>5, <2>7, <2>8, Behinds
  <2>10. At(p + 1, u) /\ At(Behind(p + 1, u), w)
    <3> HIDE DEF u, w
    <3> QED BY <2>3, <2>9, Behinds
  <2>11. units <= timing[1] /\ units \in Nat /\ (p + 33 <= End => units = timing[1])
    <3>1. (p + 1) + 32 = p + 33
      BY <1>1
    <3> QED BY <1>1, <2>1, <2>10, <3>1, UReads
  <2>14. Len(TimingInfo(timing)) = 65
    BY <1>6, TimingString
  <2>12. CASE p + 33 <= End
    <3>1. Behind(p + 1, u) = p + 33
      <4>1. Behind(p + 1, u) = SkipBits(p + 1, 32)
        BY <2>3 DEF Behind
      <4>2. SkipBits(p + 1, 32) = p + 33
        BY <1>1, <2>12 DEF SkipBits
      <4> QED BY <4>1, <4>2
    <3>2. At(p + 33, w)
      BY <2>10, <3>1
    <3>3. scale <= timing[2] /\ scale \in Nat /\ (p + 33 + 32 <= End => scale = timing[2])
      BY <1>1, <2>1, <3>2, UReads
    <3>4. p + Len(TimingInfo(timing)) <= End => p + 33 + 32 <= End
      BY <1>1, <2>14
    <3> DEFINE t == timing[1]
               r == timing[2]
    <3>5. /\ units = t /\ scale \in Nat /\ t \in Nat /\ r \in Nat /\ scale <= r
          /\ p + Len(TimingInfo(timing)) <= End => scale = r
      BY <2>2, <2>11, <2>12, <3>3, <3>4
    <3>6. TimingRate(timing, ticks) = IF t = 0 \/ r = 0 THEN DEFAULT_FPS ELSE Fps(r, ticks * t)
      BY <1>6 DEF TimingRate
    <3>7. Timing(p, ticks) = IF t = 0 \/ scale = 0 THEN DEFAULT_FPS ELSE Fps(scale, ticks * t)
      BY <1>2, <2>6, <3>5
    <3> HIDE DEF units, scale, t, r
    <3>8. NotFaster(Timing(p, ticks), TimingRate(timing, ticks))
      <4>1. CASE t = 0 \/ scale = 0
        BY <3>7, <4>1 DEF NotFaster
      <4>2. CASE t # 0 /\ scale # 0
        <5>1. Timing(p, ticks) = Fps(scale, ticks * t) /\ TimingRate(timing, ticks) = Fps(r, ticks * t)
          BY <3>5, <3>6, <3>7, <4>2
        <5> DEFINE d == ticks * t
        <5>2. d \in Nat
          BY <3>5
        <5> HIDE DEF d
        <5>3. scale * d <= r * d
          BY <3>5, <5>2
        <5>4. scale > 0
          BY <3>5, <4>2
        <5> QED BY <5>1, <5>3, <5>4 DEF NotFaster, Fps, d
      <4> QED BY <4>1, <4>2
    <3> QED BY <3>5, <3>6, <3>7, <3>8
  <2>13. CASE ~(p + 33 <= End)
    <3>1. scale = 0
      BY <1>1, <2>13, ReadsNothing
    <3>2. Timing(p, ticks) = DEFAULT_FPS
      BY <1>2, <3>1
    <3>3. ~(p + Len(TimingInfo(timing)) <= End)
      BY <1>1, <2>13, <2>14
    <3> QED BY <3>2, <3>3 DEF NotFaster
  <2> QED BY <2>12, <2>13
<1> QED BY <1>4, <1>5, <1>6

----------------------------------------------------------------------------
(* Elements in a row that are not read by a loop.                          *)

\* The place behind the first k elements, and the place of the next.
Place(p, parts, k) == Behind(p, Joint(parts, k))

LEMMA JointAt ==
    ASSUME BitsOK, NEW n \in Nat, NEW parts, \A k \in 1..n : parts[k] \in Strings,
           NEW p \in 0..End, At(p, Joint(parts, n))
    PROVE  \A k \in 0..n : At(p, Joint(parts, k))
<1> DEFINE T == {k \in Nat : At(p, Joint(parts, n - k))}
<1>1. 0 \in T
  OBVIOUS
<1>2. \A k \in 0..(n - 1) : k \in T => k + 1 \in T
  <2> SUFFICES ASSUME NEW k \in 0..(n - 1), k \in T PROVE k + 1 \in T
    OBVIOUS
  <2> DEFINE j == n - (k + 1)
  <2>1. j \in 0..(n - 1) /\ j \in 0..n /\ j + 1 \in 1..n /\ n - k = j + 1 /\ k + 1 \in Nat
    OBVIOUS
  <2> HIDE DEF j
  <2>2. Joint(parts, j) \in Strings /\ Joint(parts, j + 1) = Joint(parts, j) \o parts[j + 1]
    BY <2>1, JointStep
  <2>3. At(p, Joint(parts, j) \o parts[j + 1])
    BY <2>1, <2>2
  <2>4. At(p, Joint(parts, j))
    BY <2>1, <2>2, <2>3, Behinds
  <2> QED BY <2>1, <2>4 DEF j
<1> HIDE DEF T
<1>3. \A k \in 0..n : k \in T
  BY <1>1, <1>2, UpToInduction
<1> SUFFICES ASSUME NEW k \in 0..n PROVE At(p, Joint(parts, k))
  OBVIOUS
<1> DEFINE j == n - k
<1>4. j \in 0..n /\ n - j = k
  OBVIOUS
<1> HIDE DEF j
<1>5. At(p, Joint(parts, n - j))
  BY <1>3, <1>4 DEF T
<1> QED BY <1>4, <1>5

LEMMA RowReads ==
    ASSUME BitsOK, NEW n \in Nat, NEW parts, \A k \in 1..n : parts[k] \in Strings,
           NEW p \in 0..End, At(p, Joint(parts, n))
    PROVE  /\ Place(p, parts, 0) = p
           /\ \A k \in 0..n : Place(p, parts, k) \in 0..End
           /\ \A k \in 0..(n - 1) :
                  /\ At(Place(p, parts, k), parts[k + 1])
                  /\ Place(p, parts, k + 1) = Behind(Place(p, parts, k), parts[k + 1])
<1>1. Place(p, parts, 0) = p
  <2>1. Joint(parts, 0) = <<>>
    BY JointStep
  <2> QED BY <2>1, SkipFacts DEF Place, Behind
<1>2. \A k \in 0..n : Place(p, parts, k) \in 0..End
  <2> SUFFICES ASSUME NEW k \in 0..n PROVE Place(p, parts, k) \in 0..End
    OBVIOUS
  <2>1. Joint(parts, k) \in Strings
    BY JointStep
  <2>2. Len(Joint(parts, k)) \in Nat
    BY <2>1, Length
  <2> QED BY <2>2, SkipFacts DEF Place, Behind
<1>3. ASSUME NEW k \in 0..(n - 1)
      PROVE  /\ At(Place(p, parts, k), parts[k + 1])
             /\ Place(p, parts, k + 1) = Behind(Place(p, parts, k), parts[k + 1])
  <2> DEFINE a == Joint(parts, k)
             b == parts[k + 1]
  <2>1. k \in 0..n /\ k + 1 \in 1..n /\ k + 1 \in 0..n
    OBVIOUS
  <2>2. a \in Strings /\ b \in Strings /\ Joint(parts, k + 1) = a \o b
    BY <2>1, JointStep
  <2>3. At(p, a \o b)
    BY <2>1, <2>2, JointAt
  <2>4. At(Behind(p, a), b) /\ Behind(Behind(p, a), b) = Behind(p, a \o b)
    <3> HIDE DEF a, b
    <3> QED BY <2>2, <2>3, Behinds
  <2> QED BY <2>2, <2>4 DEF Place
<1> QED BY <1>1, <1>2, <1>3

LEMMA JointLength ==
    ASSUME NEW n \in Nat, NEW parts, \A k \in 1..n : parts[k] \in Strings
    PROVE  \A k \in 0..(n - 1) :
               /\ Len(Joint(parts, k)) \in Nat /\ Len(parts[k + 1]) \in Nat
               /\ Len(Joint(parts, k)) + Len(parts[k + 1]) <= Len(Joint(parts, n))
<1> DEFINE len(k) == Len(Joint(parts, k))
           T == {k \in Nat : len(n - k) <= len(n)}
<1>1. \A k \in 0..n : len(k) \in Nat
  BY JointStep, Length
<1>2. ASSUME NEW k \in 0..(n - 1) PROVE len(k + 1) = len(k) + Len(parts[k + 1]) /\ Len(parts[k + 1]) \in Nat
  <2> DEFINE a == Joint(parts, k)
             b == parts[k + 1]
  <2>1. k \in 0..n /\ k + 1 \in 1..n
    OBVIOUS
  <2>2. a \in Strings /\ b \in Strings /\ Joint(parts, k + 1) = a \o b
    BY <2>1, JointStep
  <2>3. Len(a \o b) = Len(a) + Len(b) /\ Len(b) \in Nat
    <3> HIDE DEF a, b
    <3> QED BY <2>2, JoinedLength, Length
  <2> QED BY <2>2, <2>3
<1> HIDE DEF len
<1>3. 0 \in T
  BY <1>1
<1>4. \A k \in 0..(n - 1) : k \in T => k + 1 \in T
  <2> SUFFICES ASSUME NEW k \in 0..(n - 1), k \in T PROVE k + 1 \in T
    OBVIOUS
  <2> DEFINE j == n - (k + 1)
  <2>1. j \in 0..(n - 1) /\ j \in 0..n /\ j + 1 = n - k /\ k + 1 \in Nat
    OBVIOUS
  <2> HIDE DEF j
  <2>2. len(j + 1) = len(j) + Len(parts[j + 1]) /\ Len(parts[j + 1]) \in Nat /\ len(j) \in Nat
    BY <1>1, <1>2, <2>1
  <2>3. len(j + 1) <= len(n)
    BY <2>1
  <2>4. len(j) <= len(n)
    BY <1>1, <2>2, <2>3
  <2> QED BY <2>1, <2>4 DEF j
<1> HIDE DEF T
<1>5. \A k \in 0..n : k \in T
  BY <1>3, <1>4, UpToInduction
<1>6. \A k \in 0..n : len(k) <= len(n)
  <2> SUFFICES ASSUME NEW k \in 0..n PROVE len(k) <= len(n)
    OBVIOUS
  <2> DEFINE j == n - k
  <2>1. j \in 0..n /\ n - j = k
    OBVIOUS
  <2> HIDE DEF j
  <2>2. len(n - j) <= len(n)
    BY <1>5, <2>1 DEF T
  <2> QED BY <2>1, <2>2
<1>7. ASSUME NEW k \in 0..(n - 1)
      PROVE  /\ len(k) \in Nat /\ Len(parts[k + 1]) \in Nat
             /\ len(k) + Len(parts[k + 1]) <= len(n)
  <2>1. k \in 0..n /\ k + 1 \in 0..n
    OBVIOUS
  <2>2. len(k + 1) <= len(n)
    BY <1>6, <2>1
  <2>3. len(k + 1) = len(k) + Len(parts[k + 1]) /\ Len(parts[k + 1]) \in Nat
    BY <1>2
  <2> QED BY <1>1, <2>1, <2>2, <2>3
<1> QED BY <1>7 DEF len

\* If all of the row is there, each of its elements is.
LEMMA RowWhole ==
    ASSUME BitsOK, NEW n \in Nat, NEW parts, \A k \in 1..n : parts[k] \in Strings,
           NEW p \in 0..End, p + Len(Joint(parts, n)) <= End, NEW k \in 0..(n - 1)
    PROVE  Place(p, parts, k) + Len(parts[k + 1]) <= End
<1> DEFINE a == Len(Joint(parts, k))
           b == Len(parts[k + 1])
           c == Len(Joint(parts, n))
<1>1. a \in Nat /\ b \in Nat /\ a + b <= c
  BY JointLength
<1>2. c \in Nat /\ End \in Nat /\ p \in Nat
  <2>1. n \in 0..n
    OBVIOUS
  <2>2. Joint(parts, n) \in Strings
    BY <2>1, JointStep
  <2> QED BY <2>2, Length, BitType
<1>3. Place(p, parts, k) = SkipBits(p, a)
  BY DEF Place, Behind
<1>4. p + c <= End
  OBVIOUS
<1> HIDE DEF a, b, c
<1>5. SkipBits(p, a) + b <= End
  BY <1>1, <1>2, <1>4 DEF SkipBits
<1> QED BY <1>3, <1>5 DEF b

----------------------------------------------------------------------------
(* H.264: scaling lists.                                                   *)

LEMMA DeltaGives ==
    ASSUME NEW from \in 0..255, NEW to \in 0..255
    PROVE  Delta(from, to) \in Int /\ (from + Delta(from, to) + 256) % 256 = to
<1> DEFINE d == (to - from + 128) % 256
<1>1. d \in 0..255 /\ Delta(from, to) = d - 128
  BY DEF Delta
<1>2. (from + (d - 128) + 256) % 256 = to
  OBVIOUS
<1> HIDE DEF d
<1> QED BY <1>1, <1>2

\* The scale before the next, and the deltas of a list.
ScaleAt(scales, k) == IF k = 0 THEN 8 ELSE scales[k]
Deltas(scales) ==
    [k \in 1..Len(scales) |-> Se(Delta(IF k = 1 THEN 8 ELSE scales[k - 1], scales[k]))]

LEMMA DeltasAre ==
    ASSUME NEW m \in Nat, NEW scales \in [1..m -> 0..255]
    PROVE  /\ Len(Deltas(scales)) = m
           /\ \A k \in 0..m : ScaleAt(scales, k) \in 0..255
           /\ \A k \in 0..(m - 1) :
                 /\ Deltas(scales)[k + 1] = Se(Delta(ScaleAt(scales, k), ScaleAt(scales, k + 1)))
                 /\ Deltas(scales)[k + 1] \in Strings
<1>1. Len(scales) = m
  OBVIOUS
<1>2. \A k \in 0..m : ScaleAt(scales, k) \in 0..255
  BY DEF ScaleAt
<1>3. Len(Deltas(scales)) = m
  BY <1>1 DEF Deltas
<1>4. ASSUME NEW k \in 0..(m - 1)
      PROVE  Deltas(scales)[k + 1] = Se(Delta(ScaleAt(scales, k), ScaleAt(scales, k + 1)))
  <2> DEFINE j == k + 1
  <2>1. j \in 1..m /\ j - 1 = k /\ (j = 1 <=> k = 0) /\ j # 0
    OBVIOUS
  <2> HIDE DEF j
  <2>2. Deltas(scales)[j] = Se(Delta(IF j = 1 THEN 8 ELSE scales[j - 1], scales[j]))
    BY <1>1, <2>1 DEF Deltas
  <2>3. (IF j = 1 THEN 8 ELSE scales[j - 1]) = ScaleAt(scales, k)
    BY <2>1 DEF ScaleAt
  <2>4. scales[j] = ScaleAt(scales, j)
    BY <2>1 DEF ScaleAt
  <2> QED BY <2>2, <2>3, <2>4 DEF j
<1>5. ASSUME NEW k \in 0..(m - 1) PROVE Deltas(scales)[k + 1] \in Strings
  <2>1. k \in 0..m /\ k + 1 \in 0..m
    OBVIOUS
  <2>2. ScaleAt(scales, k) \in 0..255 /\ ScaleAt(scales, k + 1) \in 0..255
    BY <1>2, <2>1
  <2>3. Delta(ScaleAt(scales, k), ScaleAt(scales, k + 1)) \in Int
    BY <2>2, DeltaGives
  <2>4. Se(Delta(ScaleAt(scales, k), ScaleAt(scales, k + 1))) \in Strings
    BY <2>3, SeType
  <2> QED BY <1>4, <2>4
<1> QED BY <1>2, <1>3, <1>4, <1>5

LEMMA NextScaleReads ==
    ASSUME BitsOK, NEW s \in ScaleStates, NEW to \in 0..255, s.pos \in 0..End,
           At(s.pos, Se(Delta(s.last, to))), s.next # 0
    PROVE  /\ NextScale(s).pos = Behind(s.pos, Se(Delta(s.last, to)))
           /\ \/ NextScale(s).pos = End
              \/ NextScale(s).next = to /\ (to # 0 => NextScale(s).last = to)
<1> DEFINE d == Delta(s.last, to)
           next == (s.last + ReadSE(s.pos) + 256) % 256
<1>1. s.last \in 0..255
  BY DEF ScaleStates
<1>2. d \in Int /\ (s.last + d + 256) % 256 = to
  BY <1>1, DeltaGives
<1>3. AfterUE(s.pos) = Behind(s.pos, Se(d)) /\ (ReadSE(s.pos) = d \/ AfterUE(s.pos) = End)
  BY <1>2, SeReads
<1>4. NextScale(s) = [pos |-> AfterUE(s.pos), next |-> next, last |-> IF next = 0 THEN s.last ELSE next]
  BY DEF NextScale
<1>5. ReadSE(s.pos) = d => next = to
  BY <1>2
<1> HIDE DEF d, next
<1> QED BY <1>3, <1>4, <1>5 DEF d

LEMMA NextScaleStays ==
    ASSUME BitsOK, NEW s \in ScaleStates, s.pos = End
    PROVE  NextScale(s).pos = End
BY UeStays DEF NextScale

\* A list of m deltas that ends with the scale 0 if it is not full.
LEMMA ScalingListReads ==
    ASSUME BitsOK, NEW p \in 0..End, NEW size \in Nat, NEW m \in 0..size,
           NEW scales \in [1..m -> 0..255], \A k \in 1..(m - 1) : scales[k] # 0,
           m < size => m > 0 /\ scales[m] = 0,
           At(p, Joint(Deltas(scales), m))
    PROVE  AfterScalingList(p, size) = Behind(p, Joint(Deltas(scales), m))
<1>0. /\ Len(Deltas(scales)) = m
      /\ \A k \in 0..m : ScaleAt(scales, k) \in 0..255
      /\ \A k \in 0..(m - 1) :
            /\ Deltas(scales)[k + 1] = Se(Delta(ScaleAt(scales, k), ScaleAt(scales, k + 1)))
            /\ Deltas(scales)[k + 1] \in Strings
  <2>1. m \in Nat
    OBVIOUS
  <2> QED BY <2>1, DeltasAre, Zenon
<1> DEFINE step == [k \in Nat |-> [s \in ScaleStates |-> NextScale(s)]]
           first == [pos |-> p, next |-> 8, last |-> 8]
           parts == Deltas(scales)
           st(k) == Repeat(step, first, k)
           T == {k \in Nat :
                    /\ st(k) \in ScaleStates
                    /\ st(k).pos = Place(p, parts, IF k < m THEN k ELSE m)
                    /\ st(k).pos # End =>
                          IF k <= m
                          THEN /\ st(k).next = ScaleAt(scales, k)
                               /\ ScaleAt(scales, k) # 0 => st(k).last = ScaleAt(scales, k)
                          ELSE st(k).next = 0}
<1>1. p \in Nat /\ End \in Nat /\ m \in Nat
  BY BitType
<1>2. first \in ScaleStates /\ first.pos = p /\ first.next = 8 /\ first.last = 8
  BY <1>1 DEF ScaleStates
<1>3. \A k \in Nat, s \in ScaleStates : step[k][s] = NextScale(s) /\ NextScale(s) \in ScaleStates
  BY ScaleType
<1>4. AfterScalingList(p, size) = st(size).pos
  BY DEF AfterScalingList
<1> HIDE DEF step, first
<1>5. \A k \in Nat : st(0) = first /\ st(k + 1) = step[k][st(k)]
  BY RepeatStep
<1>6. /\ \A k \in 0..m : ScaleAt(scales, k) \in 0..255
      /\ \A k \in 0..(m - 1) : parts[k + 1] = Se(Delta(ScaleAt(scales, k), ScaleAt(scales, k + 1)))
      /\ \A k \in 0..(m - 1) : parts[k + 1] \in Strings
  BY <1>0, Zenon
<1>7. \A k \in 1..m : parts[k] \in Strings
  <2> SUFFICES ASSUME NEW k \in 1..m PROVE parts[k] \in Strings
    OBVIOUS
  <2> DEFINE j == k - 1
  <2>1. j \in 0..(m - 1) /\ j + 1 = k
    OBVIOUS
  <2> HIDE DEF j
  <2>2. parts[j + 1] \in Strings
    BY <1>6, <2>1
  <2> QED BY <2>1, <2>2
<1> HIDE DEF parts
<1>8. /\ Place(p, parts, 0) = p
      /\ \A k \in 0..m : Place(p, parts, k) \in 0..End
      /\ \A k \in 0..(m - 1) : At(Place(p, parts, k), parts[k + 1])
      /\ \A k \in 0..(m - 1) : Place(p, parts, k + 1) = Behind(Place(p, parts, k), parts[k + 1])
  <2>1. At(p, Joint(parts, m))
    BY DEF parts
  <2> QED BY <1>1, <1>7, <2>1, RowReads
<1> HIDE DEF st
<1>9. 0 \in T
  <2>1. ScaleAt(scales, 0) = 8 /\ (IF 0 < m THEN 0 ELSE m) = 0
    BY <1>1 DEF ScaleAt
  <2>2. st(0) = first
    BY <1>5
  <2> QED BY <1>1, <1>2, <1>8, <2>1, <2>2
<1>10. \A k \in 0..(size - 1) : k \in T => k + 1 \in T
  <2> SUFFICES ASSUME NEW k \in 0..(size - 1), k \in T PROVE k + 1 \in T
    OBVIOUS
  <2> DEFINE s == st(k)
  <2>1. k \in Nat /\ k + 1 \in Nat /\ s \in ScaleStates
    OBVIOUS
  <2>2. st(k + 1) = NextScale(s) /\ NextScale(s) \in ScaleStates
    BY <1>3, <1>5, <2>1
  <2>3. CASE k < m
    <3>1. /\ s.pos = Place(p, parts, k) /\ k \in 0..(m - 1) /\ k \in 0..m /\ k + 1 \in 0..m
          /\ (IF k + 1 < m THEN k + 1 ELSE m) = k + 1 /\ k + 1 <= m
      BY <1>1, <2>3
    <3>2. s.pos \in 0..End /\ At(s.pos, parts[k + 1]) /\ Place(p, parts, k + 1) = Behind(s.pos, parts[k + 1])
      BY <1>8, <3>1
    <3>3. ScaleAt(scales, k) # 0
      BY <3>1 DEF ScaleAt
    <3>4. CASE s.pos = End
      <4>1. NextScale(s).pos = End
        BY <2>1, <3>4, NextScaleStays
      <4>2. Len(parts[k + 1]) \in Nat
        BY <1>6, <3>1, Length
      <4>3. Behind(End, parts[k + 1]) = End
        BY <3>2, <4>2, SkipFacts DEF Behind
      <4> QED BY <2>1, <2>2, <3>1, <3>2, <3>4, <4>1, <4>3
    <3>5. CASE s.pos # End
      <4> DEFINE to == ScaleAt(scales, k + 1)
      <4>1. s.next = ScaleAt(scales, k) /\ s.last = ScaleAt(scales, k)
        BY <3>1, <3>3, <3>5
      <4>2. parts[k + 1] = Se(Delta(s.last, to)) /\ to \in 0..255
        BY <1>6, <3>1, <4>1
      <4>3. /\ NextScale(s).pos = Behind(s.pos, parts[k + 1])
            /\ \/ NextScale(s).pos = End
               \/ NextScale(s).next = to /\ (to # 0 => NextScale(s).last = to)
        <5> HIDE DEF to, s
        <5> QED BY <2>1, <3>2, <3>3, <4>1, <4>2, NextScaleReads
      <4> QED BY <2>1, <2>2, <3>1, <3>2, <4>3
    <3> QED BY <3>4, <3>5
  <2>4. CASE ~(k < m)
    <3>1. /\ (IF k < m THEN k ELSE m) = m /\ (IF k + 1 < m THEN k + 1 ELSE m) = m
          /\ ~(k + 1 <= m) /\ m < size
      BY <1>1, <2>4
    <3>2. m > 0 /\ scales[m] = 0
      BY <3>1
    <3>3. ScaleAt(scales, m) = 0
      BY <1>1, <3>2 DEF ScaleAt
    <3>4. s.pos # End => s.next = 0
      <4>1. CASE k = m
        BY <1>1, <3>3, <4>1
      <4>2. CASE k > m
        BY <1>1, <4>2
      <4> QED BY <1>1, <2>4, <4>1, <4>2
    <3>5. CASE s.pos = End
      <4>1. NextScale(s).pos = End
        BY <2>1, <3>5, NextScaleStays
      <4> QED BY <2>1, <2>2, <3>1, <3>5, <4>1
    <3>6. CASE s.pos # End
      <4>1. NextScale(s) = s
        BY <3>4, <3>6 DEF NextScale
      <4> QED BY <2>1, <2>2, <3>1, <3>4, <3>6, <4>1
    <3> QED BY <3>5, <3>6
  <2> QED BY <2>3, <2>4
<1> HIDE DEF T
<1>11. size \in T
  <2>1. \A k \in 0..size : k \in T
    BY <1>9, <1>10, UpToInduction, Zenon
  <2>2. size \in 0..size
    OBVIOUS
  <2> QED BY <2>1, <2>2
<1>12. (IF size < m THEN size ELSE m) = m
  BY <1>1
<1> QED BY <1>4, <1>11, <1>12 DEF T, Place, parts

LEMMA Sequence ==
    ASSUME NEW S, NEW s \in Seq(S)
    PROVE  Len(s) \in Nat /\ s \in [1..Len(s) -> S] /\ \A k \in 1..Len(s) : s[k] \in S
<1>1. Len(s) \in Nat /\ s \in [1..Len(s) -> S]
  BY LenProperties
<1> DEFINE n == Len(s)
<1> HIDE DEF n
<1>2. s \in [1..n -> S] => \A k \in 1..n : s[k] \in S
  OBVIOUS
<1> QED BY <1>1, <1>2 DEF n

LEMMA Widened ==
    ASSUME NEW S, NEW T, S \subseteq T, NEW s \in Seq(S)
    PROVE  s \in Seq(T)
<1>1. PICK n \in Nat : n = Len(s) /\ s \in [1..n -> S]
  BY LenProperties
<1>2. s \in [1..n -> T]
  BY <1>1
<1> QED BY <1>2

LEMMA NumberAppended ==
    ASSUME NEW s \in Seq(Nat), NEW e \in Nat
    PROVE  /\ Len(Append(s, e)) = Len(s) + 1
           /\ Append(s, e) \in [1..Len(Append(s, e)) -> Nat]
           /\ Append(s, e)[Len(s) + 1] = e
           /\ \A k \in 1..Len(s) : Append(s, e)[k] = s[k]
<1>1. Append(s, e) \in Seq(Nat)
  BY AppendProperties
<1>2. Append(s, e) \in [1..Len(Append(s, e)) -> Nat]
  BY <1>1, LenProperties
<1> QED BY <1>2, AppendProperties

\* A list with the scale 0 that ends it if it is not full.
FullList(scales, size) == IF Len(scales) < size THEN Append(scales, 0) ELSE scales

LEMMA FullListIs ==
    ASSUME NEW size \in Nat, NEW scales \in Seq(Nat), Len(scales) <= size,
           \A k \in 1..Len(scales) : scales[k] \in 1..255
    PROVE  /\ Len(FullList(scales, size)) \in 0..size
           /\ FullList(scales, size) \in [1..Len(FullList(scales, size)) -> 0..255]
           /\ \A k \in 1..(Len(FullList(scales, size)) - 1) : FullList(scales, size)[k] # 0
           /\ Len(FullList(scales, size)) < size =>
                  /\ Len(FullList(scales, size)) > 0
                  /\ FullList(scales, size)[Len(FullList(scales, size))] = 0
<1> DEFINE full == FullList(scales, size)
           m == Len(full)
           n == Len(scales)
<1>2. full = IF n < size THEN Append(scales, 0) ELSE scales
  BY DEF FullList
<1>3. n <= size
  OBVIOUS
<1> HIDE DEF full
<1>5. n \in Nat /\ scales \in [1..n -> Nat]
  BY LenProperties
<1>6. /\ m = (IF n < size THEN n + 1 ELSE n) /\ full \in [1..m -> Nat]
      /\ n < size => full[n + 1] = 0
      /\ \A k \in 1..n : full[k] = scales[k]
  <2>1. CASE n < size
    <3>1. full = Append(scales, 0)
      BY <1>2, <2>1
    <3> DEFINE zero == 0
    <3>2. zero \in Nat /\ full = Append(scales, zero)
      BY <3>1
    <3> HIDE DEF zero
    <3>3. /\ m = n + 1 /\ full \in [1..m -> Nat] /\ full[n + 1] = zero
          /\ \A k \in 1..n : full[k] = scales[k]
      BY <3>2, NumberAppended, Zenon
    <3> QED BY <2>1, <3>3 DEF zero
  <2>2. CASE ~(n < size)
    <3>1. full = scales
      BY <1>2, <2>2
    <3> QED BY <2>2, <1>5, <3>1, Zenon
  <2> QED BY <2>1, <2>2
<1>7. \A k \in 1..n : full[k] \in 1..255
  BY <1>6
<1> HIDE DEF m, n
<1>8. m \in 0..size /\ m \in Nat /\ (m < size => m = n + 1)
  BY <1>3, <1>5, <1>6
<1>9. \A k \in 1..m : k \in 1..n \/ (k = n + 1 /\ n < size)
  BY <1>3, <1>5, <1>6
<1>10. \A k \in 1..m : full[k] \in 0..255
  <2> SUFFICES ASSUME NEW k \in 1..m PROVE full[k] \in 0..255
    OBVIOUS
  <2>1. k \in 1..n => full[k] \in 1..255
    BY <1>7
  <2>2. k \notin 1..n => full[k] = 0
    BY <1>6, <1>9
  <2> DEFINE x == full[k]
  <2> HIDE DEF x
  <2>3. (x \in 1..255 \/ x = 0) => x \in 0..255
    OBVIOUS
  <2> QED BY <2>1, <2>2, <2>3 DEF x
<1>11. full \in [1..m -> 0..255]
  BY <1>6, <1>10
<1>12. \A k \in 1..(m - 1) : full[k] # 0
  <2> SUFFICES ASSUME NEW k \in 1..(m - 1) PROVE full[k] # 0
    OBVIOUS
  <2> DEFINE x == full[k]
  <2>1. k \in 1..n
    BY <1>5, <1>6, <1>8
  <2>2. x \in 1..255
    BY <1>7, <2>1
  <2> HIDE DEF x
  <2>3. x # 0
    BY <2>2
  <2> QED BY <2>3 DEF x
<1>13. m < size => m > 0 /\ full[m] = 0
  BY <1>3, <1>5, <1>6, <1>8
<1> QED BY <1>8, <1>11, <1>12, <1>13 DEF m, full

LEMMA ListIsFull ==
    ASSUME NEW size \in Nat, NEW scales \in Seq(1..255), Len(scales) <= size
    PROVE  /\ Len(FullList(scales, size)) \in 0..size
           /\ FullList(scales, size) \in [1..Len(FullList(scales, size)) -> 0..255]
           /\ \A k \in 1..(Len(FullList(scales, size)) - 1) : FullList(scales, size)[k] # 0
           /\ Len(FullList(scales, size)) < size =>
                  /\ Len(FullList(scales, size)) > 0
                  /\ FullList(scales, size)[Len(FullList(scales, size))] = 0
<1>1. 1..255 \subseteq Nat
  OBVIOUS
<1>2. scales \in Seq(Nat) /\ \A k \in 1..Len(scales) : scales[k] \in 1..255
  BY <1>1, Widened, Sequence, Zenon
<1> QED BY <1>2, FullListIs, Zenon

LEMMA ListForm ==
    ASSUME NEW size \in Nat, NEW list, list.scales \in Seq(1..255), Len(list.scales) <= size
    PROVE  LET full == FullList(list.scales, size)
           IN  /\ ScalingList264(list, size) = Optional(list.present, Joint(Deltas(full), Len(full)))
               /\ Joint(Deltas(full), Len(full)) \in Strings
<1> DEFINE full == FullList(list.scales, size)
           m == Len(full)
<1>1. ScalingList264(list, size) = Optional(list.present, Concat(Deltas(full)))
  BY DEF ScalingList264, Deltas, FullList
<1>2. m \in 0..size /\ full \in [1..m -> 0..255]
  BY ListIsFull
<1> HIDE DEF full
<1>3. m \in Nat
  BY <1>2
<1> HIDE DEF m
<1>4. Len(Deltas(full)) = m /\ \A k \in 0..(m - 1) : Deltas(full)[k + 1] \in Strings
  BY <1>2, <1>3, DeltasAre, Zenon
<1> DEFINE parts == Deltas(full)
<1>5. \A k \in 1..m : parts[k] \in Strings
  <2> SUFFICES ASSUME NEW k \in 1..m PROVE parts[k] \in Strings
    OBVIOUS
  <2> DEFINE j == k - 1
  <2>1. j \in 0..(m - 1) /\ j + 1 = k
    BY <1>3
  <2> HIDE DEF j
  <2>2. parts[j + 1] \in Strings
    BY <1>4, <2>1
  <2> QED BY <2>1, <2>2
<1> HIDE DEF parts
<1>6. Concat(parts) = Joint(parts, m) /\ Joint(parts, m) \in Strings
  <2>1. Len(parts) = m
    BY <1>4 DEF parts
  <2> QED BY <1>3, <1>5, <2>1, ConcatIsJoint
<1> QED BY <1>1, <1>6 DEF parts, m, full

LEMMA ListReads ==
    ASSUME BitsOK, NEW size \in Nat, NEW list, list.present \in BOOLEAN,
           list.scales \in Seq(1..255), Len(list.scales) <= size
    PROVE  /\ ScalingList264(list, size) \in Strings
           /\ \A p \in 0..End : At(p, ScalingList264(list, size)) =>
                  AfterOption(p, AfterScalingList(p + 1, size)) = Behind(p, ScalingList264(list, size))
<1> DEFINE full == FullList(list.scales, size)
           m == Len(full)
           deltas == Joint(Deltas(full), m)
<1>1. /\ m \in 0..size /\ full \in [1..m -> 0..255]
      /\ \A k \in 1..(m - 1) : full[k] # 0
      /\ m < size => m > 0 /\ full[m] = 0
  BY ListIsFull
<1>2. ScalingList264(list, size) = Optional(list.present, deltas) /\ deltas \in Strings
  BY ListForm
<1> HIDE DEF full, m
<1>3. ASSUME NEW p \in 0..End, At(p, Optional(list.present, deltas))
      PROVE  AfterOption(p, AfterScalingList(p + 1, size)) = Behind(p, Optional(list.present, deltas))
  <2> DEFINE q == AfterScalingList(p + 1, size)
             r == p + 1
  <2>1. r \in 0..End /\ At(r, deltas) => q = Behind(r, deltas)
    <3> HIDE DEF r
    <3> SUFFICES ASSUME r \in 0..End, At(r, deltas) PROVE AfterScalingList(r, size) = Behind(r, deltas)
      BY DEF r
    <3> QED BY <1>1, ScalingListReads
  <2> HIDE DEF q, deltas
  <2>2. AfterOption(p, q) = Behind(p, Optional(list.present, deltas))
    BY <1>2, <1>3, <2>1, OptionReads
  <2> QED BY <2>2 DEF q
<1>4. Optional(list.present, deltas) \in Strings
  <2> HIDE DEF deltas
  <2> QED BY <1>2, OptionalType
<1> QED BY <1>2, <1>3, <1>4

LEMMA ListsRead ==
    ASSUME BitsOK, NEW chroma \in 0..3, NEW lists \in ScalingLists(chroma)
    PROVE  LET fields == Concat([k \in 1..Len(lists) |-> ScalingList264(lists[k], ListSize(k))])
           IN  /\ fields \in Strings
               /\ \A p \in 0..End : At(p, fields) =>
                      AfterScalingLists(p, ListCount(chroma)) = Behind(p, fields)
<1> DEFINE n == ListCount(chroma)
           parts == [k \in 1..Len(lists) |-> ScalingList264(lists[k], ListSize(k))]
           step == [k \in Nat |-> [q \in Nat |->
                       AfterOption(q, AfterScalingList(q + 1, IF k < 6 THEN 16 ELSE 64))]]
<1>1. n \in Nat
  BY DEF ListCount
<1>2. /\ lists \in [1..n -> [present : BOOLEAN, scales : Seq(1..255)]]
      /\ \A k \in 1..n : Len(lists[k].scales) <= ListSize(k)
  BY DEF ScalingLists
<1> HIDE DEF n
<1>3. Len(lists) = n
  BY <1>1, <1>2
<1>4. Len(parts) = n /\ \A k \in 1..n : parts[k] = ScalingList264(lists[k], ListSize(k))
  BY <1>1, <1>3
<1>5. \A k \in Nat, q \in Nat :
          step[k][q] = AfterOption(q, AfterScalingList(q + 1, IF k < 6 THEN 16 ELSE 64))
  OBVIOUS
<1>6. \A p : AfterScalingLists(p, n) = Repeat(step, p, n)
  BY DEF AfterScalingLists
<1> HIDE DEF parts, step
<1>7. ASSUME NEW k \in 1..n
      PROVE  /\ parts[k] \in Strings
             /\ \A q \in 0..End : At(q, parts[k]) => step[k - 1][q] = Behind(q, parts[k])
  <2> DEFINE list == lists[k]
             size == ListSize(k)
             j == k - 1
  <2>1. list.present \in BOOLEAN /\ list.scales \in Seq(1..255) /\ Len(list.scales) <= size
    BY <1>2
  <2>2. /\ j \in Nat /\ k \in Nat /\ size \in Nat
        /\ (IF j < 6 THEN 16 ELSE 64) = size
    BY <1>1 DEF ListSize
  <2>3. parts[k] = ScalingList264(list, size)
    BY <1>4
  <2> HIDE DEF list, size, j
  <2>4. /\ ScalingList264(list, size) \in Strings
        /\ \A q \in 0..End : At(q, ScalingList264(list, size)) =>
               AfterOption(q, AfterScalingList(q + 1, size)) = Behind(q, ScalingList264(list, size))
    BY <2>1, <2>2, ListReads
  <2>5. \A q \in 0..End : step[j][q] = AfterOption(q, AfterScalingList(q + 1, size))
    <3> SUFFICES ASSUME NEW q \in 0..End
                 PROVE  step[j][q] = AfterOption(q, AfterScalingList(q + 1, size))
      OBVIOUS
    <3>1. q \in Nat
      BY BitType
    <3>2. step[j][q] = AfterOption(q, AfterScalingList(q + 1, IF j < 6 THEN 16 ELSE 64))
      BY <1>5, <2>2, <3>1, Zenon
    <3> QED BY <2>2, <3>2
  <2>6. \A q \in 0..End : At(q, parts[k]) => step[j][q] = Behind(q, parts[k])
    BY <2>3, <2>4, <2>5, Zenon
  <2> QED BY <2>3, <2>4, <2>6, Zenon DEF j
<1>8. Concat(parts) = Joint(parts, n) /\ Concat(parts) \in Strings
  BY <1>1, <1>4, <1>7, ConcatIsJoint
<1>9. ASSUME NEW p \in 0..End, At(p, Concat(parts))
      PROVE  AfterScalingLists(p, n) = Behind(p, Concat(parts))
  <2>1. At(p, Joint(parts, n))
    BY <1>8, <1>9
  <2>2. Repeat(step, p, n) = Behind(p, Joint(parts, n))
    BY <1>1, <1>7, <2>1, LoopReads
  <2> QED BY <1>6, <1>8, <2>2
<1> QED BY <1>8, <1>9 DEF parts, n

\* Four parts in a row.
LEMMA FourRead ==
    ASSUME BitsOK, NEW a \in Strings, NEW b \in Strings, NEW c \in Strings, NEW d \in Strings,
           NEW p \in 0..End, At(p, Concat(<<a, b, c, d>>))
    PROVE  LET q == Behind(p, a)
               r == Behind(q, b)
               s == Behind(r, c)
           IN  /\ q \in 0..End /\ r \in 0..End /\ s \in 0..End
               /\ At(p, a) /\ At(q, b) /\ At(r, c) /\ At(s, d)
               /\ Behind(p, Concat(<<a, b, c, d>>)) = Behind(s, d)
<1> DEFINE parts == <<a, b, c, d>>
<1>1. Len(parts) = 4 /\ \A k \in 1..4 : parts[k] \in Strings
  OBVIOUS
<1>2. parts[1] = a /\ parts[2] = b /\ parts[3] = c /\ parts[4] = d
  OBVIOUS
<1> HIDE DEF parts
<1>3. Concat(parts) = Joint(parts, 4)
  BY <1>1, ConcatIsJoint
<1>4. /\ Place(p, parts, 0) = p
      /\ \A k \in 0..4 : Place(p, parts, k) \in 0..End
      /\ \A k \in 0..3 :
             /\ At(Place(p, parts, k), parts[k + 1])
             /\ Place(p, parts, k + 1) = Behind(Place(p, parts, k), parts[k + 1])
  <2> DEFINE n == 4
  <2>1. At(p, Joint(parts, n)) /\ n \in Nat /\ (\A k \in 1..n : parts[k] \in Strings) /\ n - 1 = 3
    BY <1>1, <1>3 DEF parts
  <2>2. n = 4
    OBVIOUS
  <2> HIDE DEF n
  <2>3. /\ Place(p, parts, 0) = p
        /\ \A k \in 0..n : Place(p, parts, k) \in 0..End
        /\ \A k \in 0..(n - 1) :
               /\ At(Place(p, parts, k), parts[k + 1])
               /\ Place(p, parts, k + 1) = Behind(Place(p, parts, k), parts[k + 1])
    BY <2>1, RowReads
  <2> QED BY <2>1, <2>2, <2>3
<1>5. Place(p, parts, 1) = Behind(p, a) /\ At(p, a)
  BY <1>2, <1>4
<1>6. Place(p, parts, 2) = Behind(Place(p, parts, 1), b) /\ At(Place(p, parts, 1), b)
  BY <1>2, <1>4
<1>7. Place(p, parts, 3) = Behind(Place(p, parts, 2), c) /\ At(Place(p, parts, 2), c)
  BY <1>2, <1>4
<1>8. Place(p, parts, 4) = Behind(Place(p, parts, 3), d) /\ At(Place(p, parts, 3), d)
  BY <1>2, <1>4
<1>9. Place(p, parts, 4) = Behind(p, Concat(parts))
  BY <1>3 DEF Place
<1> QED BY <1>4, <1>5, <1>6, <1>7, <1>8, <1>9 DEF parts

LEMMA FourString ==
    ASSUME NEW a \in Strings, NEW b \in Strings, NEW c \in Strings, NEW d \in Strings
    PROVE  Concat(<<a, b, c, d>>) \in Strings
<1> DEFINE parts == <<a, b, c, d>>
<1>1. Len(parts) = 4 /\ \A k \in 1..4 : parts[k] \in Strings
  OBVIOUS
<1> HIDE DEF parts
<1>2. Concat(parts) \in Strings
  BY <1>1, ConcatIsJoint
<1> QED BY <1>2 DEF parts

\* chroma_format_idc
ChromaBits(chroma, plane) == Ue(chroma) \o (IF chroma = 3 THEN plane ELSE <<>>)

LEMMA ChromaString ==
    ASSUME NEW chroma \in 0..3, NEW plane \in Bits(1)
    PROVE  ChromaBits(chroma, plane) \in Strings
<1>1. (IF chroma = 3 THEN plane ELSE <<>>) \in Strings
  BY NoBits, BitsType
<1>2. Ue(chroma) \in Strings
  BY UeType
<1> QED BY <1>1, <1>2, JoinedType DEF ChromaBits

LEMMA ChromaReads ==
    ASSUME BitsOK, NEW chroma \in 0..3, NEW plane \in Bits(1), NEW p \in 0..End,
           At(p, ChromaBits(chroma, plane))
    PROVE  /\ SkipBits(AfterUE(p), IF ReadUE(p) = 3 THEN 1 ELSE 0) = Behind(p, ChromaBits(chroma, plane))
           /\ ReadUE(p) = chroma \/ Behind(p, ChromaBits(chroma, plane)) = End
<1> DEFINE b == IF chroma = 3 THEN plane ELSE <<>>
           q == AfterUE(p)
           m == IF ReadUE(p) = 3 THEN 1 ELSE 0
<1>1. b \in Strings /\ Len(b) = (IF chroma = 3 THEN 1 ELSE 0)
  BY NoBits, BitsType
<1>2. Ue(chroma) \in Strings /\ ChromaBits(chroma, plane) = Ue(chroma) \o b
  BY UeType DEF ChromaBits
<1> HIDE DEF b
<1>3. /\ At(p, Ue(chroma)) /\ Behind(p, Ue(chroma)) \in 0..End
      /\ Behind(Behind(p, Ue(chroma)), b) = Behind(p, ChromaBits(chroma, plane))
  BY <1>1, <1>2, Behinds
<1>4. q = Behind(p, Ue(chroma)) /\ (ReadUE(p) = chroma \/ q = End)
  BY <1>3, UeReads
<1> HIDE DEF q
<1>5. q \in 0..End /\ Behind(q, b) = Behind(p, ChromaBits(chroma, plane)) /\ Len(b) \in Nat /\ m \in Nat
  BY <1>1, <1>3, <1>4
<1>6. CASE q = End
  <2>1. SkipBits(End, Len(b)) = End /\ SkipBits(End, m) = End
    BY <1>5, SkipFacts
  <2> QED BY <1>5, <1>6, <2>1 DEF Behind, q
<1>7. CASE q # End
  <2>1. m = Len(b)
    BY <1>1, <1>4, <1>7
  <2> QED BY <1>4, <1>5, <1>7, <2>1 DEF Behind, q
<1> QED BY <1>6, <1>7

LEMMA SkipOne ==
    ASSUME BitsOK, NEW p \in 0..End, NEW n \in Nat, NEW b \in Bits(n)
    PROVE  SkipBits(p, n) = Behind(p, b) /\ b \in Strings
BY BitsType DEF Behind

LEMMA EndStays ==
    ASSUME BitsOK, NEW a \in Strings
    PROVE  Behind(End, a) = End
<1>1. Len(a) \in Nat /\ End \in 0..End
  BY Length, BitType
<1> QED BY <1>1, SkipFacts DEF Behind

LEMMA UeValuesAre == UeValues \subseteq Nat
BY DEF UeValues

LEMMA UeNumbers ==
    ASSUME NEW n \in Nat, NEW values \in [1..n -> UeValues]
    PROVE  values \in [1..n -> Nat] /\ Ues(values) \in Strings
<1>1. values \in [1..n -> Nat]
  BY UeValuesAre
<1> QED BY <1>1, UesType

\* The lists of a high profile, if there are any.
ListFields(lists) ==
    Optional(lists # <<>>, Concat([k \in 1..Len(lists) |-> ScalingList264(lists[k], ListSize(k))]))

LEMMA ListFieldsRead ==
    ASSUME BitsOK, NEW chroma \in 0..3, NEW lists \in Option(ScalingLists(chroma))
    PROVE  /\ ListFields(lists) \in Strings
           /\ \A p \in 0..End, count \in Nat :
                  At(p, ListFields(lists)) /\ (count = ListCount(chroma) \/ p = End) =>
                      AfterOption(p, AfterScalingLists(p + 1, count)) = Behind(p, ListFields(lists))
<1> DEFINE fields == Concat([k \in 1..Len(lists) |-> ScalingList264(lists[k], ListSize(k))])
           there == lists # <<>>
<1>1. there \in BOOLEAN /\ ListFields(lists) = Optional(there, fields)
  BY DEF ListFields
<1>2. ASSUME there
      PROVE  /\ fields \in Strings
             /\ \A p \in 0..End : At(p, fields) =>
                    AfterScalingLists(p, ListCount(chroma)) = Behind(p, fields)
  <2>1. lists \in ScalingLists(chroma)
    BY <1>2 DEF Option
  <2> QED BY <2>1, ListsRead, Zenon
<1> HIDE DEF fields, there
<1>3. Optional(there, fields) \in Strings
  BY <1>1, <1>2, OptionalType
<1>4. ASSUME NEW p \in 0..End, NEW count \in Nat, At(p, Optional(there, fields)),
             count = ListCount(chroma) \/ p = End
      PROVE  AfterOption(p, AfterScalingLists(p + 1, count)) = Behind(p, Optional(there, fields))
  <2> DEFINE q == AfterScalingLists(p + 1, count)
             r == p + 1
  <2>1. there /\ p < End /\ r \in 0..End /\ At(r, fields) => q = Behind(r, fields)
    <3> HIDE DEF r
    <3> SUFFICES ASSUME there, p < End, r \in 0..End, At(r, fields)
                 PROVE  AfterScalingLists(r, count) = Behind(r, fields)
      BY DEF r
    <3>1. count = ListCount(chroma)
      BY <1>4, BitType
    <3> QED BY <1>2, <3>1
  <2> HIDE DEF q
  <2>2. AfterOption(p, q) = Behind(p, Optional(there, fields))
    BY <1>1, <1>2, <1>4, <2>1, OptionReads
  <2> QED BY <2>2 DEF q
<1> QED BY <1>1, <1>3, <1>4

LEMMA HighReads ==
    ASSUME BitsOK, NEW s, Is264(s)
    PROVE  /\ HighFields(s) \in Strings
           /\ \A p \in 0..End : At(p, HighFields(s)) => AfterChroma(p) = Behind(p, HighFields(s))
<1> DEFINE a == ChromaBits(s.chroma, s.plane)
           b == Ues(s.depths)
           c == s.bypass
           d == ListFields(s.lists)
<1>1. /\ s.chroma \in 0..3 /\ s.plane \in Bits(1) /\ s.depths \in [1..2 -> UeValues]
      /\ s.bypass \in Bits(1) /\ s.lists \in Option(ScalingLists(s.chroma))
  BY DEF Is264
<1>2. HighFields(s) = Concat(<<a, b, c, d>>)
  BY DEF HighFields, ChromaFormat, ChromaBits, ListFields
<1>3. a \in Strings
  BY <1>1, ChromaString
<1>4. b \in Strings /\ s.depths \in [1..2 -> Nat]
  BY <1>1, UeNumbers
<1>5. c \in Strings
  BY <1>1, BitsType
<1>6. /\ d \in Strings
      /\ \A p \in 0..End, count \in Nat :
             At(p, d) /\ (count = ListCount(s.chroma) \/ p = End) =>
                 AfterOption(p, AfterScalingLists(p + 1, count)) = Behind(p, d)
  BY <1>1, ListFieldsRead
<1>7. ASSUME NEW p \in 0..End, At(p, Concat(<<a, b, c, d>>))
      PROVE  AfterChroma(p) = Behind(p, Concat(<<a, b, c, d>>))
  <2> DEFINE q == Behind(p, a)
             r == Behind(q, b)
             t == Behind(r, c)
             count == IF ReadUE(p) = 3 THEN 12 ELSE 8
  <2> HIDE DEF a, b, c, d
  <2>1. /\ q \in 0..End /\ r \in 0..End /\ t \in 0..End
        /\ At(p, a) /\ At(q, b) /\ At(r, c) /\ At(t, d)
        /\ Behind(p, Concat(<<a, b, c, d>>)) = Behind(t, d)
    BY <1>3, <1>4, <1>5, <1>6, <1>7, FourRead
  <2>2. /\ SkipBits(AfterUE(p), IF ReadUE(p) = 3 THEN 1 ELSE 0) = q
        /\ ReadUE(p) = s.chroma \/ q = End
    BY <1>1, <2>1, ChromaReads DEF a
  <2> HIDE DEF q
  <2>3. AfterUEs(q, 2) = r
    BY <1>4, <2>1, UesReads DEF b
  <2>4. q = End => r = End
    BY <1>4, EndStays
  <2> HIDE DEF r
  <2>5. SkipBits(r, 1) = t
    BY <1>1, <2>1, SkipOne DEF c
  <2>6. r = End => t = End
    BY <1>5, EndStays
  <2> HIDE DEF t
  <2>7. count \in Nat /\ (count = ListCount(s.chroma) \/ t = End)
    BY <2>2, <2>4, <2>6 DEF ListCount
  <2>8. AfterChroma(p) = AfterOption(t, AfterScalingLists(t + 1, count))
    BY <2>2, <2>3, <2>5 DEF AfterChroma
  <2> HIDE DEF count
  <2> QED BY <1>6, <2>1, <2>7, <2>8
<1>8. Concat(<<a, b, c, d>>) \in Strings
  <2> HIDE DEF a, b, c, d
  <2> QED BY <1>3, <1>4, <1>5, <1>6, FourString
<1> QED BY <1>2, <1>7, <1>8

LEMMA Ues1And2 ==
    ASSUME BitsOK, NEW p \in Nat
    PROVE  AfterUEs(p, 1) = AfterUE(p) /\ AfterUEs(p, 2) = AfterUE(AfterUE(p))
<1> DEFINE step == [k \in Nat |-> [q \in Nat |-> AfterUE(q)]]
<1>1. \A k, q \in Nat : step[k][q] = AfterUE(q) /\ AfterUE(q) \in Nat
  BY UEType
<1>2. \A n : AfterUEs(p, n) = Repeat(step, p, n)
  BY DEF AfterUEs
<1> HIDE DEF step
<1>3. /\ Repeat(step, p, 0) = p
      /\ Repeat(step, p, 0 + 1) = step[0][Repeat(step, p, 0)]
      /\ Repeat(step, p, 1 + 1) = step[1][Repeat(step, p, 1)]
  BY RepeatStep
<1>4. 0 + 1 = 1 /\ 1 + 1 = 2 /\ 0 \in Nat /\ 1 \in Nat
  OBVIOUS
<1>5. Repeat(step, p, 1) = AfterUE(p) /\ AfterUE(p) \in Nat
  BY <1>1, <1>3, <1>4
<1>6. Repeat(step, p, 2) = AfterUE(AfterUE(p))
  BY <1>1, <1>3, <1>4, <1>5
<1> QED BY <1>2, <1>5, <1>6

\* A number of values, and the values.
LEMMA CountedRead ==
    ASSUME BitsOK, NEW values \in Seq(UeValues), NEW p \in 0..End,
           At(p, Ue(Len(values))), At(Behind(p, Ue(Len(values))), Ues(values))
    PROVE  AfterUEs(AfterUE(p), ReadUE(p)) = Behind(Behind(p, Ue(Len(values))), Ues(values))
<1> DEFINE n == Len(values)
           q == Behind(p, Ue(n))
<1>1. n \in Nat /\ values \in [1..n -> UeValues]
  BY LenProperties
<1>2. values \in [1..n -> Nat] /\ Ues(values) \in Strings /\ Ue(n) \in Strings
  BY <1>1, UeNumbers, UeType
<1> HIDE DEF n
<1>3. AfterUE(p) = q /\ (ReadUE(p) = n \/ q = End) /\ q \in 0..End /\ ReadUE(p) \in Nat
  <2>1. Len(Ue(n)) \in Nat /\ p \in Nat
    BY <1>2, Length, BitType
  <2>2. q \in 0..End
    BY <2>1, SkipFacts DEF Behind
  <2>3. ReadUE(p) \in Nat
    BY <2>1, UEType
  <2> QED BY <1>1, <2>2, <2>3, UeReads DEF n
<1> HIDE DEF q
<1>4. CASE q = End
  <2>1. AfterUEs(End, ReadUE(p)) = End
    BY <1>3, UesStay
  <2>2. Behind(End, Ues(values)) = End
    BY <1>2, EndStays
  <2> QED BY <1>3, <1>4, <2>1, <2>2 DEF q, n
<1>5. CASE q # End
  <2>1. AfterUEs(q, n) = Behind(q, Ues(values))
    BY <1>1, <1>2, <1>3, UesReads DEF q, n
  <2> QED BY <1>3, <1>5, <2>1 DEF q, n
<1> QED BY <1>4, <1>5

\* What the order of pictures has beside its type.
PicOrderRest(s) ==
    IF s.order = 0 THEN Ue(s.maxOrder)
    ELSE IF s.order = 1
    THEN Concat(<<s.zero, Ues(s.offsets), Ue(Len(s.cycle)), Ues(s.cycle)>>)
    ELSE <<>>

LEMMA PicOrderTypes ==
    ASSUME NEW s, Is264(s)
    PROVE  /\ s.order \in 0..2 /\ s.maxOrder \in Nat /\ s.zero \in Bits(1) /\ s.zero \in Strings
           /\ s.offsets \in [1..2 -> Nat] /\ Ues(s.offsets) \in Strings
           /\ s.cycle \in Seq(UeValues) /\ Ue(Len(s.cycle)) \in Strings /\ Ues(s.cycle) \in Strings
           /\ PicOrder(s) = Ue(s.order) \o PicOrderRest(s)
           /\ Ue(s.order) \in Strings /\ PicOrderRest(s) \in Strings
<1>1. /\ s.order \in 0..2 /\ s.maxOrder \in Nat /\ s.zero \in Bits(1)
      /\ s.offsets \in [1..2 -> UeValues] /\ s.cycle \in Seq(UeValues)
  BY UeValuesAre DEF Is264, UpTo
<1>2. s.zero \in Strings
  BY <1>1, BitsType
<1>3. s.offsets \in [1..2 -> Nat] /\ Ues(s.offsets) \in Strings
  BY <1>1, UeNumbers
<1>4. Len(s.cycle) \in Nat /\ s.cycle \in [1..Len(s.cycle) -> UeValues]
  BY <1>1, LenProperties
<1>5. Ues(s.cycle) \in Strings /\ Ue(Len(s.cycle)) \in Strings
  BY <1>4, UeNumbers, UeType
<1>6. Ue(s.order) \in Strings /\ Ue(s.maxOrder) \in Strings
  BY <1>1, UeType
<1>7. PicOrder(s) = Ue(s.order) \o PicOrderRest(s)
  BY DEF PicOrder, PicOrderRest
<1>8. Concat(<<s.zero, Ues(s.offsets), Ue(Len(s.cycle)), Ues(s.cycle)>>) \in Strings
  BY <1>2, <1>3, <1>5, FourString
<1>9. PicOrderRest(s) \in Strings
  BY <1>6, <1>8, NoBits DEF PicOrderRest
<1> QED BY <1>1, <1>2, <1>3, <1>5, <1>6, <1>7, <1>9

LEMMA PicOrderReads ==
    ASSUME BitsOK, NEW s, Is264(s), NEW p \in 0..End, At(p, PicOrder(s))
    PROVE  AfterPicOrder(p) = Behind(p, PicOrder(s))
<1> DEFINE q == Behind(p, Ue(s.order))
           rest == PicOrderRest(s)
<1>1. /\ At(p, Ue(s.order)) /\ At(q, rest) /\ q \in 0..End
      /\ Behind(q, rest) = Behind(p, PicOrder(s))
  <2>1. Ue(s.order) \in Strings /\ rest \in Strings /\ PicOrder(s) = Ue(s.order) \o rest
    BY PicOrderTypes
  <2> HIDE DEF rest
  <2>2. At(p, Ue(s.order) \o rest)
    BY <2>1
  <2> QED BY <2>1, <2>2, Behinds
<1>2. AfterUE(p) = q /\ (ReadUE(p) = s.order \/ q = End)
  <2>1. s.order \in Nat
    BY PicOrderTypes
  <2> QED BY <1>1, <2>1, UeReads
<1> HIDE DEF q
<1>3. p \in Nat /\ q \in Nat /\ AfterUEs(p, 2) = AfterUE(q)
  BY <1>1, <1>2, Ues1And2, BitType
<1>4. CASE q = End
  <2>1. AfterUE(End) = End /\ AfterUEs(End, 2) = End
    BY UeStays, UesStay
  <2>2. SkipBits(End, 1) = End
    BY <1>1, SkipFacts
  <2>3. ReadUE(End) \in Nat
    BY BitType, UEType
  <2>4. AfterUEs(End, ReadUE(End)) = End
    BY <2>3, UesStay
  <2>5. AfterPicOrder(p) = End
    BY <1>2, <1>3, <1>4, <2>1, <2>2, <2>4 DEF AfterPicOrder
  <2>6. Behind(End, rest) = End
    BY PicOrderTypes, EndStays
  <2> QED BY <1>1, <1>4, <2>5, <2>6
<1>5. CASE q # End /\ s.order = 0
  <2>1. rest = Ue(s.maxOrder) /\ s.maxOrder \in Nat
    BY <1>5, PicOrderTypes DEF PicOrderRest
  <2>2. AfterUE(q) = Behind(q, rest)
    BY <1>1, <2>1, UeReads
  <2>3. AfterPicOrder(p) = AfterUEs(p, 2)
    BY <1>2, <1>5 DEF AfterPicOrder
  <2> QED BY <1>1, <1>3, <2>2, <2>3
<1>6. CASE q # End /\ s.order = 1
  <2> DEFINE a == s.zero
             b == Ues(s.offsets)
             c == Ue(Len(s.cycle))
             d == Ues(s.cycle)
             r == Behind(q, a)
             t == Behind(r, b)
  <2>1. rest = Concat(<<a, b, c, d>>)
    BY <1>6 DEF PicOrderRest
  <2>2. a \in Strings /\ b \in Strings /\ c \in Strings /\ d \in Strings
    BY PicOrderTypes
  <2> HIDE DEF a, b, c, d, rest
  <2>3. /\ r \in 0..End /\ t \in 0..End
        /\ At(q, a) /\ At(r, b) /\ At(t, c) /\ At(Behind(t, c), d)
        /\ Behind(q, rest) = Behind(Behind(t, c), d)
    BY <1>1, <2>1, <2>2, FourRead
  <2>4. SkipBits(q, 1) = r
    BY <1>1, PicOrderTypes, SkipOne DEF a
  <2> HIDE DEF r
  <2>5. AfterUEs(r, 2) = t
    BY <2>3, PicOrderTypes, UesReads DEF b
  <2> HIDE DEF t
  <2>6. AfterUEs(AfterUE(t), ReadUE(t)) = Behind(Behind(t, c), d)
    BY <2>3, PicOrderTypes, CountedRead DEF c, d
  <2>7. AfterPicOrder(p) = AfterUEs(AfterUE(t), ReadUE(t))
    BY <1>2, <1>6, <2>4, <2>5 DEF AfterPicOrder
  <2> QED BY <1>1, <2>3, <2>6, <2>7
<1>7. CASE q # End /\ s.order = 2
  <2>1. rest = <<>>
    BY <1>7 DEF PicOrderRest
  <2>2. Behind(q, <<>>) = q
    BY <1>1, NoBits, SkipFacts DEF Behind
  <2>3. AfterPicOrder(p) = q
    BY <1>2, <1>7 DEF AfterPicOrder
  <2> QED BY <1>1, <2>1, <2>2, <2>3
<1>8. s.order \in 0..2
  BY PicOrderTypes
<1> QED BY <1>4, <1>5, <1>6, <1>7, <1>8

\* The rate behind the flag for a part that ends with the timing.
LEMMA RateBehindFlag ==
    ASSUME BitsOK, NEW p \in 0..End, NEW vui \in BOOLEAN, NEW f, vui => f \in Strings,
           At(p, Optional(vui, f)), NEW read, NEW wanted,
           vui /\ p + 1 \in 0..End /\ At(p + 1, f) =>
               /\ NotFaster(read, wanted)
               /\ p + 1 + Len(f) <= End => read = wanted
    PROVE  LET rate == IF Bit(p) = 0 THEN DEFAULT_FPS ELSE read
               due == IF vui THEN wanted ELSE DEFAULT_FPS
           IN  /\ NotFaster(rate, due)
               /\ p + Len(Optional(vui, f)) <= End => rate = due
<1>1. /\ Optional(vui, f) \in Strings /\ Len(Optional(vui, f)) > 0 /\ Len(Optional(vui, f)) \in Nat
      /\ Optional(vui, f)[1] = (IF vui THEN 1 ELSE 0)
  BY OptionalType, Length
<1>2. p \in Nat /\ End \in Nat
  BY BitType
<1>3. CASE p = End
  <2>1. Bit(p) = 0
    BY <1>2, <1>3, BitType
  <2>2. ~(p + Len(Optional(vui, f)) <= End)
    <3> DEFINE n == Len(Optional(vui, f))
    <3>1. n \in Nat /\ n > 0
      BY <1>1
    <3> HIDE DEF n
    <3>2. ~(p + n <= End)
      BY <1>2, <1>3, <3>1
    <3> QED BY <3>2 DEF n
  <2> QED BY <2>1, <2>2 DEF NotFaster
<1>4. CASE p # End /\ ~vui
  <2>1. Bit(p) = 0
    BY <1>1, <1>4, FirstBit
  <2> QED BY <1>4, <2>1 DEF NotFaster
<1>5. CASE p # End /\ vui
  <2> DEFINE one == <<1>>
             r == p + 1
  <2>1. Bit(p) = 1
    BY <1>1, <1>5, FirstBit
  <2>2. Optional(vui, f) = one \o f /\ f \in Strings
    BY <1>5 DEF Optional
  <2>3. one \in Strings /\ Len(one) = 1
    BY DEF Strings
  <2> HIDE DEF one
  <2>4. Len(Optional(vui, f)) = 1 + Len(f) /\ Len(f) \in Nat
    BY <2>2, <2>3, JoinedLength, Length
  <2>5. Behind(p, one) \in 0..End /\ At(Behind(p, one), f)
    BY <2>2, <2>3, Behinds
  <2>6. Behind(p, one) = r /\ r \in Nat
    BY <1>2, <1>5, <2>3 DEF Behind, SkipBits
  <2>7. NotFaster(read, wanted) /\ (r + Len(f) <= End => read = wanted)
    BY <1>5, <2>5, <2>6
  <2>8. p + Len(Optional(vui, f)) = r + Len(f)
    BY <1>2, <2>4
  <2> HIDE DEF r
  <2>9. p + Len(Optional(vui, f)) <= End => read = wanted
    BY <2>7, <2>8, Zenon
  <2>10. (IF Bit(p) = 0 THEN DEFAULT_FPS ELSE read) = read
    BY <2>1
  <2>11. (IF vui THEN wanted ELSE DEFAULT_FPS) = wanted
    BY <1>5
  <2> QED BY <2>7, <2>9, <2>10, <2>11, Zenon
<1> QED BY <1>3, <1>4, <1>5

LEMMA Description264Reads ==
    ASSUME BitsOK, NEW p \in 0..End, NEW v \in Vui, NEW timing \in Timings,
           At(p, Description(v) \o TimingInfo(timing))
    PROVE  /\ NotFaster(Timing(AfterDescription(p), 2), TimingRate(timing, 2))
           /\ p + Len(Description(v) \o TimingInfo(timing)) <= End =>
                  Timing(AfterDescription(p), 2) = TimingRate(timing, 2)
<1> DEFINE a == Description(v)
           b == TimingInfo(timing)
           q == Behind(p, a)
           two == 2
<1>1. a \in Strings /\ b \in Strings
  BY DescriptionString, TimingString
<1>2. two \in Nat \ {0} /\ p \in Nat /\ End \in Nat
  BY BitType
<1> HIDE DEF a, b, two
<1>3. At(p, a) /\ At(q, b) /\ q \in 0..End /\ Behind(q, b) = Behind(p, a \o b)
  BY <1>1, Behinds DEF a, b
<1>4. AfterDescription(p) = q
  BY <1>3, DescriptionReads DEF a
<1>5. Len(a \o b) = Len(a) + Len(b) /\ Len(a) \in Nat /\ Len(b) \in Nat
  BY <1>1, JoinedLength, Length
<1>6. p + Len(a \o b) <= End => q + Len(b) <= End
  BY <1>2, <1>5 DEF Behind, SkipBits
<1> HIDE DEF q
<1>7. /\ NotFaster(Timing(q, two), TimingRate(timing, two))
      /\ q + Len(b) <= End => Timing(q, two) = TimingRate(timing, two)
  BY <1>2, <1>3, TimingReads DEF b
<1> QED BY <1>4, <1>6, <1>7 DEF a, b, two

\* The elements of an SPS in a row.
Fields264(s) ==
    <<U(8, s.profile), s.level, Ue(s.id),
      IF s.profile \in ChromaProfiles THEN HighFields(s) ELSE <<>>,
      Ue(s.frameNum), PicOrder(s), Ue(s.refFrames), s.gaps, Ues(s.size),
      Flag(s.progressive), IF s.progressive THEN <<>> ELSE s.adaptive, s.direct,
      WindowOf(s.window),
      Optional(s.vui, Description(s.description) \o TimingInfo(s.timing)), s.rest>>

LEMMA Fields264Types ==
    ASSUME BitsOK, NEW s, Is264(s)
    PROVE  /\ U(8, s.profile) \in Strings /\ s.level \in Strings /\ Ue(s.id) \in Strings
           /\ (IF s.profile \in ChromaProfiles THEN HighFields(s) ELSE <<>>) \in Strings
           /\ Ue(s.frameNum) \in Strings /\ PicOrder(s) \in Strings
           /\ Ue(s.refFrames) \in Strings /\ s.gaps \in Strings /\ Ues(s.size) \in Strings
           /\ Flag(s.progressive) \in Strings
           /\ (IF s.progressive THEN <<>> ELSE s.adaptive) \in Strings /\ s.direct \in Strings
           /\ WindowOf(s.window) \in Strings
           /\ Optional(s.vui, Description(s.description) \o TimingInfo(s.timing)) \in Strings
           /\ s.rest \in Strings
<1>1. /\ s.profile \in Word(8) /\ s.level \in Bits(16) /\ s.id \in Nat
      /\ s.frameNum \in Nat /\ s.refFrames \in Nat /\ s.gaps \in Bits(1)
      /\ s.size \in [1..2 -> UeValues] /\ s.progressive \in BOOLEAN /\ s.adaptive \in Bits(1)
      /\ s.direct \in Bits(1) /\ s.window \in Windows /\ s.vui \in BOOLEAN
      /\ s.description \in Vui /\ s.timing \in Timings /\ s.rest \in Seq({0, 1})
  BY UeValuesAre DEF Is264
<1>2. U(8, s.profile) \in Strings
  <2>1. s.profile \in Nat
    BY <1>1 DEF Word
  <2> QED BY <2>1, UType
<1>3. s.level \in Strings /\ s.gaps \in Strings /\ s.adaptive \in Strings /\ s.direct \in Strings
  BY <1>1, BitsType
<1>4. Ue(s.id) \in Strings /\ Ue(s.frameNum) \in Strings /\ Ue(s.refFrames) \in Strings
  BY <1>1, UeType
<1>5. (IF s.profile \in ChromaProfiles THEN HighFields(s) ELSE <<>>) \in Strings
  BY HighReads, NoBits
<1>6. PicOrder(s) \in Strings
  <2>1. /\ PicOrder(s) = Ue(s.order) \o PicOrderRest(s)
        /\ Ue(s.order) \in Strings /\ PicOrderRest(s) \in Strings
    BY PicOrderTypes
  <2> QED BY <2>1, JoinedType
<1>7. Ues(s.size) \in Strings
  BY <1>1, UeNumbers
<1>8. Flag(s.progressive) \in Strings
  BY <1>1, FlagType
<1>9. (IF s.progressive THEN <<>> ELSE s.adaptive) \in Strings
  BY <1>3, NoBits
<1>10. WindowOf(s.window) \in Strings
  <2> DEFINE there == s.window # <<>>
  <2>1. there \in BOOLEAN /\ (there => Ues(s.window) \in Strings)
    BY <1>1, UeNumbers DEF Windows, Option
  <2> HIDE DEF there
  <2>2. Optional(there, Ues(s.window)) \in Strings
    BY <2>1, OptionalType
  <2> QED BY <2>2 DEF WindowOf, there
<1>11. Optional(s.vui, Description(s.description) \o TimingInfo(s.timing)) \in Strings
  <2> DEFINE f == Description(s.description) \o TimingInfo(s.timing)
  <2>1. Description(s.description) \in Strings /\ TimingInfo(s.timing) \in Strings
    BY <1>1, DescriptionString, TimingString
  <2>2. f \in Strings
    BY <2>1, JoinedType
  <2> HIDE DEF f
  <2>3. Optional(s.vui, f) \in Strings
    BY <1>1, <2>2, OptionalType
  <2> QED BY <2>3 DEF f
<1>12. s.rest \in Strings
  BY <1>1 DEF Strings
<1> QED BY <1>2, <1>3, <1>4, <1>5, <1>6, <1>7, <1>8, <1>9, <1>10, <1>11, <1>12

LEMMA Fields264Are ==
    ASSUME BitsOK, NEW s, Is264(s)
    PROVE  /\ Len(Fields264(s)) = 15 /\ \A k \in 1..15 : Fields264(s)[k] \in Strings
           /\ Sps264(s) = Joint(Fields264(s), 15)
<1> DEFINE parts == Fields264(s)
           n == 15
<1>1. Len(parts) = n
  BY DEF Fields264
<1>2. \A k \in 1..15 : k = 1 \/ k = 2 \/ k = 3 \/ k = 4 \/ k = 5 \/ k = 6 \/ k = 7 \/ k = 8
                       \/ k = 9 \/ k = 10 \/ k = 11 \/ k = 12 \/ k = 13 \/ k = 14 \/ k = 15
  OBVIOUS
<1>3. /\ parts[1] \in Strings /\ parts[2] \in Strings /\ parts[3] \in Strings
      /\ parts[4] \in Strings /\ parts[5] \in Strings /\ parts[6] \in Strings
      /\ parts[7] \in Strings /\ parts[8] \in Strings /\ parts[9] \in Strings
      /\ parts[10] \in Strings /\ parts[11] \in Strings /\ parts[12] \in Strings
      /\ parts[13] \in Strings /\ parts[14] \in Strings /\ parts[15] \in Strings
  BY Fields264Types DEF Fields264
<1>4. Sps264(s) = Concat(parts)
  BY DEF Sps264, Fields264
<1> HIDE DEF parts
<1>5. \A k \in 1..n : parts[k] \in Strings
  BY <1>2, <1>3
<1>6. n \in Nat
  OBVIOUS
<1> HIDE DEF n
<1>7. Concat(parts) = Joint(parts, n)
  BY <1>1, <1>5, <1>6, ConcatIsJoint
<1> QED BY <1>1, <1>4, <1>5, <1>7 DEF n, parts

LEMMA Fields264Read ==
    ASSUME BitsOK, NEW s, Is264(s), At(0, Sps264(s))
    PROVE  LET place(k) == Place(0, Fields264(s), k)
           IN  /\ place(0) = 0 /\ \A k \in 0..15 : place(k) \in 0..End
               /\ \A k \in 0..14 : /\ At(place(k), Fields264(s)[k + 1])
                                   /\ place(k + 1) = Behind(place(k), Fields264(s)[k + 1])
               /\ Len(Sps264(s)) <= End =>
                      \A k \in 0..14 : place(k) + Len(Fields264(s)[k + 1]) <= End
<1> DEFINE parts == Fields264(s)
           n == 15
           zero == 0
<1>1. Len(parts) = n /\ (\A k \in 1..n : parts[k] \in Strings) /\ Sps264(s) = Joint(parts, n)
  BY Fields264Are
<1>2. n \in Nat /\ zero \in 0..End /\ n - 1 = 14
  BY BitType
<1>3. At(zero, Joint(parts, n))
  BY <1>1
<1> HIDE DEF parts, n, zero
<1>4. /\ Place(zero, parts, 0) = zero
      /\ \A k \in 0..n : Place(zero, parts, k) \in 0..End
      /\ \A k \in 0..(n - 1) :
             /\ At(Place(zero, parts, k), parts[k + 1])
             /\ Place(zero, parts, k + 1) = Behind(Place(zero, parts, k), parts[k + 1])
  BY <1>1, <1>2, <1>3, RowReads
<1>5. ASSUME Len(Sps264(s)) <= End, NEW k \in 0..(n - 1)
      PROVE  Place(zero, parts, k) + Len(parts[k + 1]) <= End
  <2>1. zero + Len(Joint(parts, n)) <= End
    <3>0. n \in 0..n
      BY <1>2
    <3>1. Joint(parts, n) \in Strings
      BY <1>1, <1>2, <3>0, JointStep
    <3>2. Len(Joint(parts, n)) \in Nat
      BY <3>1, Length
    <3> QED BY <1>1, <1>5, <3>2 DEF zero
  <2> QED BY <1>1, <1>2, <2>1, RowWhole
<1>6. n = 15 /\ zero = 0
  BY DEF n, zero
<1> QED BY <1>2, <1>4, <1>5, <1>6 DEF parts

\* frame_mbs_only_flag and the two behind it.
LEMMA InterlacedReads ==
    ASSUME BitsOK, NEW p \in 0..End, NEW b \in BOOLEAN, NEW a \in Bits(1), NEW d \in Bits(1),
           At(p, Flag(b))
    PROVE  SkipBits(p, IF Bit(p) = 1 THEN 2 ELSE 3)
               = Behind(Behind(Behind(p, Flag(b)), IF b THEN <<>> ELSE a), d)
<1> DEFINE c == IF b THEN <<>> ELSE a
           m == IF b THEN 0 ELSE 1
           q == SkipBits(p, 1)
           r == SkipBits(q, m)
<1>1. /\ Len(Flag(b)) = 1 /\ Flag(b) \in Strings /\ Len(c) = m /\ Len(d) = 1
      /\ Flag(b)[1] = (IF b THEN 1 ELSE 0)
  BY FlagType, BitsType, NoBits
<1>2. p \in Nat /\ End \in Nat
  BY BitType
<1>3. Behind(Behind(Behind(p, Flag(b)), c), d) = SkipBits(r, 1)
  BY <1>1 DEF Behind
<1>4. CASE p = End
  BY <1>2, <1>3, <1>4 DEF SkipBits
<1>5. CASE p # End
  <2>1. Bit(p) = (IF b THEN 1 ELSE 0)
    BY <1>1, <1>5, FirstBit
  <2> QED BY <1>2, <1>3, <2>1 DEF SkipBits
<1> QED BY <1>4, <1>5

LEMMA Vui264Reads ==
    ASSUME BitsOK, NEW s, Is264(s), At(0, Sps264(s)), End >= 24
    PROVE  Vui264 = Place(0, Fields264(s), 13)
<1> DEFINE parts == Fields264(s)
           place(k) == Place(0, parts, k)
<1>1. /\ place(0) = 0 /\ \A k \in 0..15 : place(k) \in 0..End
      /\ \A k \in 0..14 : /\ At(place(k), parts[k + 1])
                          /\ place(k + 1) = Behind(place(k), parts[k + 1])
  BY Fields264Read, Zenon
<1>2. /\ parts[1] = U(8, s.profile) /\ parts[2] = s.level /\ parts[3] = Ue(s.id)
      /\ parts[4] = (IF s.profile \in ChromaProfiles THEN HighFields(s) ELSE <<>>)
      /\ parts[5] = Ue(s.frameNum) /\ parts[6] = PicOrder(s)
      /\ parts[7] = Ue(s.refFrames) /\ parts[8] = s.gaps /\ parts[9] = Ues(s.size)
      /\ parts[10] = Flag(s.progressive)
      /\ parts[11] = (IF s.progressive THEN <<>> ELSE s.adaptive) /\ parts[12] = s.direct
      /\ parts[13] = WindowOf(s.window)
  BY DEF Fields264
<1>3. /\ s.profile \in Word(8) /\ s.profile \in Nat /\ s.level \in Bits(16) /\ s.id \in Nat
      /\ s.frameNum \in Nat /\ s.refFrames \in Nat /\ s.gaps \in Bits(1)
      /\ s.size \in [1..2 -> Nat] /\ s.progressive \in BOOLEAN /\ s.adaptive \in Bits(1)
      /\ s.direct \in Bits(1) /\ s.window \in Option([1..4 -> Nat])
  BY UeValuesAre DEF Is264, Word, Windows, Option
<1>4. End \in Nat
  BY BitType
<1> HIDE DEF parts, place
<1>20. /\ place(0) \in 0..End /\ At(place(0), U(8, s.profile))
       /\ place(1) = Behind(place(0), U(8, s.profile))
  <2>1. 0 \in 0..14 /\ 0 \in 0..15 /\ 0 + 1 = 1
    OBVIOUS
  <2>2. parts[1] = U(8, s.profile)
    BY <1>2
  <2> QED BY <1>1, <2>1, <2>2
<1>21. /\ place(1) \in 0..End /\ At(place(1), s.level)
       /\ place(2) = Behind(place(1), s.level)
  <2>1. 1 \in 0..14 /\ 1 \in 0..15 /\ 1 + 1 = 2
    OBVIOUS
  <2>2. parts[2] = s.level
    BY <1>2
  <2> QED BY <1>1, <2>1, <2>2
<1>22. /\ place(2) \in 0..End /\ At(place(2), Ue(s.id))
       /\ place(3) = Behind(place(2), Ue(s.id))
  <2>1. 2 \in 0..14 /\ 2 \in 0..15 /\ 2 + 1 = 3
    OBVIOUS
  <2>2. parts[3] = Ue(s.id)
    BY <1>2
  <2> QED BY <1>1, <2>1, <2>2
<1>23. /\ place(3) \in 0..End /\ At(place(3), (IF s.profile \in ChromaProfiles THEN HighFields(s) ELSE <<>>))
       /\ place(4) = Behind(place(3), (IF s.profile \in ChromaProfiles THEN HighFields(s) ELSE <<>>))
  <2>1. 3 \in 0..14 /\ 3 \in 0..15 /\ 3 + 1 = 4
    OBVIOUS
  <2>2. parts[4] = (IF s.profile \in ChromaProfiles THEN HighFields(s) ELSE <<>>)
    BY <1>2
  <2> QED BY <1>1, <2>1, <2>2
<1>24. /\ place(4) \in 0..End /\ At(place(4), Ue(s.frameNum))
       /\ place(5) = Behind(place(4), Ue(s.frameNum))
  <2>1. 4 \in 0..14 /\ 4 \in 0..15 /\ 4 + 1 = 5
    OBVIOUS
  <2>2. parts[5] = Ue(s.frameNum)
    BY <1>2
  <2> QED BY <1>1, <2>1, <2>2
<1>25. /\ place(5) \in 0..End /\ At(place(5), PicOrder(s))
       /\ place(6) = Behind(place(5), PicOrder(s))
  <2>1. 5 \in 0..14 /\ 5 \in 0..15 /\ 5 + 1 = 6
    OBVIOUS
  <2>2. parts[6] = PicOrder(s)
    BY <1>2
  <2> QED BY <1>1, <2>1, <2>2
<1>26. /\ place(6) \in 0..End /\ At(place(6), Ue(s.refFrames))
       /\ place(7) = Behind(place(6), Ue(s.refFrames))
  <2>1. 6 \in 0..14 /\ 6 \in 0..15 /\ 6 + 1 = 7
    OBVIOUS
  <2>2. parts[7] = Ue(s.refFrames)
    BY <1>2
  <2> QED BY <1>1, <2>1, <2>2
<1>27. /\ place(7) \in 0..End /\ At(place(7), s.gaps)
       /\ place(8) = Behind(place(7), s.gaps)
  <2>1. 7 \in 0..14 /\ 7 \in 0..15 /\ 7 + 1 = 8
    OBVIOUS
  <2>2. parts[8] = s.gaps
    BY <1>2
  <2> QED BY <1>1, <2>1, <2>2
<1>28. /\ place(8) \in 0..End /\ At(place(8), Ues(s.size))
       /\ place(9) = Behind(place(8), Ues(s.size))
  <2>1. 8 \in 0..14 /\ 8 \in 0..15 /\ 8 + 1 = 9
    OBVIOUS
  <2>2. parts[9] = Ues(s.size)
    BY <1>2
  <2> QED BY <1>1, <2>1, <2>2
<1>29. /\ place(9) \in 0..End /\ At(place(9), Flag(s.progressive))
       /\ place(10) = Behind(place(9), Flag(s.progressive))
  <2>1. 9 \in 0..14 /\ 9 \in 0..15 /\ 9 + 1 = 10
    OBVIOUS
  <2>2. parts[10] = Flag(s.progressive)
    BY <1>2
  <2> QED BY <1>1, <2>1, <2>2
<1>30. /\ place(10) \in 0..End /\ At(place(10), (IF s.progressive THEN <<>> ELSE s.adaptive))
       /\ place(11) = Behind(place(10), (IF s.progressive THEN <<>> ELSE s.adaptive))
  <2>1. 10 \in 0..14 /\ 10 \in 0..15 /\ 10 + 1 = 11
    OBVIOUS
  <2>2. parts[11] = (IF s.progressive THEN <<>> ELSE s.adaptive)
    BY <1>2
  <2> QED BY <1>1, <2>1, <2>2
<1>31. /\ place(11) \in 0..End /\ At(place(11), s.direct)
       /\ place(12) = Behind(place(11), s.direct)
  <2>1. 11 \in 0..14 /\ 11 \in 0..15 /\ 11 + 1 = 12
    OBVIOUS
  <2>2. parts[12] = s.direct
    BY <1>2
  <2> QED BY <1>1, <2>1, <2>2
<1>32. /\ place(12) \in 0..End /\ At(place(12), WindowOf(s.window))
       /\ place(13) = Behind(place(12), WindowOf(s.window))
  <2>1. 12 \in 0..14 /\ 12 \in 0..15 /\ 12 + 1 = 13
    OBVIOUS
  <2>2. parts[13] = WindowOf(s.window)
    BY <1>2
  <2> QED BY <1>1, <2>1, <2>2
<1>8. place(2) = 24 /\ ReadBits(0, 8) = s.profile
  <2> DEFINE eight == 8
             zero == 0
             u == U(eight, s.profile)
             level == s.level
  <2>1. Len(level) = 16
    BY <1>3, BitsType
  <2>2. /\ eight \in Nat /\ zero \in Nat /\ zero + eight <= End /\ s.profile \in Word(eight)
        /\ At(zero, u) /\ place(1) = Behind(zero, u) /\ place(2) = Behind(place(1), level)
    BY <1>1, <1>3, <1>4, <1>20, <1>21
  <2>3. eight = 8 /\ zero = 0
    OBVIOUS
  <2> HIDE DEF eight, zero, level
  <2>4. ReadBits(zero, eight) = s.profile
    BY <2>2, UReads
  <2>5. Len(u) = eight
    BY <1>3, <2>2, UType
  <2> HIDE DEF u
  <2>6. place(1) = SkipBits(0, 8)
    BY <2>2, <2>3, <2>5 DEF Behind
  <2>7. place(2) = SkipBits(place(1), 16)
    BY <2>1, <2>2 DEF Behind
  <2>8. SkipBits(0, 8) = 8 /\ SkipBits(8, 16) = 24
    BY <1>4 DEF SkipBits
  <2> QED BY <2>3, <2>4, <2>6, <2>7, <2>8
<1>9. AfterUE(24) = place(3)
  BY <1>3, <1>8, <1>22, UeReads
<1>10. (IF ReadBits(0, 8) \in HighProfiles THEN AfterChroma(place(3)) ELSE place(3)) = place(4)
  <2>1. HighProfiles = ChromaProfiles
    BY DEF HighProfiles, ChromaProfiles
  <2>2. CASE s.profile \in ChromaProfiles
    <3>1. AfterChroma(place(3)) = place(4)
      BY <1>23, <2>2, HighReads
    <3> QED BY <1>8, <2>1, <2>2, <3>1
  <2>3. CASE s.profile \notin ChromaProfiles
    <3>1. place(4) = SkipBits(place(3), 0)
      BY <1>23, <2>3, NoBits DEF Behind
    <3>2. place(4) = place(3)
      BY <1>23, <3>1, SkipFacts
    <3> QED BY <1>8, <2>1, <2>3, <3>2
  <2> QED BY <2>2, <2>3
<1>11. AfterUE(place(4)) = place(5)
  BY <1>3, <1>24, UeReads
<1>12. AfterPicOrder(place(5)) = place(6)
  BY <1>25, PicOrderReads
<1>13. AfterUE(place(6)) = place(7)
  BY <1>3, <1>26, UeReads
<1>14. SkipBits(place(7), 1) = place(8)
  BY <1>3, <1>27, SkipOne
<1>15. AfterUEs(place(8), 2) = place(9)
  <2> DEFINE two == 2
  <2>1. two \in Nat /\ s.size \in [1..two -> Nat]
    BY <1>3
  <2> HIDE DEF two
  <2>2. AfterUEs(place(8), two) = place(9)
    BY <1>28, <2>1, UesReads
  <2> QED BY <2>2 DEF two
<1>16. SkipBits(place(9), IF Bit(place(9)) = 1 THEN 2 ELSE 3) = place(12)
  <2>1. place(12) = Behind(Behind(Behind(place(9), Flag(s.progressive)),
                                  IF s.progressive THEN <<>> ELSE s.adaptive), s.direct)
    BY <1>29, <1>30, <1>31
  <2> DEFINE p == place(9)
             b == s.progressive
             a == s.adaptive
             d == s.direct
  <2>2. p \in 0..End /\ At(p, Flag(b)) /\ b \in BOOLEAN /\ a \in Bits(1) /\ d \in Bits(1)
    BY <1>3, <1>29
  <2> HIDE DEF p, a, b, d
  <2>3. SkipBits(p, IF Bit(p) = 1 THEN 2 ELSE 3)
            = Behind(Behind(Behind(p, Flag(b)), IF b THEN <<>> ELSE a), d)
    BY <2>2, InterlacedReads
  <2> QED BY <2>1, <2>3 DEF p, a, b, d
<1>17. AfterOption(place(12), AfterUEs(place(12) + 1, 4)) = place(13)
  <2>1. WindowOf(s.window) = Optional(s.window # <<>>, Ues(s.window))
    BY DEF WindowOf
  <2> DEFINE four == 4
  <2>2. four \in Nat /\ s.window \in Option([1..four -> Nat])
    BY <1>3
  <2> HIDE DEF four
  <2>3. AfterOption(place(12), AfterUEs(place(12) + 1, four)) = Behind(place(12), WindowOf(s.window))
    BY <1>32, <2>1, <2>2, NumbersRead
  <2> QED BY <1>32, <2>3 DEF four
<1>18. Vui264 = AfterOption(place(12), AfterUEs(place(12) + 1, 4))
  BY <1>9, <1>10, <1>11, <1>12, <1>13, <1>14, <1>15, <1>16 DEF Vui264
<1> QED BY <1>17, <1>18 DEF place, parts

\* The rate an SPS has, if its frames have this many ticks.
RateOf(s, ticks) == IF s.vui THEN TimingRate(s.timing, ticks) ELSE DEFAULT_FPS

\* ParseH264Fps gives the rate of every SPS that Is264 describes, wherever its
\* lists and options put it and whatever is behind; if the bits end before the
\* SPS does, it gives a rate that is not higher, or the default.
THEOREM Sps264Reads ==
    ASSUME BitsOK, NEW s, Is264(s), At(0, Sps264(s)), End >= 24
    PROVE  /\ NotFaster(ParseH264Fps, RateOf(s, 2))
           /\ Len(Sps264(s)) <= End => ParseH264Fps = RateOf(s, 2)
<1> DEFINE parts == Fields264(s)
           p == Place(0, parts, 13)
           f == Description(s.description) \o TimingInfo(s.timing)
           read == Timing(AfterDescription(p + 1), 2)
           wanted == TimingRate(s.timing, 2)
<1>1. p \in 0..End /\ At(p, parts[14]) /\ (Len(Sps264(s)) <= End => p + Len(parts[14]) <= End)
  <2>1. /\ \A k \in 0..15 : Place(0, parts, k) \in 0..End
        /\ \A k \in 0..14 : At(Place(0, parts, k), parts[k + 1])
        /\ Len(Sps264(s)) <= End => \A k \in 0..14 : Place(0, parts, k) + Len(parts[k + 1]) <= End
    BY Fields264Read, Zenon
  <2> HIDE DEF parts
  <2> QED BY <2>1
<1>2. parts[14] = Optional(s.vui, f)
  BY DEF Fields264
<1>3. Vui264 = p
  BY Vui264Reads
<1> HIDE DEF p, parts
<1>4. s.vui \in BOOLEAN /\ s.description \in Vui /\ s.timing \in Timings
  BY DEF Is264
<1>5. f \in Strings
  BY <1>4, DescriptionString, TimingString, JoinedType
<1>6. ASSUME p + 1 \in 0..End, At(p + 1, f)
      PROVE  NotFaster(read, wanted) /\ (p + 1 + Len(f) <= End => read = wanted)
  <2> DEFINE r == p + 1
  <2>1. r \in 0..End /\ At(r, f)
    BY <1>6
  <2> HIDE DEF r
  <2>2. /\ NotFaster(Timing(AfterDescription(r), 2), wanted)
        /\ r + Len(f) <= End => Timing(AfterDescription(r), 2) = wanted
    BY <1>4, <2>1, Description264Reads
  <2> QED BY <2>2 DEF r
<1>7. ParseH264Fps = (IF Bit(p) = 0 THEN DEFAULT_FPS ELSE read)
  BY <1>3 DEF ParseH264Fps
<1> DEFINE vui == s.vui
<1> HIDE DEF read, wanted, f, vui
<1>8. /\ NotFaster(IF Bit(p) = 0 THEN DEFAULT_FPS ELSE read, IF vui THEN wanted ELSE DEFAULT_FPS)
      /\ p + Len(Optional(vui, f)) <= End =>
             (IF Bit(p) = 0 THEN DEFAULT_FPS ELSE read) = (IF vui THEN wanted ELSE DEFAULT_FPS)
  <2>1. vui \in BOOLEAN /\ At(p, Optional(vui, f)) /\ p \in 0..End
    BY <1>1, <1>2, <1>4 DEF vui
  <2> QED BY <1>5, <1>6, <2>1, RateBehindFlag
<1>9. RateOf(s, 2) = (IF vui THEN wanted ELSE DEFAULT_FPS)
  BY DEF RateOf, wanted, vui
<1> QED BY <1>1, <1>2, <1>7, <1>8, <1>9 DEF vui

----------------------------------------------------------------------------
(* H.265: sub-layers.                                                      *)

\* The members of S up to k.
Among(S, k) == Cardinality({j \in 1..k : j \in S})

LEMMA AmongStep ==
    ASSUME NEW S, NEW k \in Nat
    PROVE  /\ Among(S, 0) = 0 /\ Among(S, k) \in Nat
           /\ Among(S, k + 1) = Among(S, k) + (IF k + 1 \in S THEN 1 ELSE 0)
<1> DEFINE T == {j \in 1..k : j \in S}
           W == {j \in 1..(k + 1) : j \in S}
<1>1. IsFiniteSet(T) /\ Cardinality(T) \in Nat
  <2>1. IsFiniteSet(1..k)
    BY FS_Interval
  <2>2. T \subseteq 1..k
    OBVIOUS
  <2> HIDE DEF T
  <2> QED BY <2>1, <2>2, FS_Subset, FS_CardinalityType
<1>2. {j \in 1..0 : j \in S} = {}
  OBVIOUS
<1>3. Among(S, 0) = 0
  BY <1>2, FS_EmptySet DEF Among
<1>6. Among(S, k) = Cardinality(T) /\ Among(S, k + 1) = Cardinality(W)
  BY DEF Among
<1>4. CASE k + 1 \in S
  <2>1. W = T \cup {k + 1} /\ k + 1 \notin T
    BY <1>4
  <2> HIDE DEF T, W
  <2>2. Cardinality(W) = Cardinality(T) + 1
    BY <1>1, <2>1, FS_AddElement
  <2> QED BY <1>1, <1>3, <1>4, <1>6, <2>2 DEF T, W
<1>5. CASE k + 1 \notin S
  <2>1. W = T
    BY <1>5
  <2> HIDE DEF T, W
  <2>2. Among(S, k + 1) = Among(S, k) /\ Among(S, k) \in Nat
    BY <1>1, <1>6, <2>1 DEF T, W
  <2>3. Among(S, k) + 0 = Among(S, k)
    BY <2>2
  <2> QED BY <1>3, <1>5, <2>2, <2>3
<1> QED BY <1>4, <1>5

\* Parts of two bits each.
LEMMA PairsLength ==
    ASSUME NEW n \in Nat, NEW parts, \A k \in 1..n : parts[k] \in Strings /\ Len(parts[k]) = 2
    PROVE  \A k \in 0..n : Len(Joint(parts, k)) = 2 * k
<1> DEFINE T == {k \in Nat : Len(Joint(parts, k)) = 2 * k}
<1>1. /\ Joint(parts, 0) = <<>>
      /\ \A k \in 0..n : Joint(parts, k) \in Strings
      /\ \A k \in 0..(n - 1) : Joint(parts, k + 1) = Joint(parts, k) \o parts[k + 1]
  BY JointStep
<1>2. 0 \in T
  BY <1>1, NoBits
<1>3. \A k \in 0..(n - 1) : k \in T => k + 1 \in T
  <2> SUFFICES ASSUME NEW k \in 0..(n - 1), k \in T PROVE k + 1 \in T
    OBVIOUS
  <2>1. k \in 0..n /\ k + 1 \in 1..n /\ k + 1 \in Nat /\ k \in Nat
    OBVIOUS
  <2> DEFINE a == Joint(parts, k)
             b == parts[k + 1]
  <2>2. a \in Strings /\ b \in Strings /\ Len(b) = 2 /\ Joint(parts, k + 1) = a \o b /\ Len(a) = 2 * k
    BY <1>1, <2>1
  <2> HIDE DEF a, b
  <2>3. Len(a \o b) = Len(a) + Len(b)
    BY <2>2, JoinedLength
  <2> QED BY <2>1, <2>2, <2>3
<1> HIDE DEF T
<1>4. \A k \in 0..n : k \in T
  BY <1>2, <1>3, UpToInduction
<1> QED BY <1>4 DEF T

\* Parts of 88 bits for a member of S and 8 for one of R.
LEMMA LayersLength ==
    ASSUME NEW n \in Nat, NEW parts, NEW S, NEW R,
           \A k \in 1..n : /\ parts[k] \in Strings
                           /\ Len(parts[k]) = (IF k \in S THEN 88 ELSE 0) + (IF k \in R THEN 8 ELSE 0)
    PROVE  Len(Joint(parts, n)) = 88 * Among(S, n) + 8 * Among(R, n)
<1> DEFINE T == {k \in Nat : Len(Joint(parts, k)) = 88 * Among(S, k) + 8 * Among(R, k)}
<1>1. /\ Joint(parts, 0) = <<>>
      /\ \A k \in 0..n : Joint(parts, k) \in Strings
      /\ \A k \in 0..(n - 1) : Joint(parts, k + 1) = Joint(parts, k) \o parts[k + 1]
  BY JointStep
<1>2. 0 \in T
  <2>1. Among(S, 0) = 0 /\ Among(R, 0) = 0
    BY AmongStep
  <2> QED BY <1>1, <2>1, NoBits
<1>3. \A k \in 0..(n - 1) : k \in T => k + 1 \in T
  <2> SUFFICES ASSUME NEW k \in 0..(n - 1), k \in T PROVE k + 1 \in T
    OBVIOUS
  <2>1. k \in 0..n /\ k + 1 \in 1..n /\ k + 1 \in Nat /\ k \in Nat
    OBVIOUS
  <2> DEFINE a == Joint(parts, k)
             b == parts[k + 1]
             x == Among(S, k)
             y == Among(R, k)
             inS == k + 1 \in S
             inR == k + 1 \in R
  <2>2. /\ a \in Strings /\ b \in Strings /\ Joint(parts, k + 1) = a \o b
        /\ Len(b) = (IF inS THEN 88 ELSE 0) + (IF inR THEN 8 ELSE 0)
        /\ Len(a) = 88 * x + 8 * y
    BY <1>1, <2>1
  <2>3. /\ x \in Nat /\ Among(S, k + 1) = x + (IF inS THEN 1 ELSE 0)
        /\ y \in Nat /\ Among(R, k + 1) = y + (IF inR THEN 1 ELSE 0)
    BY <2>1, AmongStep
  <2> HIDE DEF a, b, x, y, inS, inR
  <2>4. Len(a \o b) = Len(a) + Len(b)
    BY <2>2, JoinedLength
  <2>5. Len(a \o b) = 88 * Among(S, k + 1) + 8 * Among(R, k + 1)
    BY <2>2, <2>3, <2>4
  <2> QED BY <2>1, <2>2, <2>5
<1> HIDE DEF T
<1>4. \A k \in 0..n : k \in T
  BY <1>2, <1>3, UpToInduction
<1>5. n \in 0..n
  OBVIOUS
<1> QED BY <1>4, <1>5 DEF T

\* Bits of pairs, if none of them is behind the end.
LEMMA PairsRead ==
    ASSUME BitsOK, NEW n \in Nat, NEW parts,
           \A k \in 1..n : parts[k] \in Strings /\ Len(parts[k]) = 2,
           NEW p \in 0..End, At(p, Joint(parts, n)), p + 2 * n <= End
    PROVE  \A k \in 1..n : /\ Bit(p + 2 * (k - 1)) = parts[k][1]
                           /\ Bit(p + 1 + 2 * (k - 1)) = parts[k][2]
<1> SUFFICES ASSUME NEW k \in 1..n
             PROVE  /\ Bit(p + 2 * (k - 1)) = parts[k][1]
                    /\ Bit(p + 1 + 2 * (k - 1)) = parts[k][2]
  OBVIOUS
<1> DEFINE j == k - 1
           q == p + 2 * j
           e == parts[k]
<1>1. j \in 0..(n - 1) /\ j + 1 = k /\ j \in 0..n /\ p \in Nat /\ End \in Nat /\ j \in Nat
  BY BitType
<1>2. q \in Nat /\ q + 2 <= End
  BY <1>1
<1> HIDE DEF j
<1>3. \A m \in 0..(n - 1) : At(Place(p, parts, m), parts[m + 1])
  BY RowReads
<1>4. At(Place(p, parts, j), e) /\ Len(e) = 2
  BY <1>1, <1>3
<1>5. Len(Joint(parts, j)) = 2 * j
  BY <1>1, PairsLength
<1>6. Place(p, parts, j) = q
  BY <1>1, <1>2, <1>5 DEF Place, Behind, SkipBits
<1> HIDE DEF q, e
<1>7. bits[q + 1] = e[1] /\ bits[q + 2] = e[2]
  BY <1>1, <1>2, <1>4, <1>6 DEF At
<1>8. Bit(q) = e[1] /\ Bit(q + 1) = e[2]
  BY <1>1, <1>2, <1>7 DEF Bit
<1>9. p + 2 * (k - 1) = q /\ p + 1 + 2 * (k - 1) = q + 1
  BY <1>1 DEF q, j
<1> QED BY <1>8, <1>9 DEF e

LEMMA OptionBits ==
    ASSUME NEW n \in Nat, NEW s \in Option(Bits(n))
    PROVE  s \in Strings /\ Len(s) = (IF s # <<>> THEN n ELSE 0)
<1>1. CASE s = <<>>
  BY <1>1, NoBits
<1>2. CASE s # <<>>
  <2>1. s \in Bits(n)
    BY <1>2 DEF Option
  <2> QED BY <1>2, <2>1, BitsType
<1> QED BY <1>1, <1>2

LEMMA FlagPair ==
    ASSUME NEW a \in BOOLEAN, NEW b \in BOOLEAN
    PROVE  /\ Flag(a) \o Flag(b) \in Strings /\ Len(Flag(a) \o Flag(b)) = 2
           /\ (Flag(a) \o Flag(b))[1] = (IF a THEN 1 ELSE 0)
           /\ (Flag(a) \o Flag(b))[2] = (IF b THEN 1 ELSE 0)
<1> DEFINE x == Flag(a)
           y == Flag(b)
<1>1. x \in Strings /\ Len(x) = 1 /\ x[1] = (IF a THEN 1 ELSE 0)
  BY FlagType
<1>2. y \in Strings /\ Len(y) = 1 /\ y[1] = (IF b THEN 1 ELSE 0)
  BY FlagType
<1> HIDE DEF x, y
<1>3. /\ x \o y \in Strings /\ Len(x \o y) = Len(x) + Len(y)
      /\ \A k \in 1..Len(x) : (x \o y)[k] = x[k]
      /\ \A k \in 1..Len(y) : (x \o y)[Len(x) + k] = y[k]
  BY <1>1, <1>2, Joined
<1>4. (x \o y)[1] = x[1] /\ (x \o y)[2] = y[1]
  BY <1>1, <1>2, <1>3
<1> QED BY <1>1, <1>2, <1>3, <1>4 DEF x, y

\* The flags of the sub-layers, and what they announce.
LayerFlags(layers) ==
    [k \in 1..Len(layers) |-> Flag(layers[k].profile # <<>>) \o Flag(layers[k].level # <<>>)]
LayerLevels(layers) == [k \in 1..Len(layers) |-> layers[k].profile \o layers[k].level]
WithProfile(layers) == {k \in 1..Len(layers) : layers[k].profile # <<>>}
WithLevel(layers) == {k \in 1..Len(layers) : layers[k].level # <<>>}

LEMMA LayersAre ==
    ASSUME NEW layers \in UpTo(6, Layers)
    PROVE  /\ Len(layers) \in 0..6
           /\ Len(LayerFlags(layers)) = Len(layers) /\ Len(LayerLevels(layers)) = Len(layers)
           /\ \A k \in 1..Len(layers) :
                  /\ LayerFlags(layers)[k] \in Strings /\ Len(LayerFlags(layers)[k]) = 2
                  /\ LayerFlags(layers)[k][1] = (IF k \in WithProfile(layers) THEN 1 ELSE 0)
                  /\ LayerFlags(layers)[k][2] = (IF k \in WithLevel(layers) THEN 1 ELSE 0)
                  /\ LayerLevels(layers)[k] \in Strings
                  /\ Len(LayerLevels(layers)[k]) = (IF k \in WithProfile(layers) THEN 88 ELSE 0)
                                                   + (IF k \in WithLevel(layers) THEN 8 ELSE 0)
<1> DEFINE n == Len(layers)
<1>1. layers \in Seq(Layers) /\ n <= 6
  BY DEF UpTo
<1>2. n \in Nat /\ \A k \in 1..n : layers[k] \in Layers
  BY <1>1, Sequence
<1>3. n \in 0..6
  <2> HIDE DEF n
  <2> QED BY <1>1, <1>2
<1>4. Len(LayerFlags(layers)) = n /\ Len(LayerLevels(layers)) = n
  BY <1>2 DEF LayerFlags, LayerLevels
<1>5. ASSUME NEW k \in 1..n
      PROVE  /\ LayerFlags(layers)[k] \in Strings /\ Len(LayerFlags(layers)[k]) = 2
             /\ LayerFlags(layers)[k][1] = (IF k \in WithProfile(layers) THEN 1 ELSE 0)
             /\ LayerFlags(layers)[k][2] = (IF k \in WithLevel(layers) THEN 1 ELSE 0)
             /\ LayerLevels(layers)[k] \in Strings
             /\ Len(LayerLevels(layers)[k]) = (IF k \in WithProfile(layers) THEN 88 ELSE 0)
                                              + (IF k \in WithLevel(layers) THEN 8 ELSE 0)
  <2> DEFINE a == layers[k].profile
             b == layers[k].level
             x == a # <<>>
             y == b # <<>>
             c == 88
             d == 8
  <2>1. a \in Option(Bits(88)) /\ b \in Option(Bits(8))
    BY <1>2 DEF Layers
  <2>2. /\ LayerFlags(layers)[k] = Flag(x) \o Flag(y) /\ LayerLevels(layers)[k] = a \o b
        /\ k \in WithProfile(layers) <=> x
        /\ k \in WithLevel(layers) <=> y
        /\ x \in BOOLEAN /\ y \in BOOLEAN
    BY DEF LayerFlags, LayerLevels, WithProfile, WithLevel
  <2>3. a \in Strings /\ Len(a) = (IF x THEN 88 ELSE 0)
    <3>1. c \in Nat /\ a \in Option(Bits(c))
      BY <2>1
    <3> HIDE DEF a, c
    <3>2. a \in Strings /\ Len(a) = (IF a # <<>> THEN c ELSE 0)
      BY <3>1, OptionBits
    <3> QED BY <3>2 DEF c
  <2>4. b \in Strings /\ Len(b) = (IF y THEN 8 ELSE 0)
    <3>1. d \in Nat /\ b \in Option(Bits(d))
      BY <2>1
    <3> HIDE DEF b, d
    <3>2. b \in Strings /\ Len(b) = (IF b # <<>> THEN d ELSE 0)
      BY <3>1, OptionBits
    <3> QED BY <3>2 DEF d
  <2> HIDE DEF a, b, x, y
  <2>5. a \o b \in Strings /\ Len(a \o b) = Len(a) + Len(b)
    BY <2>3, <2>4, JoinedType, JoinedLength
  <2>6. /\ Flag(x) \o Flag(y) \in Strings /\ Len(Flag(x) \o Flag(y)) = 2
        /\ (Flag(x) \o Flag(y))[1] = (IF x THEN 1 ELSE 0)
        /\ (Flag(x) \o Flag(y))[2] = (IF y THEN 1 ELSE 0)
    BY <2>2, FlagPair
  <2>7. Len(a \o b) = (IF x THEN 88 ELSE 0) + (IF y THEN 8 ELSE 0)
    BY <2>3, <2>4, <2>5
  <2> QED BY <2>2, <2>5, <2>6, <2>7
<1> QED BY <1>3, <1>4, <1>5

LEMMA SubLayersForm ==
    ASSUME NEW layers \in UpTo(6, Layers), Len(layers) # 0
    PROVE  LET n == Len(layers)
               a == Joint(LayerFlags(layers), n)
               z == ZeroBits(2 * (8 - n))
               g == Joint(LayerLevels(layers), n)
           IN  /\ SubLayers(layers) = (a \o z) \o g
               /\ a \in Strings /\ z \in Strings /\ g \in Strings
               /\ Len(a) = 2 * n /\ Len(z) = 16 - 2 * n
               /\ Len(g) = 88 * Among(WithProfile(layers), n) + 8 * Among(WithLevel(layers), n)
<1> DEFINE n == Len(layers)
           flags == LayerFlags(layers)
           levels == LayerLevels(layers)
           S == WithProfile(layers)
           R == WithLevel(layers)
           a == Joint(flags, n)
           z == ZeroBits(2 * (8 - n))
           g == Joint(levels, n)
<1>1. /\ n \in 0..6 /\ Len(flags) = n /\ Len(levels) = n
      /\ \A k \in 1..n : /\ flags[k] \in Strings /\ Len(flags[k]) = 2
                         /\ levels[k] \in Strings
                         /\ Len(levels[k]) = (IF k \in S THEN 88 ELSE 0) + (IF k \in R THEN 8 ELSE 0)
  BY LayersAre
<1>2. SubLayers(layers) = Concat(flags) \o z \o Concat(levels)
  BY DEF SubLayers, LayerFlags, LayerLevels, ZeroBits
<1> HIDE DEF n, flags, levels, S, R
<1>3. n \in Nat /\ n \in 0..n /\ 2 * (8 - n) \in Nat
  BY <1>1
<1>4. /\ Concat(flags) = a /\ a \in Strings
      /\ Concat(levels) = g /\ g \in Strings
  BY <1>1, <1>3, ConcatIsJoint
<1>5. Len(a) = 2 * n
  BY <1>1, <1>3, PairsLength
<1>6. Len(g) = 88 * Among(S, n) + 8 * Among(R, n)
  <2>1. \A k \in 1..n : /\ levels[k] \in Strings
                         /\ Len(levels[k]) = (IF k \in S THEN 88 ELSE 0) + (IF k \in R THEN 8 ELSE 0)
    BY <1>1
  <2>2. Len(Joint(levels, n)) = 88 * Among(S, n) + 8 * Among(R, n)
    BY <1>3, <2>1, LayersLength, Zenon
  <2> QED BY <2>2
<1>7. z \in Strings /\ Len(z) = 2 * (8 - n)
  BY <1>3, ZeroBitsType
<1>8. 2 * (8 - n) = 16 - 2 * n
  BY <1>3
<1> QED BY <1>2, <1>4, <1>5, <1>6, <1>7, <1>8 DEF n, flags, levels, S, R

LEMMA SubLayersString ==
    ASSUME NEW layers \in UpTo(6, Layers)
    PROVE  SubLayers(layers) \in Strings
<1>1. CASE Len(layers) = 0
  BY <1>1, NoBits DEF SubLayers
<1>2. CASE Len(layers) # 0
  <2> DEFINE n == Len(layers)
             a == Joint(LayerFlags(layers), n)
             z == ZeroBits(2 * (8 - n))
             g == Joint(LayerLevels(layers), n)
  <2>1. SubLayers(layers) = (a \o z) \o g /\ a \in Strings /\ z \in Strings /\ g \in Strings
    BY <1>2, SubLayersForm, Zenon
  <2> HIDE DEF a, z, g
  <2>2. a \o z \in Strings
    BY <2>1, JoinedType
  <2> QED BY <2>1, <2>2, JoinedType
<1> QED BY <1>1, <1>2

LEMMA ProfileBehindEnd ==
    ASSUME BitsOK, NEW n \in Nat, n # 0, End <= 120
    PROVE  AfterProfile(n) = End
<1> DEFINE X == {k \in 1..n : Bit(104 + 2 * (k - 1)) = 1}
           Y == {k \in 1..n : Bit(105 + 2 * (k - 1)) = 1}
           m == 88 * Cardinality(X) + 8 * Cardinality(Y)
<1>1. AfterProfile(n) = SkipBits(120, m)
  BY DEF AfterProfile
<1>2. Cardinality(X) \in Nat /\ Cardinality(Y) \in Nat
  <2>1. IsFiniteSet(1..n)
    BY FS_Interval
  <2>2. X \subseteq 1..n /\ Y \subseteq 1..n
    OBVIOUS
  <2> HIDE DEF X, Y
  <2> QED BY <2>1, <2>2, FS_Subset, FS_CardinalityType
<1> HIDE DEF X, Y
<1>3. m \in Nat
  BY <1>2
<1> HIDE DEF m
<1>4. End \in Nat
  BY BitType
<1> QED BY <1>1, <1>3, <1>4 DEF SkipBits

LEMMA SubLayersRead ==
    ASSUME BitsOK, NEW layers \in UpTo(6, Layers), 104 <= End, At(104, SubLayers(layers))
    PROVE  AfterProfile(Len(layers)) = Behind(104, SubLayers(layers))
<1> DEFINE n == Len(layers)
           flags == LayerFlags(layers)
           S == WithProfile(layers)
           R == WithLevel(layers)
           a == Joint(flags, n)
           z == ZeroBits(2 * (8 - n))
           g == Joint(LayerLevels(layers), n)
           p == 104
           m == 88 * Among(S, n) + 8 * Among(R, n)
<1>1. /\ n \in 0..6 /\ n \in Nat
      /\ \A k \in 1..n : /\ flags[k] \in Strings /\ Len(flags[k]) = 2
                         /\ flags[k][1] = (IF k \in S THEN 1 ELSE 0)
                         /\ flags[k][2] = (IF k \in R THEN 1 ELSE 0)
  <2>1. Len(layers) \in 0..6
    BY LayersAre
  <2> HIDE DEF S, R, flags
  <2>2. \A k \in 1..n : /\ flags[k] \in Strings /\ Len(flags[k]) = 2
                        /\ flags[k][1] = (IF k \in S THEN 1 ELSE 0)
                        /\ flags[k][2] = (IF k \in R THEN 1 ELSE 0)
    BY LayersAre DEF S, R, flags
  <2> HIDE DEF n
  <2>3. n \in 0..6
    BY <2>1 DEF n
  <2> QED BY <2>2, <2>3
<1>2. End \in Nat /\ p \in 0..End /\ p \in Nat
  BY BitType
<1>3. CASE n = 0
  <2>1. SubLayers(layers) = <<>> /\ AfterProfile(n) = SkipBits(104, 0)
    BY <1>3 DEF SubLayers, AfterProfile
  <2>2. Len(<<>>) = 0
    BY NoBits
  <2> QED BY <2>1, <2>2 DEF Behind
<1>4. CASE n # 0
  <2>1. /\ SubLayers(layers) = (a \o z) \o g
        /\ a \in Strings /\ z \in Strings /\ g \in Strings
        /\ Len(a) = 2 * n /\ Len(z) = 16 - 2 * n /\ Len(g) = m
    BY <1>4, SubLayersForm, Zenon
  <2>2. Among(S, n) \in Nat /\ Among(R, n) \in Nat
    BY <1>1, AmongStep
  <2>3. m \in Nat
    BY <2>2
  <2> HIDE DEF n, a, z, g, S, R, flags
  <2>4. Len(SubLayers(layers)) = 16 + m
    <3>1. a \o z \in Strings /\ Len(a \o z) = Len(a) + Len(z)
      BY <2>1, JoinedType, JoinedLength
    <3>2. Len((a \o z) \o g) = Len(a \o z) + Len(g)
      BY <2>1, <3>1, JoinedLength
    <3> HIDE DEF m
    <3> QED BY <1>1, <2>1, <2>3, <3>1, <3>2
  <2>5. Behind(104, SubLayers(layers)) = SkipBits(104, 16 + m)
    BY <2>4 DEF Behind
  <2>6. CASE End <= 120
    <3>1. AfterProfile(n) = End
      BY <1>1, <1>4, <2>6, ProfileBehindEnd
    <3>2. SkipBits(104, 16 + m) = End
      <4> HIDE DEF m
      <4> QED BY <1>2, <2>3, <2>6 DEF SkipBits
    <3> QED BY <2>5, <3>1, <3>2 DEF n
  <2>7. CASE End > 120
    <3>1. At(p, a)
      <4>1. At(p, (a \o z) \o g) /\ a \o z \in Strings
        BY <2>1, JoinedType
      <4>2. At(p, a \o z)
        BY <1>2, <2>1, <4>1, Behinds
      <4> QED BY <1>2, <2>1, <4>2, Behinds
    <3>2. p + 2 * n <= End
      <4>1. n <= 6 /\ n \in Nat
        BY <1>1
      <4>2. 2 * n <= 12
        BY <4>1
      <4> QED BY <1>2, <2>7, <4>1, <4>2
    <3> HIDE DEF p
    <3>3. \A k \in 1..n : /\ Bit(p + 2 * (k - 1)) = flags[k][1]
                          /\ Bit(p + 1 + 2 * (k - 1)) = flags[k][2]
      <4>1. At(p, Joint(flags, n))
        BY <3>1 DEF a
      <4>2. \A k \in 1..n : flags[k] \in Strings /\ Len(flags[k]) = 2
        BY <1>1
      <4> QED BY <1>1, <1>2, <3>2, <4>1, <4>2, PairsRead
    <3>4. \A k \in 1..n : /\ Bit(p + 2 * (k - 1)) = 1 <=> k \in S
                          /\ Bit(p + 1 + 2 * (k - 1)) = 1 <=> k \in R
      BY <1>1, <3>3
    <3> DEFINE X == {k \in 1..n : Bit(104 + 2 * (k - 1)) = 1}
               Y == {k \in 1..n : Bit(105 + 2 * (k - 1)) = 1}
    <3>5. p = 104 /\ p + 1 = 105
      BY DEF p
    <3>6. X = {k \in 1..n : k \in S}
      BY <3>4, <3>5
    <3>7. Y = {k \in 1..n : k \in R}
      BY <3>4, <3>5
    <3>8. AfterProfile(n) = SkipBits(120, 88 * Cardinality(X) + 8 * Cardinality(Y))
      BY <1>4 DEF AfterProfile
    <3> HIDE DEF X, Y
    <3>9. Cardinality(X) = Among(S, n) /\ Cardinality(Y) = Among(R, n)
      BY <3>6, <3>7 DEF Among
    <3>10. AfterProfile(n) = SkipBits(120, m)
      BY <3>8, <3>9
    <3>11. SkipBits(104, 16 + m) = SkipBits(120, m)
      <4> HIDE DEF m
      <4>1. 104 + (16 + m) = 120 + m
        BY <2>3
      <4> QED BY <1>2, <2>3, <4>1 DEF SkipBits
    <3> QED BY <2>5, <3>10, <3>11 DEF n
  <2> QED BY <1>2, <2>6, <2>7
<1> QED BY <1>3, <1>4

----------------------------------------------------------------------------
(* H.265: scaling matrices and pcm.                                        *)

LEMMA FlagAhead ==
    ASSUME BitsOK, NEW p \in 0..End, NEW b \in BOOLEAN, NEW f \in Strings, At(p, Flag(b) \o f)
    PROVE  /\ SkipBits(p, 1) = Behind(p, Flag(b)) /\ SkipBits(p, 1) \in 0..End
           /\ At(SkipBits(p, 1), f) /\ Flag(b) \o f \in Strings
           /\ Behind(SkipBits(p, 1), f) = Behind(p, Flag(b) \o f)
           /\ p # End => Bit(p) = (IF b THEN 1 ELSE 0) /\ SkipBits(p, 1) = p + 1
           /\ p = End => Bit(p) = 0 /\ SkipBits(p, 1) = End
<1> DEFINE a == Flag(b)
<1>1. a \in Strings /\ Len(a) = 1 /\ a[1] = (IF b THEN 1 ELSE 0)
  BY FlagType
<1>2. p \in Nat /\ End \in Nat
  BY BitType
<1> HIDE DEF a
<1>3. /\ At(p, a) /\ At(Behind(p, a), f) /\ Behind(p, a) \in 0..End
      /\ Behind(Behind(p, a), f) = Behind(p, a \o f) /\ a \o f \in Strings
  BY <1>1, Behinds DEF a
<1>4. Behind(p, a) = SkipBits(p, 1)
  BY <1>1 DEF Behind
<1>5. ASSUME p # End PROVE Bit(p) = (IF b THEN 1 ELSE 0) /\ SkipBits(p, 1) = p + 1
  <2>1. Bit(p) = a[1]
    BY <1>1, <1>3, <1>5, FirstBit
  <2>2. SkipBits(p, 1) = p + 1
    BY <1>2, <1>5 DEF SkipBits
  <2> QED BY <1>1, <2>1, <2>2
<1>6. ASSUME p = End PROVE Bit(p) = 0 /\ SkipBits(p, 1) = End
  BY <1>2, <1>6, BitType, SkipFacts
<1> QED BY <1>3, <1>4, <1>5, <1>6 DEF a

LEMMA MatrixReads ==
    ASSUME BitsOK, NEW sizeId \in Nat, NEW m, m.predicted \in BOOLEAN, m.values \in Seq(UeValues),
           Len(m.values) = (IF m.predicted THEN 1 ELSE Coefficients(sizeId))
    PROVE  /\ Matrix(m) \in Strings
           /\ \A p \in 0..End : At(p, Matrix(m)) => AfterMatrix(p, sizeId) = Behind(p, Matrix(m))
<1> DEFINE n == Len(m.values)
           f == Ues(m.values)
           b == ~m.predicted
           count == (IF sizeId > 1 THEN 1 ELSE 0) + (IF sizeId = 0 THEN 16 ELSE 64)
<1>1. n \in Nat /\ m.values \in [1..n -> UeValues]
  BY LenProperties
<1>2. /\ Matrix(m) = Flag(b) \o f /\ b \in BOOLEAN
      /\ ~b => n = 1
      /\ b => n = count
  BY DEF Matrix, Coefficients
<1> HIDE DEF n, count
<1>3. m.values \in [1..n -> Nat] /\ f \in Strings
  BY <1>1, UeNumbers
<1>4. Flag(b) \in Strings
  BY <1>2, FlagType
<1>5. ASSUME NEW p \in 0..End, At(p, Flag(b) \o f)
      PROVE  AfterMatrix(p, sizeId) = Behind(p, Flag(b) \o f)
  <2> DEFINE q == SkipBits(p, 1)
  <2> HIDE DEF b
  <2>1. /\ q \in 0..End /\ At(q, f)
        /\ Behind(q, f) = Behind(p, Flag(b) \o f)
        /\ p # End => Bit(p) = (IF b THEN 1 ELSE 0) /\ q = p + 1
        /\ p = End => Bit(p) = 0 /\ q = End
    <3> HIDE DEF f
    <3> QED BY <1>2, <1>3, <1>5, FlagAhead
  <2>2. AfterUEs(q, n) = Behind(q, f)
    <3> HIDE DEF q
    <3> QED BY <1>1, <1>3, <2>1, UesReads
  <2>3. AfterMatrix(p, sizeId) = IF Bit(p) = 0 THEN AfterUE(q) ELSE AfterUEs(p + 1, count)
    BY DEF AfterMatrix, count
  <2> HIDE DEF q, f
  <2>4. CASE p = End
    <3>1. AfterMatrix(p, sizeId) = AfterUE(End)
      BY <2>1, <2>3, <2>4
    <3>2. Behind(q, f) = End
      BY <1>3, <2>1, <2>4, EndStays
    <3> QED BY <2>1, <3>1, <3>2, UeStays
  <2>5. CASE p # End /\ b
    <3>1. AfterMatrix(p, sizeId) = AfterUEs(q, n)
      BY <1>2, <2>1, <2>3, <2>5
    <3> QED BY <2>1, <2>2, <3>1
  <2>6. CASE p # End /\ ~b
    <3>1. AfterMatrix(p, sizeId) = AfterUE(q)
      BY <1>2, <2>1, <2>3, <2>6
    <3>2. AfterUEs(q, 1) = AfterUE(q)
      BY <2>1, Ues1And2, BitType
    <3>3. n = 1
      BY <1>2, <2>6
    <3> QED BY <2>1, <2>2, <3>1, <3>2, <3>3
  <2> QED BY <1>2, <2>4, <2>5, <2>6
<1>6. Flag(b) \o f \in Strings
  BY <1>3, <1>4, JoinedType
<1> QED BY <1>2, <1>5, <1>6

LEMMA MatricesRead ==
    ASSUME BitsOK, NEW matrices \in Matrices
    PROVE  LET fields == Concat([k \in 1..Len(matrices) |-> Matrix(matrices[k])])
           IN  /\ fields \in Strings
               /\ \A p \in 0..End : At(p, fields) =>
                      Repeat([k \in Nat |-> [q \in Nat |-> AfterMatrix(q, k \div 6)]], p, 20)
                          = Behind(p, fields)
<1> DEFINE n == 20
           parts == [k \in 1..Len(matrices) |-> Matrix(matrices[k])]
           step == [k \in Nat |-> [q \in Nat |-> AfterMatrix(q, k \div 6)]]
<1>1. n \in Nat
  OBVIOUS
<1>2. /\ matrices \in [1..n -> [predicted : BOOLEAN, values : Seq(UeValues)]]
      /\ \A k \in 1..n : Len(matrices[k].values) = (IF matrices[k].predicted THEN 1
                                                     ELSE Coefficients((k - 1) \div 6))
  BY DEF Matrices
<1>3. \A k \in Nat, q \in Nat : step[k][q] = AfterMatrix(q, k \div 6)
  OBVIOUS
<1> HIDE DEF n
<1>4. Len(matrices) = n
  BY <1>1, <1>2
<1>5. Len(parts) = n /\ \A k \in 1..n : parts[k] = Matrix(matrices[k])
  BY <1>1, <1>4
<1> HIDE DEF parts, step
<1>6. ASSUME NEW k \in 1..n
      PROVE  /\ parts[k] \in Strings
             /\ \A q \in 0..End : At(q, parts[k]) => step[k - 1][q] = Behind(q, parts[k])
  <2> DEFINE m == matrices[k]
             j == k - 1
             sizeId == j \div 6
  <2>1. m.predicted \in BOOLEAN /\ m.values \in Seq(UeValues)
    BY <1>2
  <2>2. /\ j \in Nat /\ sizeId \in Nat
        /\ Len(m.values) = (IF m.predicted THEN 1 ELSE Coefficients(sizeId))
    BY <1>1, <1>2
  <2>3. parts[k] = Matrix(m)
    BY <1>5
  <2>4. ASSUME NEW q \in 0..End PROVE step[j][q] = AfterMatrix(q, sizeId)
    <3>1. q \in Nat
      BY BitType
    <3> QED BY <1>3, <2>2, <3>1, Zenon
  <2> HIDE DEF m, j, sizeId
  <2>5. /\ Matrix(m) \in Strings
        /\ \A p \in 0..End : At(p, Matrix(m)) => AfterMatrix(p, sizeId) = Behind(p, Matrix(m))
    BY <2>1, <2>2, MatrixReads
  <2> QED BY <2>3, <2>4, <2>5, Zenon DEF j
<1>7. Concat(parts) = Joint(parts, n) /\ Concat(parts) \in Strings
  BY <1>1, <1>5, <1>6, ConcatIsJoint
<1>8. ASSUME NEW p \in 0..End, At(p, Concat(parts))
      PROVE  Repeat(step, p, n) = Behind(p, Concat(parts))
  <2>1. At(p, Joint(parts, n))
    BY <1>7, <1>8
  <2>2. Repeat(step, p, n) = Behind(p, Joint(parts, n))
    BY <1>1, <1>6, <2>1, LoopReads
  <2> QED BY <1>7, <2>2
<1> QED BY <1>7, <1>8 DEF parts, step, n

\* The two flags before the matrices, and the matrices.
ScalingFields(scaling, matrices) ==
    Optional(scaling, Optional(matrices # <<>>,
                          Concat([k \in 1..Len(matrices) |-> Matrix(matrices[k])])))

LEMMA ScalingReads ==
    ASSUME BitsOK, NEW scaling \in BOOLEAN, NEW matrices \in Option(Matrices)
    PROVE  /\ ScalingFields(scaling, matrices) \in Strings
           /\ \A p \in 0..End : At(p, ScalingFields(scaling, matrices)) =>
                  AfterOption(p, AfterOption(p + 1,
                      Repeat([k \in Nat |-> [q \in Nat |-> AfterMatrix(q, k \div 6)]], p + 2, 20)))
                      = Behind(p, ScalingFields(scaling, matrices))
<1> DEFINE fields == Concat([k \in 1..Len(matrices) |-> Matrix(matrices[k])])
           there == matrices # <<>>
           inner == Optional(there, fields)
           lists(q) == Repeat([k \in Nat |-> [r \in Nat |-> AfterMatrix(r, k \div 6)]], q, 20)
<1>1. there \in BOOLEAN /\ ScalingFields(scaling, matrices) = Optional(scaling, inner)
  BY DEF ScalingFields
<1>2. ASSUME there
      PROVE  fields \in Strings /\ \A p \in 0..End : At(p, fields) => lists(p) = Behind(p, fields)
  <2>1. matrices \in Matrices
    BY <1>2 DEF Option
  <2> QED BY <2>1, MatricesRead, Zenon
<1> HIDE DEF fields, there, lists
<1>3. inner \in Strings
  BY <1>1, <1>2, OptionalType
<1>4. ASSUME NEW p \in 0..End, At(p, inner)
      PROVE  AfterOption(p, lists(p + 1)) = Behind(p, inner)
  <2> DEFINE q == lists(p + 1)
             r == p + 1
  <2>1. there /\ p < End /\ r \in 0..End /\ At(r, fields) => q = Behind(r, fields)
    BY <1>2
  <2> HIDE DEF q
  <2>2. AfterOption(p, q) = Behind(p, Optional(there, fields))
    BY <1>1, <1>2, <1>4, <2>1, OptionReads
  <2> QED BY <2>2 DEF q
<1> HIDE DEF inner
<1>5. ASSUME NEW p \in 0..End, At(p, Optional(scaling, inner))
      PROVE  AfterOption(p, AfterOption(p + 1, lists(p + 2))) = Behind(p, Optional(scaling, inner))
  <2> DEFINE r == p + 1
             q == AfterOption(r, lists(p + 2))
  <2>1. p + 2 = r + 1
    BY BitType
  <2>2. q = AfterOption(r, lists(r + 1))
    BY <2>1
  <2>3. scaling /\ p < End /\ r \in 0..End /\ At(r, inner) => q = Behind(r, inner)
    <3> HIDE DEF r, q
    <3> QED BY <1>4, <2>2
  <2> HIDE DEF q
  <2>4. AfterOption(p, q) = Behind(p, Optional(scaling, inner))
    BY <1>3, <1>5, <2>3, OptionReads
  <2> QED BY <2>4 DEF q
<1>6. Optional(scaling, inner) \in Strings
  BY <1>3, OptionalType
<1> QED BY <1>1, <1>5, <1>6 DEF lists

LEMMA ThreeRead ==
    ASSUME BitsOK, NEW a \in Strings, NEW b \in Strings, NEW c \in Strings,
           NEW p \in 0..End, At(p, Concat(<<a, b, c>>))
    PROVE  LET q == Behind(p, a)
               r == Behind(q, b)
           IN  /\ q \in 0..End /\ r \in 0..End
               /\ At(p, a) /\ At(q, b) /\ At(r, c)
               /\ Behind(p, Concat(<<a, b, c>>)) = Behind(r, c)
<1> DEFINE parts == <<a, b, c>>
           n == 3
<1>1. Len(parts) = n /\ (\A k \in 1..n : parts[k] \in Strings) /\ n \in Nat /\ n - 1 = 2 /\ n = 3
  OBVIOUS
<1>2. parts[1] = a /\ parts[2] = b /\ parts[3] = c
  OBVIOUS
<1> HIDE DEF parts, n
<1>3. Concat(parts) = Joint(parts, n)
  BY <1>1, ConcatIsJoint
<1>4. /\ Place(p, parts, 0) = p
      /\ \A k \in 0..n : Place(p, parts, k) \in 0..End
      /\ \A k \in 0..(n - 1) :
             /\ At(Place(p, parts, k), parts[k + 1])
             /\ Place(p, parts, k + 1) = Behind(Place(p, parts, k), parts[k + 1])
  <2>1. At(p, Joint(parts, n))
    BY <1>3 DEF parts
  <2> QED BY <1>1, <2>1, RowReads
<1>5. Place(p, parts, 1) = Behind(p, a) /\ At(p, a)
  BY <1>1, <1>2, <1>4
<1>6. Place(p, parts, 2) = Behind(Place(p, parts, 1), b) /\ At(Place(p, parts, 1), b)
  BY <1>1, <1>2, <1>4
<1>7. Place(p, parts, 3) = Behind(Place(p, parts, 2), c) /\ At(Place(p, parts, 2), c)
  BY <1>1, <1>2, <1>4
<1>8. Place(p, parts, 3) = Behind(p, Concat(parts))
  BY <1>1, <1>3 DEF Place
<1>9. Place(p, parts, 1) \in 0..End /\ Place(p, parts, 2) \in 0..End
  BY <1>1, <1>4
<1> QED BY <1>5, <1>6, <1>7, <1>8, <1>9 DEF parts

LEMMA ThreeString ==
    ASSUME NEW a \in Strings, NEW b \in Strings, NEW c \in Strings
    PROVE  Concat(<<a, b, c>>) \in Strings
<1> DEFINE parts == <<a, b, c>>
<1>1. Len(parts) = 3 /\ \A k \in 1..3 : parts[k] \in Strings
  OBVIOUS
<1> HIDE DEF parts
<1>2. Concat(parts) \in Strings
  BY <1>1, ConcatIsJoint
<1> QED BY <1>2 DEF parts

\* What is known of pcm samples.
PcmFields(coded, pcm) == Optional(coded, Concat(<<pcm.depths, Ues(pcm.sizes), pcm.filter>>))

LEMMA PcmReads ==
    ASSUME BitsOK, NEW coded \in BOOLEAN, NEW pcm \in Pcm
    PROVE  /\ PcmFields(coded, pcm) \in Strings
           /\ \A p \in 0..End : At(p, PcmFields(coded, pcm)) =>
                  AfterPcm(p) = Behind(p, PcmFields(coded, pcm))
<1> DEFINE a == pcm.depths
           b == Ues(pcm.sizes)
           c == pcm.filter
           f == Concat(<<a, b, c>>)
           two == 2
<1>1. a \in Bits(8) /\ c \in Bits(1) /\ pcm.sizes \in [1..two -> UeValues] /\ two \in Nat
  BY DEF Pcm
<1>2. a \in Strings /\ Len(a) = 8 /\ c \in Strings
  BY <1>1, BitsType
<1>3. b \in Strings /\ pcm.sizes \in [1..two -> Nat]
  <2> HIDE DEF two
  <2> QED BY <1>1, UeNumbers
<1>4. f \in Strings
  <2> HIDE DEF a, b, c
  <2> QED BY <1>2, <1>3, ThreeString
<1>5. PcmFields(coded, pcm) = Optional(coded, f)
  BY DEF PcmFields
<1> HIDE DEF a, c
<1>6. ASSUME NEW p \in 0..End, At(p, Optional(coded, f))
      PROVE  AfterPcm(p) = Behind(p, Optional(coded, f))
  <2> DEFINE r == p + 1
             q == SkipBits(AfterUEs(SkipBits(p, 9), 2), 1)
  <2>1. AfterPcm(p) = AfterOption(p, q)
    BY DEF AfterPcm
  <2>2. ASSUME p < End, r \in 0..End, At(r, f)
        PROVE  q = Behind(r, f)
    <3> DEFINE s == Behind(r, a)
               t == Behind(s, b)
    <3>1. SkipBits(p, 9) = SkipBits(r, 8)
      BY BitType DEF SkipBits
    <3>2. SkipBits(r, 8) = s
      BY <1>2 DEF Behind
    <3>3. s \in 0..End /\ t \in 0..End /\ At(s, b) /\ At(t, c) /\ Behind(r, f) = Behind(t, c)
      <4> HIDE DEF r, b
      <4> QED BY <1>2, <1>3, <2>2, ThreeRead
    <3> HIDE DEF s, r
    <3>4. AfterUEs(s, two) = t
      <4> HIDE DEF two
      <4> QED BY <1>1, <1>3, <3>3, UesReads
    <3> HIDE DEF t
    <3>5. SkipBits(t, 1) = Behind(t, c)
      BY <1>1, <3>3, SkipOne
    <3> QED BY <3>1, <3>2, <3>3, <3>4, <3>5
  <2> HIDE DEF q, f
  <2>3. AfterOption(p, q) = Behind(p, Optional(coded, f))
    BY <1>4, <1>6, <2>2, OptionReads
  <2> QED BY <2>1, <2>3
<1>7. Optional(coded, f) \in Strings
  <2> HIDE DEF f
  <2> QED BY <1>4, OptionalType
<1> QED BY <1>5, <1>6, <1>7

----------------------------------------------------------------------------
(* H.265: sets of pictures.                                                *)

LEMMA PictureReads ==
    ASSUME BitsOK, NEW delta \in UeValues, NEW used \in Bits(1)
    PROVE  /\ Ue(delta) \o used \in Strings
           /\ \A q \in 0..End : At(q, Ue(delta) \o used) =>
                  SkipBits(AfterUE(q), 1) = Behind(q, Ue(delta) \o used)
<1> DEFINE a == Ue(delta)
<1>1. delta \in Nat
  BY UeValuesAre
<1>2. a \in Strings /\ used \in Strings
  BY <1>1, UeType, BitsType
<1>3. ASSUME NEW q \in 0..End, At(q, a \o used)
      PROVE  SkipBits(AfterUE(q), 1) = Behind(q, a \o used)
  <2> DEFINE r == Behind(q, a)
  <2>1. At(q, a) /\ r \in 0..End /\ Behind(r, used) = Behind(q, a \o used)
    <3> HIDE DEF a
    <3> QED BY <1>2, <1>3, Behinds
  <2>2. AfterUE(q) = r
    BY <1>1, <2>1, UeReads
  <2> HIDE DEF r
  <2>3. SkipBits(r, 1) = Behind(r, used)
    BY <2>1, SkipOne
  <2> QED BY <2>1, <2>2, <2>3
<1>4. a \o used \in Strings
  BY <1>2, JoinedType
<1> QED BY <1>3, <1>4

LEMMA PicturesRead ==
    ASSUME BitsOK, NEW pictures \in Seq(Pictures)
    PROVE  /\ PicturesOf(pictures) \in Strings
           /\ \A p \in 0..End : At(p, PicturesOf(pictures)) =>
                  AfterPictures(p, Len(pictures)) = Behind(p, PicturesOf(pictures))
<1> DEFINE n == Len(pictures)
           parts == [k \in 1..n |-> Ue(pictures[k].delta) \o pictures[k].used]
           step == [k \in Nat |-> [q \in Nat |-> SkipBits(AfterUE(q), 1)]]
<1>0. n \in Nat
  BY LenProperties
<1>1. n \in Nat /\ \A k \in 1..n : pictures[k] \in Pictures
  BY LenProperties, ElementOfSeq
<1>2. PicturesOf(pictures) = Concat(parts)
  BY DEF PicturesOf
<1>3. \A k \in Nat, q \in Nat : step[k][q] = SkipBits(AfterUE(q), 1)
  OBVIOUS
<1>4. \A p : AfterPictures(p, n) = Repeat(step, p, n)
  BY DEF AfterPictures
<1> HIDE DEF n
<1>5. Len(parts) = n /\ \A k \in 1..n : parts[k] = Ue(pictures[k].delta) \o pictures[k].used
  <2>1. Len(parts) = n
    BY <1>0
  <2>2. \A k \in 1..n : parts[k] = Ue(pictures[k].delta) \o pictures[k].used
    BY Zenon
  <2> QED BY <2>1, <2>2
<1> HIDE DEF parts, step
<1>6. ASSUME NEW k \in 1..n
      PROVE  /\ parts[k] \in Strings
             /\ \A q \in 0..End : At(q, parts[k]) => step[k - 1][q] = Behind(q, parts[k])
  <2> DEFINE delta == pictures[k].delta
             used == pictures[k].used
             j == k - 1
  <2>1. delta \in UeValues /\ used \in Bits(1)
    BY <1>1 DEF Pictures
  <2>2. j \in Nat
    BY <1>1
  <2>3. parts[k] = Ue(delta) \o used
    BY <1>5
  <2>4. ASSUME NEW q \in 0..End PROVE step[j][q] = SkipBits(AfterUE(q), 1)
    <3>1. q \in Nat
      BY BitType
    <3> QED BY <1>3, <2>2, <3>1, Zenon
  <2> HIDE DEF delta, used, j
  <2>5. /\ Ue(delta) \o used \in Strings
        /\ \A q \in 0..End : At(q, Ue(delta) \o used) =>
               SkipBits(AfterUE(q), 1) = Behind(q, Ue(delta) \o used)
    BY <2>1, PictureReads
  <2> QED BY <2>3, <2>4, <2>5, Zenon DEF j
<1>7. Concat(parts) = Joint(parts, n) /\ Concat(parts) \in Strings
  BY <1>1, <1>5, <1>6, ConcatIsJoint
<1>8. ASSUME NEW p \in 0..End, At(p, Concat(parts))
      PROVE  Repeat(step, p, n) = Behind(p, Concat(parts))
  <2>1. At(p, Joint(parts, n))
    BY <1>7, <1>8
  <2>2. Repeat(step, p, n) = Behind(p, Joint(parts, n))
    BY <1>1, <1>6, <2>1, LoopReads
  <2> QED BY <1>7, <2>2
<1> QED BY <1>2, <1>4, <1>7, <1>8 DEF n

LEMMA PicturesStay ==
    ASSUME BitsOK, NEW n \in Nat
    PROVE  AfterPictures(End, n) = End
<1> DEFINE step == [k \in Nat |-> [q \in Nat |-> SkipBits(AfterUE(q), 1)]]
<1>1. SkipBits(End, 1) = End /\ End \in Nat
  BY BitType, SkipFacts
<1>2. \A k \in Nat : step[k][End] = End
  BY <1>1, UeStays
<1>3. AfterPictures(End, n) = Repeat(step, End, n)
  BY DEF AfterPictures
<1> HIDE DEF step
<1> QED BY <1>2, <1>3, LoopStays

\* Five elements that were put together one after another.
LEMMA FiveRead ==
    ASSUME BitsOK, NEW a \in Strings, NEW b \in Strings, NEW c \in Strings, NEW d \in Strings,
           NEW e \in Strings, NEW p \in 0..End, At(p, a \o b \o c \o d \o e)
    PROVE  LET q == Behind(p, a)
               r == Behind(q, b)
               s == Behind(r, c)
               t == Behind(s, d)
           IN  /\ q \in 0..End /\ r \in 0..End /\ s \in 0..End /\ t \in 0..End
               /\ At(p, a) /\ At(q, b) /\ At(r, c) /\ At(s, d) /\ At(t, e)
               /\ Behind(p, a \o b \o c \o d \o e) = Behind(t, e)
<1> DEFINE two == a \o b
           three == two \o c
           four == three \o d
<1>1. two \in Strings
  BY JoinedType
<1>2. three \in Strings
  <2> HIDE DEF two
  <2> QED BY <1>1, JoinedType
<1>3. four \in Strings
  <2> HIDE DEF three
  <2> QED BY <1>2, JoinedType
<1>4. /\ At(p, four) /\ At(Behind(p, four), e) /\ Behind(p, four) \in 0..End
      /\ Behind(Behind(p, four), e) = Behind(p, four \o e)
  <2>1. At(p, four \o e)
    OBVIOUS
  <2> HIDE DEF four
  <2> QED BY <1>3, <2>1, Behinds
<1>5. /\ At(p, three) /\ At(Behind(p, three), d) /\ Behind(p, three) \in 0..End
      /\ Behind(Behind(p, three), d) = Behind(p, four)
  <2>1. At(p, three \o d)
    BY <1>4
  <2> HIDE DEF three
  <2>2. /\ At(p, three) /\ At(Behind(p, three), d) /\ Behind(p, three) \in 0..End
        /\ Behind(Behind(p, three), d) = Behind(p, three \o d)
    BY <1>2, <2>1, Behinds
  <2> QED BY <2>2
<1>6. /\ At(p, two) /\ At(Behind(p, two), c) /\ Behind(p, two) \in 0..End
      /\ Behind(Behind(p, two), c) = Behind(p, three)
  <2>1. At(p, two \o c)
    BY <1>5
  <2> HIDE DEF two
  <2>2. /\ At(p, two) /\ At(Behind(p, two), c) /\ Behind(p, two) \in 0..End
        /\ Behind(Behind(p, two), c) = Behind(p, two \o c)
    BY <1>1, <2>1, Behinds
  <2> QED BY <2>2
<1>7. /\ At(p, a) /\ At(Behind(p, a), b) /\ Behind(p, a) \in 0..End
      /\ Behind(Behind(p, a), b) = Behind(p, two)
  <2>1. At(p, a \o b)
    BY <1>6
  <2> QED BY <2>1, Behinds
<1> HIDE DEF two, three, four
<1>8. /\ Behind(Behind(p, a), b) = Behind(p, two)
      /\ Behind(Behind(Behind(p, a), b), c) = Behind(p, three)
      /\ Behind(Behind(Behind(Behind(p, a), b), c), d) = Behind(p, four)
  BY <1>5, <1>6, <1>7, Zenon
<1> QED BY <1>4, <1>5, <1>6, <1>7, <1>8, Zenon DEF two, three, four

LEMMA ShortTermSetStays ==
    ASSUME BitsOK, NEW k \in Nat
    PROVE  AfterShortTermSet(End, k) = End
<1> DEFINE negative == IF k = 0 THEN End ELSE SkipBits(End, 1)
           pictures == AfterUEs(negative, 2)
           first == AfterPictures(pictures, ReadUE(negative))
<1>1. SkipBits(End, 1) = End /\ End \in Nat /\ Bit(End) = 0
  BY BitType, SkipFacts
<1>2. AfterShortTermSet(End, k) = AfterPictures(first, ReadUE(AfterUE(negative)))
  BY <1>1 DEF AfterShortTermSet
<1>3. negative = End
  BY <1>1
<1> HIDE DEF negative
<1>4. AfterUE(End) = End /\ ReadUE(End) \in Nat
  BY <1>1, UeStays, UEType
<1>5. pictures = End
  BY <1>3, UesStay
<1> HIDE DEF pictures
<1>6. first = End
  BY <1>3, <1>4, <1>5, PicturesStay
<1> HIDE DEF first
<1>7. AfterPictures(End, ReadUE(End)) = End
  BY <1>4, PicturesStay
<1> QED BY <1>2, <1>3, <1>4, <1>6, <1>7

LEMMA ShortTermSetReads ==
    ASSUME BitsOK, NEW k \in Nat, NEW set \in PictureSets
    PROVE  /\ ShortTermSet(set, k + 1) \in Strings
           /\ \A p \in 0..End : At(p, ShortTermSet(set, k + 1)) =>
                  AfterShortTermSet(p, k) = Behind(p, ShortTermSet(set, k + 1))
<1> DEFINE m == Len(set.negative)
           n == Len(set.positive)
           a == IF k + 1 = 1 THEN <<>> ELSE <<0>>
           b == Ue(m)
           c == Ue(n)
           d == PicturesOf(set.negative)
           e == PicturesOf(set.positive)
           all == a \o b \o c \o d \o e
<1>1. set.negative \in Seq(Pictures) /\ set.positive \in Seq(Pictures)
  BY DEF PictureSets, UpTo
<1>2. m \in Nat /\ n \in Nat
  BY <1>1, LenProperties
<1>3. a \in Strings /\ (k = 0 => Len(a) = 0) /\ (k # 0 => Len(a) = 1 /\ a[1] = 0)
  <2>1. <<0>> \in Strings /\ Len(<<0>>) = 1 /\ <<0>>[1] = 0
    BY DEF Strings
  <2>2. k + 1 = 1 <=> k = 0
    OBVIOUS
  <2> QED BY <2>1, <2>2, NoBits
<1>4. b \in Strings /\ c \in Strings
  <2> HIDE DEF m, n
  <2> QED BY <1>2, UeType
<1>5. /\ d \in Strings /\ e \in Strings
      /\ \A p \in 0..End : At(p, d) => AfterPictures(p, m) = Behind(p, d)
      /\ \A p \in 0..End : At(p, e) => AfterPictures(p, n) = Behind(p, e)
  BY <1>1, PicturesRead
<1>6. ShortTermSet(set, k + 1) = all
  BY DEF ShortTermSet
<1>7. all \in Strings
  <2> HIDE DEF a, b, c, d, e
  <2> DEFINE two == a \o b
             three == two \o c
             four == three \o d
  <2>1. two \in Strings
    BY <1>3, <1>4, JoinedType
  <2> HIDE DEF two
  <2>2. three \in Strings
    BY <1>4, <2>1, JoinedType
  <2> HIDE DEF three
  <2>3. four \in Strings
    BY <1>5, <2>2, JoinedType
  <2> HIDE DEF four
  <2>4. four \o e \in Strings
    BY <1>5, <2>3, JoinedType
  <2> QED BY <2>4 DEF four, three, two
<1> HIDE DEF a, d, e
<1>8. ASSUME NEW p \in 0..End, At(p, all)
      PROVE  AfterShortTermSet(p, k) = Behind(p, all)
  <2> DEFINE q == Behind(p, a)
             r == Behind(q, b)
             s == Behind(r, c)
             t == Behind(s, d)
  <2>1. /\ q \in 0..End /\ r \in 0..End /\ s \in 0..End /\ t \in 0..End
        /\ At(p, a) /\ At(q, b) /\ At(r, c) /\ At(s, d) /\ At(t, e)
        /\ Behind(p, all) = Behind(t, e)
    <3> HIDE DEF b, c
    <3> QED BY <1>3, <1>4, <1>5, <1>8, FiveRead
  <2>2. q = (IF k = 0 THEN p ELSE SkipBits(p, 1))
    <3>1. SkipBits(p, 0) = p
      BY SkipFacts
    <3> QED BY <1>3, <3>1 DEF Behind
  <2>3. k # 0 => Bit(p) = 0
    <3>1. CASE p = End
      BY <3>1, BitType
    <3>2. CASE k # 0 /\ p # End
      BY <1>3, <2>1, <3>2, FirstBit
    <3> QED BY <3>1, <3>2
  <2> HIDE DEF q
  <2>4. AfterUE(q) = r /\ (ReadUE(q) = m \/ r = End)
    <3> HIDE DEF m
    <3> QED BY <1>2, <2>1, UeReads
  <2> HIDE DEF r
  <2>5. AfterUE(r) = s /\ (ReadUE(r) = n \/ s = End)
    <3> HIDE DEF n
    <3> QED BY <1>2, <2>1, UeReads
  <2> HIDE DEF s
  <2>6. p \in Nat /\ q \in Nat /\ r \in Nat
    BY <2>1, BitType
  <2>7. AfterUEs(q, 2) = s /\ ReadUE(q) \in Nat /\ ReadUE(r) \in Nat
    BY <2>4, <2>5, <2>6, Ues1And2, UEType
  <2>8. AfterPictures(s, ReadUE(q)) = t
    <3>1. CASE s = End
      <4>1. t = End
        BY <1>5, <3>1, EndStays
      <4> QED BY <2>7, <3>1, <4>1, PicturesStay
    <3>2. CASE s # End
      <4>1. r # End
        BY <2>5, <3>2, UeStays
      <4>2. AfterPictures(s, m) = t
        BY <1>5, <2>1
      <4> QED BY <2>4, <4>1, <4>2
    <3> QED BY <3>1, <3>2
  <2>9. AfterPictures(t, ReadUE(r)) = Behind(t, e)
    <3>1. CASE s = End
      <4>1. t = End
        BY <1>5, <3>1, EndStays
      <4>2. Behind(End, e) = End
        BY <1>5, EndStays
      <4> QED BY <2>7, <4>1, <4>2, PicturesStay
    <3>2. CASE s # End
      BY <1>5, <2>1, <2>5, <3>2
    <3> QED BY <3>1, <3>2
  <2> HIDE DEF t
  <2>10. AfterShortTermSet(p, k) = AfterPictures(AfterPictures(AfterUEs(q, 2), ReadUE(q)), ReadUE(AfterUE(q)))
    BY <2>2, <2>3 DEF AfterShortTermSet
  <2> QED BY <2>1, <2>5, <2>4, <2>7, <2>8, <2>9, <2>10
<1> QED BY <1>6, <1>7, <1>8, Zenon

LEMMA ShortTermSetsRead ==
    ASSUME BitsOK, NEW sets \in Seq(PictureSets)
    PROVE  LET fields == Concat([k \in 1..Len(sets) |-> ShortTermSet(sets[k], k)])
               count == Ue(Len(sets))
           IN  /\ count \in Strings /\ fields \in Strings
               /\ \A p \in 0..End : At(p, count) /\ At(Behind(p, count), fields) =>
                      AfterShortTermSets(p) = Behind(Behind(p, count), fields)
<1> DEFINE n == Len(sets)
           count == Ue(n)
           parts == [k \in 1..n |-> ShortTermSet(sets[k], k)]
           step == [k \in Nat |-> [q \in Nat |-> AfterShortTermSet(q, k)]]
<1>1. n \in Nat
  BY LenProperties
<1>2. \A k \in 1..n : sets[k] \in PictureSets
  BY ElementOfSeq
<1>3. \A k \in Nat, q \in Nat : step[k][q] = AfterShortTermSet(q, k)
  OBVIOUS
<1>4. \A p : AfterShortTermSets(p) = Repeat(step, AfterUE(p), ReadUE(p))
  BY DEF AfterShortTermSets
<1> HIDE DEF n
<1>5. Len(parts) = n /\ \A k \in 1..n : parts[k] = ShortTermSet(sets[k], k)
  <2>1. Len(parts) = n
    BY <1>1
  <2>2. \A k \in 1..n : parts[k] = ShortTermSet(sets[k], k)
    BY Zenon
  <2> QED BY <2>1, <2>2
<1> HIDE DEF parts, step
<1>6. ASSUME NEW k \in 1..n
      PROVE  /\ parts[k] \in Strings
             /\ \A q \in 0..End : At(q, parts[k]) => step[k - 1][q] = Behind(q, parts[k])
  <2> DEFINE set == sets[k]
             j == k - 1
  <2>1. set \in PictureSets
    BY <1>2
  <2>2. j \in Nat /\ j + 1 = k
    BY <1>1
  <2> HIDE DEF set, j
  <2>3. parts[k] = ShortTermSet(set, j + 1)
    BY <1>5, <2>2, Zenon DEF set
  <2>4. ASSUME NEW q \in 0..End PROVE step[j][q] = AfterShortTermSet(q, j)
    <3>1. q \in Nat
      BY BitType
    <3> QED BY <1>3, <2>2, <3>1, Zenon
  <2>5. /\ ShortTermSet(set, j + 1) \in Strings
        /\ \A q \in 0..End : At(q, ShortTermSet(set, j + 1)) =>
               AfterShortTermSet(q, j) = Behind(q, ShortTermSet(set, j + 1))
    BY <2>1, <2>2, ShortTermSetReads
  <2> QED BY <2>3, <2>4, <2>5, Zenon DEF j
<1>7. Concat(parts) = Joint(parts, n) /\ Concat(parts) \in Strings
  BY <1>1, <1>5, <1>6, ConcatIsJoint
<1>8. count \in Strings
  BY <1>1, UeType
<1>9. ASSUME NEW p \in 0..End, At(p, count), At(Behind(p, count), Concat(parts))
      PROVE  Repeat(step, AfterUE(p), ReadUE(p)) = Behind(Behind(p, count), Concat(parts))
  <2> DEFINE q == Behind(p, count)
  <2>1. q \in 0..End /\ ReadUE(p) \in Nat
    <3>1. Len(count) \in Nat /\ p \in Nat
      BY <1>8, Length, BitType
    <3>2. SkipBits(p, Len(count)) \in 0..End
      BY <3>1, SkipFacts
    <3> QED BY <3>1, <3>2, UEType DEF Behind
  <2>2. AfterUE(p) = q /\ (ReadUE(p) = n \/ q = End)
    BY <1>1, <1>9, UeReads
  <2>3. At(q, Joint(parts, n))
    BY <1>7, <1>9
  <2> HIDE DEF q, count
  <2>4. CASE q = End
    <3>1. \A k \in Nat : step[k][End] = End
      BY <1>3, BitType, ShortTermSetStays
    <3>2. Repeat(step, End, ReadUE(p)) = End
      BY <2>1, <3>1, LoopStays
    <3>3. Behind(End, Concat(parts)) = End
      BY <1>7, EndStays
    <3> QED BY <2>2, <2>4, <3>2, <3>3 DEF q
  <2>5. CASE q # End
    <3>1. Repeat(step, q, n) = Behind(q, Joint(parts, n))
      BY <1>1, <1>6, <2>1, <2>3, LoopReads
    <3> QED BY <1>7, <2>2, <2>5, <3>1 DEF q
  <2> QED BY <2>4, <2>5
<1> QED BY <1>4, <1>7, <1>8, <1>9, Zenon DEF n, parts

LEMMA LongTermReads ==
    ASSUME BitsOK, NEW p \in 0..End, At(p, << 0 >>)
    PROVE  AfterLongTerm(p) = Behind(p, << 0 >>)
<1> DEFINE e == <<0>>
<1>1. e \in Strings /\ Len(e) = 1 /\ e[1] = 0
  BY DEF Strings
<1>2. Bit(p) = 0
  <2>1. CASE p = End
    BY <2>1, BitType
  <2>2. CASE p # End
    <3> HIDE DEF e
    <3>1. Len(e) > 0 /\ At(p, e)
      BY <1>1 DEF e
    <3> QED BY <1>1, <2>2, <3>1, FirstBit
  <2> QED BY <2>1, <2>2
<1> QED BY <1>1, <1>2 DEF AfterLongTerm, AfterOption, Behind

----------------------------------------------------------------------------
(* H.265: the rate.                                                        *)

LEMMA FlagBit ==
    ASSUME BitsOK, NEW p \in 0..End, NEW b \in BOOLEAN, At(p, Flag(b)), p # End
    PROVE  Bit(p) = (IF b THEN 1 ELSE 0)
<1>1. Flag(b) \in Strings /\ Len(Flag(b)) = 1 /\ Flag(b)[1] = (IF b THEN 1 ELSE 0)
  BY FlagType
<1>2. Bit(p) = Flag(b)[1]
  BY <1>1, FirstBit
<1> QED BY <1>1, <1>2

LEMMA BufferingReads ==
    ASSUME BitsOK, NEW n \in Nat, NEW b \in BOOLEAN,
           NEW values \in [1..(3 * (IF b THEN n + 1 ELSE 1)) -> UeValues],
           NEW p \in 0..End, At(p, Flag(b)), At(Behind(p, Flag(b)), Ues(values))
    PROVE  AfterUEs(SkipBits(p, 1), 3 * (IF Bit(p) = 1 THEN n + 1 ELSE 1))
               = Behind(Behind(p, Flag(b)), Ues(values))
<1> DEFINE m == 3 * (IF b THEN n + 1 ELSE 1)
           read == 3 * (IF Bit(p) = 1 THEN n + 1 ELSE 1)
           q == Behind(p, Flag(b))
<1>1. m \in Nat /\ read \in Nat
  OBVIOUS
<1>2. Flag(b) \in Strings /\ Len(Flag(b)) = 1 /\ Flag(b)[1] = (IF b THEN 1 ELSE 0)
  BY FlagType
<1>3. q = SkipBits(p, 1) /\ q \in 0..End
  <2>1. SkipBits(p, 1) \in 0..End
    BY SkipFacts
  <2> QED BY <1>2, <2>1 DEF Behind
<1>4. p # End => Bit(p) = (IF b THEN 1 ELSE 0)
  BY FlagBit
<1>5. p # End => read = m
  BY <1>4
<1>6. p = End => q = End
  BY <1>2, EndStays
<1> HIDE DEF m, read, q
<1>7. values \in [1..m -> UeValues]
  BY DEF m
<1>8. values \in [1..m -> Nat] /\ Ues(values) \in Strings
  BY <1>1, <1>7, UeNumbers
<1>9. CASE p = End
  <2>1. AfterUEs(End, read) = End
    BY <1>1, UesStay
  <2>2. Behind(End, Ues(values)) = End
    BY <1>8, EndStays
  <2> QED BY <1>3, <1>6, <1>9, <2>1, <2>2 DEF q, read
<1>10. CASE p # End
  <2>1. At(q, Ues(values))
    BY DEF q
  <2>2. AfterUEs(q, m) = Behind(q, Ues(values))
    BY <1>1, <1>3, <1>8, <2>1, UesReads
  <2> QED BY <1>3, <1>5, <1>10, <2>2 DEF q, read
<1> QED BY <1>9, <1>10

LEMMA FourWhole ==
    ASSUME BitsOK, NEW a \in Strings, NEW b \in Strings, NEW c \in Strings, NEW d \in Strings,
           NEW p \in 0..End, At(p, Concat(<<a, b, c, d>>)), p + Len(Concat(<<a, b, c, d>>)) <= End
    PROVE  Behind(Behind(Behind(p, a), b), c) + Len(d) <= End
<1> DEFINE parts == <<a, b, c, d>>
           n == 4
           three == 3
<1>1. /\ Len(parts) = n /\ (\A k \in 1..n : parts[k] \in Strings) /\ n \in Nat /\ n - 1 = 3 /\ n = 4
      /\ three \in 0..(n - 1) /\ three + 1 = 4 /\ three = 3
  OBVIOUS
<1>2. parts[1] = a /\ parts[2] = b /\ parts[3] = c /\ parts[4] = d
  OBVIOUS
<1> HIDE DEF parts, n, three
<1>3. Concat(parts) = Joint(parts, n)
  BY <1>1, ConcatIsJoint
<1>4. /\ Place(p, parts, 0) = p
      /\ \A k \in 0..(n - 1) :
             Place(p, parts, k + 1) = Behind(Place(p, parts, k), parts[k + 1])
  <2>1. At(p, Joint(parts, n))
    BY <1>3 DEF parts
  <2> QED BY <1>1, <2>1, RowReads
<1>5. Place(p, parts, 1) = Behind(p, a)
  BY <1>1, <1>2, <1>4
<1>6. Place(p, parts, 2) = Behind(Place(p, parts, 1), b)
  BY <1>1, <1>2, <1>4
<1>7. Place(p, parts, 3) = Behind(Place(p, parts, 2), c)
  BY <1>1, <1>2, <1>4
<1>8. p + Len(Joint(parts, n)) <= End
  BY <1>3 DEF parts
<1>9. Place(p, parts, three) + Len(parts[three + 1]) <= End
  BY <1>1, <1>8, RowWhole
<1> QED BY <1>1, <1>2, <1>5, <1>6, <1>7, <1>9

\* What is in the video usability information up to the timing.
Usability265(s) ==
    Concat(<<Description(s.description), s.fields, WindowOf(s.display), TimingInfo(s.timing)>>)

LEMMA Usability265Types ==
    ASSUME BitsOK, NEW s, Is265(s)
    PROVE  /\ Description(s.description) \in Strings /\ s.fields \in Strings
           /\ WindowOf(s.display) \in Strings /\ TimingInfo(s.timing) \in Strings
           /\ Usability265(s) \in Strings
<1>1. /\ s.description \in Vui /\ s.timing \in Timings /\ s.fields \in Bits(3)
      /\ s.display \in Windows
  BY DEF Is265
<1>2. Description(s.description) \in Strings /\ TimingInfo(s.timing) \in Strings
  BY <1>1, DescriptionString, TimingString
<1>3. s.fields \in Strings
  BY <1>1, BitsType
<1>4. WindowOf(s.display) \in Strings
  <2> DEFINE there == s.display # <<>>
  <2>1. there \in BOOLEAN /\ (there => Ues(s.display) \in Strings)
    BY <1>1, UeNumbers DEF Windows, Option
  <2> HIDE DEF there
  <2>2. Optional(there, Ues(s.display)) \in Strings
    BY <2>1, OptionalType
  <2> QED BY <2>2 DEF WindowOf, there
<1>5. Usability265(s) \in Strings
  BY <1>2, <1>3, <1>4, FourString DEF Usability265
<1> QED BY <1>2, <1>3, <1>4, <1>5

LEMMA Usability265Reads ==
    ASSUME BitsOK, NEW s, Is265(s), NEW p \in 0..End, At(p, Usability265(s))
    PROVE  LET display == SkipBits(AfterDescription(p), 3)
               read == Timing(AfterOption(display, AfterUEs(display + 1, 4)), 1)
           IN  /\ NotFaster(read, TimingRate(s.timing, 1))
               /\ p + Len(Usability265(s)) <= End => read = TimingRate(s.timing, 1)
<1> DEFINE a == Description(s.description)
           b == s.fields
           c == WindowOf(s.display)
           d == TimingInfo(s.timing)
           q == Behind(p, a)
           r == Behind(q, b)
           t == Behind(r, c)
           four == 4
           one == 1
<1>1. /\ s.description \in Vui /\ s.timing \in Timings /\ b \in Bits(3)
      /\ s.display \in Option([1..four -> Nat]) /\ four \in Nat /\ one \in Nat \ {0}
  <2>1. /\ s.description \in Vui /\ s.timing \in Timings /\ b \in Bits(3)
        /\ s.display \in Windows
    BY DEF Is265
  <2>2. s.display \in Option([1..four -> Nat])
    BY <2>1, UeValuesAre DEF Windows, Option
  <2> QED BY <2>1, <2>2
<1>2. a \in Strings /\ b \in Strings /\ c \in Strings /\ d \in Strings
  BY Usability265Types
<1>3. Usability265(s) = Concat(<<a, b, c, d>>)
  BY DEF Usability265
<1> HIDE DEF a, b, c, d, four, one
<1>4. /\ q \in 0..End /\ r \in 0..End /\ t \in 0..End
      /\ At(p, a) /\ At(q, b) /\ At(r, c) /\ At(t, d)
  BY <1>2, <1>3, FourRead
<1>5. p + Len(Usability265(s)) <= End => t + Len(d) <= End
  BY <1>2, <1>3, FourWhole
<1>6. AfterDescription(p) = q
  BY <1>1, <1>4, DescriptionReads DEF a
<1> HIDE DEF q
<1>7. SkipBits(q, 3) = r
  BY <1>1, <1>4, SkipOne
<1> HIDE DEF r
<1>8. AfterOption(r, AfterUEs(r + 1, four)) = t
  <2>1. c = Optional(s.display # <<>>, Ues(s.display))
    BY DEF WindowOf, c
  <2> QED BY <1>1, <1>4, <2>1, NumbersRead
<1> HIDE DEF t
<1>9. /\ NotFaster(Timing(t, one), TimingRate(s.timing, one))
      /\ t + Len(d) <= End => Timing(t, one) = TimingRate(s.timing, one)
  BY <1>1, <1>4, TimingReads DEF d
<1> QED BY <1>5, <1>6, <1>7, <1>8, <1>9 DEF four, one

\* The sets of pictures of an SPS.
SetsOf(sets) == Concat([k \in 1..Len(sets) |-> ShortTermSet(sets[k], k)])

\* The elements of an SPS in a row.
Fields265(s) ==
    <<s.id, U(3, Len(s.layers)), s.profile, SubLayers(s.layers),
      Ue(s.setId), ChromaBits(s.chroma, s.plane), Ues(s.size), WindowOf(s.window), Ues(s.depths),
      Flag(s.everyLayer), Ues(s.buffering), Ues(s.blocks), ScalingFields(s.scaling, s.matrices),
      s.tools, PcmFields(s.coded, s.pcm), Ue(Len(s.sets)), SetsOf(s.sets), <<0>>, s.motion,
      Optional(s.vui, Usability265(s)), s.rest>>

LEMMA BufferingType ==
    ASSUME NEW s, Is265(s)
    PROVE  Ues(s.buffering) \in Strings
<1> DEFINE m == 3 * (IF s.everyLayer THEN Len(s.layers) + 1 ELSE 1)
<1>1. Len(s.layers) \in Nat
  BY LenProperties DEF Is265, UpTo
<1>2. m \in Nat /\ s.buffering \in [1..m -> UeValues]
  BY <1>1 DEF Is265
<1> HIDE DEF m
<1> QED BY <1>2, UeNumbers

LEMMA Fields265Types ==
    ASSUME BitsOK, NEW s, Is265(s)
    PROVE  /\ s.id \in Strings /\ U(3, Len(s.layers)) \in Strings /\ s.profile \in Strings
           /\ SubLayers(s.layers) \in Strings /\ Ue(s.setId) \in Strings
           /\ ChromaBits(s.chroma, s.plane) \in Strings /\ Ues(s.size) \in Strings
           /\ WindowOf(s.window) \in Strings /\ Ues(s.depths) \in Strings
           /\ Flag(s.everyLayer) \in Strings /\ Ues(s.buffering) \in Strings
           /\ Ues(s.blocks) \in Strings /\ ScalingFields(s.scaling, s.matrices) \in Strings
           /\ s.tools \in Strings /\ PcmFields(s.coded, s.pcm) \in Strings
           /\ Ue(Len(s.sets)) \in Strings /\ SetsOf(s.sets) \in Strings /\ <<0>> \in Strings
           /\ s.motion \in Strings /\ Optional(s.vui, Usability265(s)) \in Strings
           /\ s.rest \in Strings
<1>1. /\ s.id \in Bits(4) /\ s.layers \in UpTo(6, Layers) /\ s.profile \in Bits(97)
      /\ s.setId \in UeValues /\ s.chroma \in 0..3 /\ s.plane \in Bits(1)
      /\ s.size \in [1..2 -> UeValues] /\ s.window \in Windows /\ s.depths \in [1..3 -> UeValues]
      /\ s.everyLayer \in BOOLEAN /\ s.blocks \in [1..6 -> UeValues]
      /\ s.scaling \in BOOLEAN /\ s.matrices \in Option(Matrices)
      /\ s.tools \in Bits(2) /\ s.coded \in BOOLEAN /\ s.pcm \in Pcm
      /\ s.sets \in UpTo(64, PictureSets) /\ s.motion \in Bits(2) /\ s.vui \in BOOLEAN
      /\ s.rest \in Seq({0, 1})
  BY DEF Is265
<1>2. s.id \in Strings /\ s.profile \in Strings /\ s.tools \in Strings /\ s.motion \in Strings
  BY <1>1, BitsType
<1>3. U(3, Len(s.layers)) \in Strings
  <2> DEFINE n == Len(s.layers)
  <2>1. n \in Nat
    BY <1>1, LayersAre
  <2> HIDE DEF n
  <2>2. U(3, n) \in Strings
    BY <2>1, UType
  <2> QED BY <2>2 DEF n
<1>4. SubLayers(s.layers) \in Strings
  BY <1>1, SubLayersString
<1>5. Ue(s.setId) \in Strings
  BY <1>1, UeValuesAre, UeType
<1>6. ChromaBits(s.chroma, s.plane) \in Strings
  BY <1>1, ChromaString
<1>7. Ues(s.size) \in Strings /\ Ues(s.depths) \in Strings /\ Ues(s.blocks) \in Strings
  BY <1>1, UeNumbers
<1>8. WindowOf(s.window) \in Strings
  <2> DEFINE there == s.window # <<>>
  <2>1. there \in BOOLEAN /\ (there => Ues(s.window) \in Strings)
    BY <1>1, UeNumbers DEF Windows, Option
  <2> HIDE DEF there
  <2>2. Optional(there, Ues(s.window)) \in Strings
    BY <2>1, OptionalType
  <2> QED BY <2>2 DEF WindowOf, there
<1>9. Flag(s.everyLayer) \in Strings
  BY <1>1, FlagType
<1>10. Ues(s.buffering) \in Strings
  BY BufferingType
<1>11. ScalingFields(s.scaling, s.matrices) \in Strings
  BY <1>1, ScalingReads
<1>12. PcmFields(s.coded, s.pcm) \in Strings
  BY <1>1, PcmReads
<1>13. Ue(Len(s.sets)) \in Strings /\ SetsOf(s.sets) \in Strings
  <2>1. s.sets \in Seq(PictureSets)
    BY <1>1 DEF UpTo
  <2> QED BY <2>1, ShortTermSetsRead, Zenon DEF SetsOf
<1>14. <<0>> \in Strings
  BY DEF Strings
<1>15. Optional(s.vui, Usability265(s)) \in Strings
  <2>1. Usability265(s) \in Strings
    BY Usability265Types
  <2> QED BY <1>1, <2>1, OptionalType
<1>16. s.rest \in Strings
  BY <1>1 DEF Strings
<1> QED BY <1>2, <1>3, <1>4, <1>5, <1>6, <1>7, <1>8, <1>9, <1>10, <1>11, <1>12, <1>13, <1>14,
           <1>15, <1>16

LEMMA Fields265Are ==
    ASSUME BitsOK, NEW s, Is265(s)
    PROVE  /\ Len(Fields265(s)) = 21 /\ \A k \in 1..21 : Fields265(s)[k] \in Strings
           /\ Sps265(s) = Joint(Fields265(s), 21)
<1> DEFINE parts == Fields265(s)
           n == 21
<1>1. Len(parts) = n
  BY DEF Fields265
<1>2. \A k \in 1..21 : k = 1 \/ k = 2 \/ k = 3 \/ k = 4 \/ k = 5 \/ k = 6 \/ k = 7 \/ k = 8
                       \/ k = 9 \/ k = 10 \/ k = 11 \/ k = 12 \/ k = 13 \/ k = 14 \/ k = 15
                       \/ k = 16 \/ k = 17 \/ k = 18 \/ k = 19 \/ k = 20 \/ k = 21
  OBVIOUS
<1>3. /\ parts[1] \in Strings /\ parts[2] \in Strings /\ parts[3] \in Strings
      /\ parts[4] \in Strings /\ parts[5] \in Strings /\ parts[6] \in Strings
      /\ parts[7] \in Strings /\ parts[8] \in Strings /\ parts[9] \in Strings
      /\ parts[10] \in Strings /\ parts[11] \in Strings /\ parts[12] \in Strings
      /\ parts[13] \in Strings /\ parts[14] \in Strings /\ parts[15] \in Strings
      /\ parts[16] \in Strings /\ parts[17] \in Strings /\ parts[18] \in Strings
      /\ parts[19] \in Strings /\ parts[20] \in Strings /\ parts[21] \in Strings
  BY Fields265Types DEF Fields265
<1>4. Sps265(s) = Concat(parts)
  BY DEF Sps265, Fields265, ChromaBits, ChromaFormat, ScalingFields, PcmFields, SetsOf, Usability265
<1> HIDE DEF parts
<1>5. \A k \in 1..n : parts[k] \in Strings
  BY <1>2, <1>3
<1>6. n \in Nat
  OBVIOUS
<1> HIDE DEF n
<1>7. Concat(parts) = Joint(parts, n)
  BY <1>1, <1>5, <1>6, ConcatIsJoint
<1> QED BY <1>1, <1>4, <1>5, <1>7 DEF n, parts

LEMMA Fields265Read ==
    ASSUME BitsOK, NEW s, Is265(s), At(0, Sps265(s))
    PROVE  LET place(k) == Place(0, Fields265(s), k)
           IN  /\ place(0) = 0 /\ \A k \in 0..21 : place(k) \in 0..End
               /\ \A k \in 0..20 : /\ At(place(k), Fields265(s)[k + 1])
                                   /\ place(k + 1) = Behind(place(k), Fields265(s)[k + 1])
               /\ Len(Sps265(s)) <= End =>
                      \A k \in 0..20 : place(k) + Len(Fields265(s)[k + 1]) <= End
<1> DEFINE parts == Fields265(s)
           n == 21
           zero == 0
<1>1. Len(parts) = n /\ (\A k \in 1..n : parts[k] \in Strings) /\ Sps265(s) = Joint(parts, n)
  BY Fields265Are
<1>2. n \in Nat /\ zero \in 0..End /\ n - 1 = 20
  BY BitType
<1>3. At(zero, Joint(parts, n))
  BY <1>1
<1> HIDE DEF parts, n, zero
<1>4. /\ Place(zero, parts, 0) = zero
      /\ \A k \in 0..n : Place(zero, parts, k) \in 0..End
      /\ \A k \in 0..(n - 1) :
             /\ At(Place(zero, parts, k), parts[k + 1])
             /\ Place(zero, parts, k + 1) = Behind(Place(zero, parts, k), parts[k + 1])
  BY <1>1, <1>2, <1>3, RowReads
<1>5. ASSUME Len(Sps265(s)) <= End, NEW k \in 0..(n - 1)
      PROVE  Place(zero, parts, k) + Len(parts[k + 1]) <= End
  <2>1. zero + Len(Joint(parts, n)) <= End
    <3>0. n \in 0..n
      BY <1>2
    <3>1. Joint(parts, n) \in Strings
      BY <1>1, <1>2, <3>0, JointStep
    <3>2. Len(Joint(parts, n)) \in Nat
      BY <3>1, Length
    <3> QED BY <1>1, <1>5, <3>2 DEF zero
  <2> QED BY <1>1, <1>2, <2>1, RowWhole
<1>6. n = 21 /\ zero = 0
  BY DEF n, zero
<1> QED BY <1>2, <1>4, <1>5, <1>6 DEF parts

\* The number of layers has three bits.
LEMMA LayersWord ==
    ASSUME NEW n \in 0..7
    PROVE  n \in Word(3)
<1> DEFINE zero == 0
           one == 1
           two == 2
<1>1. /\ zero \in Nat /\ one \in Nat /\ two \in Nat /\ n \in Nat
      /\ zero + 1 = one /\ one + 1 = two /\ two + 1 = 3 /\ zero = 0
  OBVIOUS
<1> HIDE DEF zero, one, two
<1>2. Halved(n, 0) = n
  BY <1>1, HalvedStep
<1>3. Halved(n, one) = Halved(n, zero) \div 2
  BY <1>1, HalvedStep
<1>4. Halved(n, two) = Halved(n, one) \div 2
  BY <1>1, HalvedStep
<1>5. Halved(n, two + 1) = Halved(n, two) \div 2
  BY <1>1, HalvedStep
<1>6. Halved(n, one) = n \div 2 /\ Halved(n, 3) = Halved(n, two) \div 2
  BY <1>1, <1>2, <1>3, <1>5
<1>7. n \div 2 \in 0..3
  OBVIOUS
<1> DEFINE half == n \div 2
<1> HIDE DEF half
<1>8. half \in 0..3 /\ Halved(n, two) = half \div 2
  BY <1>4, <1>6, <1>7 DEF half
<1>9. Halved(n, two) \in 0..1
  BY <1>8
<1>10. Halved(n, 3) = 0
  BY <1>6, <1>9
<1> QED BY <1>1, <1>10 DEF Word

LEMMA Vui265Reads ==
    ASSUME BitsOK, NEW s, Is265(s), At(0, Sps265(s)), End >= 104
    PROVE  Vui265 = Place(0, Fields265(s), 19)
<1> DEFINE parts == Fields265(s)
           place(k) == Place(0, parts, k)
<1>1. /\ place(0) = 0 /\ \A k \in 0..21 : place(k) \in 0..End
      /\ \A k \in 0..20 : /\ At(place(k), parts[k + 1])
                          /\ place(k + 1) = Behind(place(k), parts[k + 1])
  BY Fields265Read, Zenon
<1>2. /\ parts[1] = s.id
      /\ parts[2] = U(3, Len(s.layers))
      /\ parts[3] = s.profile
      /\ parts[4] = SubLayers(s.layers)
      /\ parts[5] = Ue(s.setId)
      /\ parts[6] = ChromaBits(s.chroma, s.plane)
      /\ parts[7] = Ues(s.size)
      /\ parts[8] = WindowOf(s.window)
      /\ parts[9] = Ues(s.depths)
      /\ parts[10] = Flag(s.everyLayer)
      /\ parts[11] = Ues(s.buffering)
      /\ parts[12] = Ues(s.blocks)
      /\ parts[13] = ScalingFields(s.scaling, s.matrices)
      /\ parts[14] = s.tools
      /\ parts[15] = PcmFields(s.coded, s.pcm)
      /\ parts[16] = Ue(Len(s.sets))
      /\ parts[17] = SetsOf(s.sets)
      /\ parts[18] = <<0>>
      /\ parts[19] = s.motion
  BY DEF Fields265
<1>3. /\ s.id \in Bits(4) /\ s.layers \in UpTo(6, Layers) /\ s.profile \in Bits(97)
      /\ s.setId \in Nat /\ s.chroma \in 0..3 /\ s.plane \in Bits(1)
      /\ s.everyLayer \in BOOLEAN
      /\ s.scaling \in BOOLEAN /\ s.matrices \in Option(Matrices)
      /\ s.tools \in Bits(2) /\ s.coded \in BOOLEAN /\ s.pcm \in Pcm
      /\ s.sets \in Seq(PictureSets) /\ s.motion \in Bits(2)
  <2>1. /\ s.id \in Bits(4) /\ s.layers \in UpTo(6, Layers) /\ s.profile \in Bits(97)
        /\ s.setId \in UeValues /\ s.chroma \in 0..3 /\ s.plane \in Bits(1)
        /\ s.everyLayer \in BOOLEAN
        /\ s.scaling \in BOOLEAN /\ s.matrices \in Option(Matrices)
        /\ s.tools \in Bits(2) /\ s.coded \in BOOLEAN /\ s.pcm \in Pcm
        /\ s.sets \in UpTo(64, PictureSets) /\ s.motion \in Bits(2)
    BY DEF Is265
  <2>2. s.setId \in Nat
    BY <2>1, UeValuesAre
  <2>3. s.sets \in Seq(PictureSets)
    BY <2>1 DEF UpTo
  <2> QED BY <2>1, <2>2, <2>3
<1>4. /\ s.size \in [1..2 -> Nat] /\ s.depths \in [1..3 -> Nat] /\ s.blocks \in [1..6 -> Nat]
  <2>1. /\ s.size \in [1..2 -> UeValues] /\ s.depths \in [1..3 -> UeValues]
        /\ s.blocks \in [1..6 -> UeValues]
    BY DEF Is265
  <2> QED BY <2>1, UeNumbers
<1>5. s.window \in Option([1..4 -> Nat])
  <2>1. s.window \in Windows
    BY DEF Is265
  <2> QED BY <2>1, UeValuesAre DEF Windows, Option
<1>6. End \in Nat
  BY BitType
<1>7. Len(s.layers) \in 0..6 /\ Len(s.layers) \in Nat
  BY <1>3, LayersAre
<1> HIDE DEF parts, place
<1>20. /\ place(0) \in 0..End /\ At(place(0), s.id)
       /\ place(1) = Behind(place(0), s.id)
  <2>1. 0 \in 0..20 /\ 0 \in 0..21 /\ 0 + 1 = 1
    OBVIOUS
  <2>2. parts[1] = s.id
    BY <1>2
  <2> QED BY <1>1, <2>1, <2>2
<1>21. /\ place(1) \in 0..End /\ At(place(1), U(3, Len(s.layers)))
       /\ place(2) = Behind(place(1), U(3, Len(s.layers)))
  <2>1. 1 \in 0..20 /\ 1 \in 0..21 /\ 1 + 1 = 2
    OBVIOUS
  <2>2. parts[2] = U(3, Len(s.layers))
    BY <1>2
  <2> QED BY <1>1, <2>1, <2>2
<1>22. /\ place(2) \in 0..End /\ At(place(2), s.profile)
       /\ place(3) = Behind(place(2), s.profile)
  <2>1. 2 \in 0..20 /\ 2 \in 0..21 /\ 2 + 1 = 3
    OBVIOUS
  <2>2. parts[3] = s.profile
    BY <1>2
  <2> QED BY <1>1, <2>1, <2>2
<1>23. /\ place(3) \in 0..End /\ At(place(3), SubLayers(s.layers))
       /\ place(4) = Behind(place(3), SubLayers(s.layers))
  <2>1. 3 \in 0..20 /\ 3 \in 0..21 /\ 3 + 1 = 4
    OBVIOUS
  <2>2. parts[4] = SubLayers(s.layers)
    BY <1>2
  <2> QED BY <1>1, <2>1, <2>2
<1>24. /\ place(4) \in 0..End /\ At(place(4), Ue(s.setId))
       /\ place(5) = Behind(place(4), Ue(s.setId))
  <2>1. 4 \in 0..20 /\ 4 \in 0..21 /\ 4 + 1 = 5
    OBVIOUS
  <2>2. parts[5] = Ue(s.setId)
    BY <1>2
  <2> QED BY <1>1, <2>1, <2>2
<1>25. /\ place(5) \in 0..End /\ At(place(5), ChromaBits(s.chroma, s.plane))
       /\ place(6) = Behind(place(5), ChromaBits(s.chroma, s.plane))
  <2>1. 5 \in 0..20 /\ 5 \in 0..21 /\ 5 + 1 = 6
    OBVIOUS
  <2>2. parts[6] = ChromaBits(s.chroma, s.plane)
    BY <1>2
  <2> QED BY <1>1, <2>1, <2>2
<1>26. /\ place(6) \in 0..End /\ At(place(6), Ues(s.size))
       /\ place(7) = Behind(place(6), Ues(s.size))
  <2>1. 6 \in 0..20 /\ 6 \in 0..21 /\ 6 + 1 = 7
    OBVIOUS
  <2>2. parts[7] = Ues(s.size)
    BY <1>2
  <2> QED BY <1>1, <2>1, <2>2
<1>27. /\ place(7) \in 0..End /\ At(place(7), WindowOf(s.window))
       /\ place(8) = Behind(place(7), WindowOf(s.window))
  <2>1. 7 \in 0..20 /\ 7 \in 0..21 /\ 7 + 1 = 8
    OBVIOUS
  <2>2. parts[8] = WindowOf(s.window)
    BY <1>2
  <2> QED BY <1>1, <2>1, <2>2
<1>28. /\ place(8) \in 0..End /\ At(place(8), Ues(s.depths))
       /\ place(9) = Behind(place(8), Ues(s.depths))
  <2>1. 8 \in 0..20 /\ 8 \in 0..21 /\ 8 + 1 = 9
    OBVIOUS
  <2>2. parts[9] = Ues(s.depths)
    BY <1>2
  <2> QED BY <1>1, <2>1, <2>2
<1>29. /\ place(9) \in 0..End /\ At(place(9), Flag(s.everyLayer))
       /\ place(10) = Behind(place(9), Flag(s.everyLayer))
  <2>1. 9 \in 0..20 /\ 9 \in 0..21 /\ 9 + 1 = 10
    OBVIOUS
  <2>2. parts[10] = Flag(s.everyLayer)
    BY <1>2
  <2> QED BY <1>1, <2>1, <2>2
<1>30. /\ place(10) \in 0..End /\ At(place(10), Ues(s.buffering))
       /\ place(11) = Behind(place(10), Ues(s.buffering))
  <2>1. 10 \in 0..20 /\ 10 \in 0..21 /\ 10 + 1 = 11
    OBVIOUS
  <2>2. parts[11] = Ues(s.buffering)
    BY <1>2
  <2> QED BY <1>1, <2>1, <2>2
<1>31. /\ place(11) \in 0..End /\ At(place(11), Ues(s.blocks))
       /\ place(12) = Behind(place(11), Ues(s.blocks))
  <2>1. 11 \in 0..20 /\ 11 \in 0..21 /\ 11 + 1 = 12
    OBVIOUS
  <2>2. parts[12] = Ues(s.blocks)
    BY <1>2
  <2> QED BY <1>1, <2>1, <2>2
<1>32. /\ place(12) \in 0..End /\ At(place(12), ScalingFields(s.scaling, s.matrices))
       /\ place(13) = Behind(place(12), ScalingFields(s.scaling, s.matrices))
  <2>1. 12 \in 0..20 /\ 12 \in 0..21 /\ 12 + 1 = 13
    OBVIOUS
  <2>2. parts[13] = ScalingFields(s.scaling, s.matrices)
    BY <1>2
  <2> QED BY <1>1, <2>1, <2>2
<1>33. /\ place(13) \in 0..End /\ At(place(13), s.tools)
       /\ place(14) = Behind(place(13), s.tools)
  <2>1. 13 \in 0..20 /\ 13 \in 0..21 /\ 13 + 1 = 14
    OBVIOUS
  <2>2. parts[14] = s.tools
    BY <1>2
  <2> QED BY <1>1, <2>1, <2>2
<1>34. /\ place(14) \in 0..End /\ At(place(14), PcmFields(s.coded, s.pcm))
       /\ place(15) = Behind(place(14), PcmFields(s.coded, s.pcm))
  <2>1. 14 \in 0..20 /\ 14 \in 0..21 /\ 14 + 1 = 15
    OBVIOUS
  <2>2. parts[15] = PcmFields(s.coded, s.pcm)
    BY <1>2
  <2> QED BY <1>1, <2>1, <2>2
<1>35. /\ place(15) \in 0..End /\ At(place(15), Ue(Len(s.sets)))
       /\ place(16) = Behind(place(15), Ue(Len(s.sets)))
  <2>1. 15 \in 0..20 /\ 15 \in 0..21 /\ 15 + 1 = 16
    OBVIOUS
  <2>2. parts[16] = Ue(Len(s.sets))
    BY <1>2
  <2> QED BY <1>1, <2>1, <2>2
<1>36. /\ place(16) \in 0..End /\ At(place(16), SetsOf(s.sets))
       /\ place(17) = Behind(place(16), SetsOf(s.sets))
  <2>1. 16 \in 0..20 /\ 16 \in 0..21 /\ 16 + 1 = 17
    OBVIOUS
  <2>2. parts[17] = SetsOf(s.sets)
    BY <1>2
  <2> QED BY <1>1, <2>1, <2>2
<1>37. /\ place(17) \in 0..End /\ At(place(17), <<0>>)
       /\ place(18) = Behind(place(17), <<0>>)
  <2>1. 17 \in 0..20 /\ 17 \in 0..21 /\ 17 + 1 = 18
    OBVIOUS
  <2>2. parts[18] = <<0>>
    BY <1>2
  <2> QED BY <1>1, <2>1, <2>2
<1>38. /\ place(18) \in 0..End /\ At(place(18), s.motion)
       /\ place(19) = Behind(place(18), s.motion)
  <2>1. 18 \in 0..20 /\ 18 \in 0..21 /\ 18 + 1 = 19
    OBVIOUS
  <2>2. parts[19] = s.motion
    BY <1>2
  <2> QED BY <1>1, <2>1, <2>2
<1>8. place(3) = 104 /\ ReadBits(4, 3) = Len(s.layers)
  <2> DEFINE zero == 0
             a == s.id
             three == 3
             four == 4
             n == Len(s.layers)
             u == U(three, n)
             b == s.profile
  <2>1. Len(a) = 4 /\ Len(b) = 97
    BY <1>3, BitsType
  <2>2. /\ three \in Nat /\ four \in Nat /\ four + three <= End /\ four = 4 /\ three = 3
        /\ place(0) = 0 /\ place(1) = Behind(place(0), a) /\ place(2) = Behind(place(1), u)
        /\ place(3) = Behind(place(2), b) /\ At(place(1), u)
    BY <1>1, <1>6, <1>20, <1>21, <1>22
  <2>3. n \in Word(three) /\ n \in Nat
    <3>1. n \in 0..7
      BY <1>7
    <3> HIDE DEF n
    <3>2. n \in Word(3)
      BY <3>1, LayersWord
    <3> QED BY <3>1, <3>2
  <2> HIDE DEF zero, a, three, four, n, b
  <2>4. Len(u) = three
    BY <2>2, <2>3, UType
  <2> HIDE DEF u
  <2>5. place(1) = SkipBits(0, 4) /\ place(2) = SkipBits(place(1), 3) /\ place(3) = SkipBits(place(2), 97)
    BY <2>1, <2>2, <2>4 DEF Behind
  <2>6. SkipBits(0, 4) = 4 /\ SkipBits(4, 3) = 7 /\ SkipBits(7, 97) = 104
    BY <1>6 DEF SkipBits
  <2>7. place(1) = four
    BY <2>2, <2>5, <2>6
  <2>8. ReadBits(four, three) = n
    <3>1. At(four, U(three, n))
      BY <2>2, <2>7 DEF u
    <3> QED BY <2>2, <2>3, <3>1, UReads
  <2> QED BY <2>2, <2>5, <2>6, <2>8 DEF n
<1>9. AfterProfile(ReadBits(4, 3)) = place(4)
  BY <1>3, <1>8, <1>23, SubLayersRead
<1>10. AfterUE(place(4)) = place(5)
  BY <1>3, <1>24, UeReads
<1>11. SkipBits(AfterUE(place(5)), IF ReadUE(place(5)) = 3 THEN 1 ELSE 0) = place(6)
  BY <1>3, <1>25, ChromaReads
<1>12. AfterUEs(place(6), 2) = place(7)
  <2> DEFINE two == 2
  <2>1. two \in Nat /\ s.size \in [1..two -> Nat]
    BY <1>4
  <2> HIDE DEF two
  <2>2. AfterUEs(place(6), two) = place(7)
    BY <1>26, <2>1, UesReads
  <2> QED BY <2>2 DEF two
<1>13. AfterOption(place(7), AfterUEs(place(7) + 1, 4)) = place(8)
  <2>1. WindowOf(s.window) = Optional(s.window # <<>>, Ues(s.window))
    BY DEF WindowOf
  <2> DEFINE four == 4
  <2>2. four \in Nat /\ s.window \in Option([1..four -> Nat])
    BY <1>5
  <2> HIDE DEF four
  <2>3. AfterOption(place(7), AfterUEs(place(7) + 1, four)) = Behind(place(7), WindowOf(s.window))
    BY <1>27, <2>1, <2>2, NumbersRead
  <2> QED BY <1>27, <2>3 DEF four
<1>14. AfterUEs(place(8), 3) = place(9)
  <2> DEFINE three == 3
  <2>1. three \in Nat /\ s.depths \in [1..three -> Nat]
    BY <1>4
  <2> HIDE DEF three
  <2>2. AfterUEs(place(8), three) = place(9)
    BY <1>28, <2>1, UesReads
  <2> QED BY <2>2 DEF three
<1>15. AfterUEs(SkipBits(place(9), 1), 3 * (IF Bit(place(9)) = 1 THEN Len(s.layers) + 1 ELSE 1))
           = place(11)
  <2> DEFINE n == Len(s.layers)
             b == s.everyLayer
             p == place(9)
             values == s.buffering
  <2>1. /\ n \in Nat /\ b \in BOOLEAN
        /\ values \in [1..(3 * (IF b THEN n + 1 ELSE 1)) -> UeValues]
    BY <1>7 DEF Is265
  <2>2. /\ p \in 0..End /\ At(p, Flag(b)) /\ At(Behind(p, Flag(b)), Ues(values))
        /\ place(11) = Behind(Behind(p, Flag(b)), Ues(values))
    BY <1>29, <1>30
  <2> HIDE DEF n, b, p, values
  <2>3. AfterUEs(SkipBits(p, 1), 3 * (IF Bit(p) = 1 THEN n + 1 ELSE 1))
            = Behind(Behind(p, Flag(b)), Ues(values))
    BY <2>1, <2>2, BufferingReads
  <2> QED BY <2>2, <2>3 DEF n, p
<1>16. AfterUEs(place(11), 6) = place(12)
  <2> DEFINE six == 6
  <2>1. six \in Nat /\ s.blocks \in [1..six -> Nat]
    BY <1>4
  <2> HIDE DEF six
  <2>2. AfterUEs(place(11), six) = place(12)
    BY <1>31, <2>1, UesReads
  <2> QED BY <2>2 DEF six
<1>17. AfterOption(place(12), AfterOption(place(12) + 1,
           Repeat([k \in Nat |-> [q \in Nat |-> AfterMatrix(q, k \div 6)]], place(12) + 2, 20)))
           = place(13)
  <2> DEFINE scaling == s.scaling
             matrices == s.matrices
             p == place(12)
  <2>1. /\ scaling \in BOOLEAN /\ matrices \in Option(Matrices)
        /\ p \in 0..End /\ At(p, ScalingFields(scaling, matrices))
        /\ place(13) = Behind(p, ScalingFields(scaling, matrices))
    BY <1>3, <1>32
  <2> HIDE DEF scaling, matrices, p
  <2>2. AfterOption(p, AfterOption(p + 1,
            Repeat([k \in Nat |-> [q \in Nat |-> AfterMatrix(q, k \div 6)]], p + 2, 20)))
            = Behind(p, ScalingFields(scaling, matrices))
    BY <2>1, ScalingReads, Zenon
  <2> QED BY <2>1, <2>2 DEF p
<1>18. AfterPcm(SkipBits(place(13), 2)) = place(15)
  <2>1. SkipBits(place(13), 2) = place(14)
    BY <1>3, <1>33, SkipOne
  <2>2. AfterPcm(place(14)) = Behind(place(14), PcmFields(s.coded, s.pcm))
    BY <1>3, <1>34, PcmReads
  <2> QED BY <1>34, <2>1, <2>2
<1>19. SkipBits(AfterLongTerm(AfterShortTermSets(place(15))), 2) = place(19)
  <2>1. AfterShortTermSets(place(15)) = place(17)
    <3> DEFINE p == place(15)
               sets == s.sets
    <3>1. /\ p \in 0..End /\ At(p, Ue(Len(sets))) /\ At(Behind(p, Ue(Len(sets))), SetsOf(sets))
          /\ place(17) = Behind(Behind(p, Ue(Len(sets))), SetsOf(sets))
          /\ sets \in Seq(PictureSets)
      BY <1>3, <1>35, <1>36
    <3> HIDE DEF p, sets
    <3>2. AfterShortTermSets(p) = Behind(Behind(p, Ue(Len(sets))), SetsOf(sets))
      BY <3>1, ShortTermSetsRead, Zenon DEF SetsOf
    <3> QED BY <3>1, <3>2 DEF p
  <2>2. AfterLongTerm(place(17)) = place(18)
    BY <1>37, LongTermReads
  <2>3. SkipBits(place(18), 2) = place(19)
    BY <1>3, <1>38, SkipOne
  <2> QED BY <2>1, <2>2, <2>3
<1> DEFINE subLayers == ReadBits(4, 3)
           chroma == AfterUE(AfterProfile(subLayers))
           size == SkipBits(AfterUE(chroma), IF ReadUE(chroma) = 3 THEN 1 ELSE 0)
           window == AfterUEs(size, 2)
           depths == AfterOption(window, AfterUEs(window + 1, 4))
           ordering == AfterUEs(depths, 3)
           blocks == AfterUEs(SkipBits(ordering, 1), 3 * (IF Bit(ordering) = 1 THEN subLayers + 1 ELSE 1))
           scaling == AfterUEs(blocks, 6)
           lists == Repeat([k \in Nat |-> [q \in Nat |-> AfterMatrix(q, k \div 6)]], scaling + 2, 20)
           tools == AfterOption(scaling, AfterOption(scaling + 1, lists))
           sets == AfterPcm(SkipBits(tools, 2))
<1>40. Vui265 = SkipBits(AfterLongTerm(AfterShortTermSets(sets)), 2)
  BY DEF Vui265
<1>41. chroma = place(5) /\ subLayers = Len(s.layers)
  BY <1>8, <1>9, <1>10, Zenon
<1> HIDE DEF chroma, subLayers
<1>42. size = place(6)
  BY <1>11, <1>41, Zenon
<1> HIDE DEF size
<1>43. window = place(7)
  BY <1>12, <1>42, Zenon
<1> HIDE DEF window
<1>44. depths = place(8)
  BY <1>13, <1>43, Zenon
<1> HIDE DEF depths
<1>45. ordering = place(9)
  BY <1>14, <1>44, Zenon
<1> HIDE DEF ordering
<1>46. blocks = place(11)
  BY <1>15, <1>41, <1>45, Zenon
<1> HIDE DEF blocks
<1>47. scaling = place(12)
  BY <1>16, <1>46, Zenon
<1> HIDE DEF scaling
<1>48. tools = place(13)
  BY <1>17, <1>47, Zenon
<1> HIDE DEF tools
<1>49. sets = place(15)
  BY <1>18, <1>48, Zenon
<1> HIDE DEF sets
<1> QED BY <1>19, <1>40, <1>49, Zenon DEF place, parts

\* ParseH265Fps likewise gives the rate of every SPS that Is265 describes.
THEOREM Sps265Reads ==
    ASSUME BitsOK, NEW s, Is265(s), At(0, Sps265(s)), End >= 104
    PROVE  /\ NotFaster(ParseH265Fps, RateOf(s, 1))
           /\ Len(Sps265(s)) <= End => ParseH265Fps = RateOf(s, 1)
<1> DEFINE parts == Fields265(s)
           p == Place(0, parts, 19)
           f == Usability265(s)
           display == SkipBits(AfterDescription(p + 1), 3)
           read == Timing(AfterOption(display, AfterUEs(display + 1, 4)), 1)
           wanted == TimingRate(s.timing, 1)
<1>1. p \in 0..End /\ At(p, parts[20]) /\ (Len(Sps265(s)) <= End => p + Len(parts[20]) <= End)
  <2>1. /\ \A k \in 0..21 : Place(0, parts, k) \in 0..End
        /\ \A k \in 0..20 : At(Place(0, parts, k), parts[k + 1])
        /\ Len(Sps265(s)) <= End => \A k \in 0..20 : Place(0, parts, k) + Len(parts[k + 1]) <= End
    BY Fields265Read, Zenon
  <2> HIDE DEF parts
  <2> QED BY <2>1
<1>2. parts[20] = Optional(s.vui, f)
  BY DEF Fields265
<1>3. Vui265 = p
  BY Vui265Reads
<1> HIDE DEF p, parts
<1>4. s.vui \in BOOLEAN /\ f \in Strings
  BY Usability265Types DEF Is265
<1>6. ASSUME p + 1 \in 0..End, At(p + 1, f)
      PROVE  NotFaster(read, wanted) /\ (p + 1 + Len(f) <= End => read = wanted)
  <2> DEFINE r == p + 1
             shown == SkipBits(AfterDescription(r), 3)
             rate == Timing(AfterOption(shown, AfterUEs(shown + 1, 4)), 1)
  <2>1. r \in 0..End /\ At(r, f)
    BY <1>6
  <2>2. rate = read
    OBVIOUS
  <2> HIDE DEF r
  <2>3. NotFaster(rate, wanted) /\ (r + Len(f) <= End => rate = wanted)
    BY <2>1, Usability265Reads, Zenon
  <2> HIDE DEF rate, read, f, wanted
  <2> QED BY <2>2, <2>3 DEF r
<1>7. ParseH265Fps = (IF Bit(p) = 0 THEN DEFAULT_FPS ELSE read)
  BY <1>3 DEF ParseH265Fps
<1> DEFINE vui == s.vui
<1> HIDE DEF read, wanted, f, vui
<1>8. /\ NotFaster(IF Bit(p) = 0 THEN DEFAULT_FPS ELSE read, IF vui THEN wanted ELSE DEFAULT_FPS)
      /\ p + Len(Optional(vui, f)) <= End =>
             (IF Bit(p) = 0 THEN DEFAULT_FPS ELSE read) = (IF vui THEN wanted ELSE DEFAULT_FPS)
  <2>1. vui \in BOOLEAN /\ At(p, Optional(vui, f)) /\ p \in 0..End
    BY <1>1, <1>2, <1>4 DEF vui
  <2> QED BY <1>4, <1>6, <2>1, RateBehindFlag
<1>9. RateOf(s, 1) = (IF vui THEN wanted ELSE DEFAULT_FPS)
  BY DEF RateOf, wanted, vui
<1> QED BY <1>1, <1>2, <1>7, <1>8, <1>9 DEF vui

\* This is the rate that the SPS has.
LEMMA RateOfIs ==
    ASSUME NEW s, s.vui \in BOOLEAN, s.timing \in Timings, NEW h \in BOOLEAN
    PROVE  RateOf(s, IF h THEN 1 ELSE 2) = Rate(s, h)
<1> DEFINE units == s.timing[1]
           scale == s.timing[2]
           ticks == IF h THEN 1 ELSE 2
<1>1. CASE ~s.vui \/ s.timing = <<>> \/ units = 0 \/ scale = 0
  BY <1>1 DEF RateOf, TimingRate, Rate, DEFAULT_FPS, Fps
<1>2. CASE ~(~s.vui \/ s.timing = <<>> \/ units = 0 \/ scale = 0)
  <2>1. s.timing \in [1..2 -> Word(32)]
    BY <1>2 DEF Timings, Option
  <2>2. units \in Nat /\ ticks \in Nat
    BY <2>1 DEF Word
  <2>3. RateOf(s, ticks) = Fps(scale, ticks * units) /\ Rate(s, h) = Fps(scale, units * ticks)
    BY <1>2 DEF RateOf, TimingRate, Rate, Fps
  <2> HIDE DEF units, scale, ticks
  <2>4. ticks * units = units * ticks
    BY <2>2
  <2>5. RateOf(s, ticks) = Rate(s, h)
    BY <2>3, <2>4
  <2> QED BY <2>5 DEF ticks
<1> QED BY <1>1, <1>2

----------------------------------------------------------------------------
(* The bytes of a string of bits.                                          *)

\* What both of them have is the same.
Starts(d, e) == \A k \in 1..Len(e) : k <= Len(d) => d[k] = e[k]

LEMMA PaddedIs ==
    ASSUME NEW data \in Strings
    PROVE  /\ Padded(data) \in Strings
           /\ \A k \in 1..Len(data) : Padded(data)[k] = data[k]
           /\ Padded(data)[Len(data) + 1] = 1
           /\ \E m \in Nat \ {0} : /\ Len(Padded(data)) = 8 * m
                                   /\ 8 * (m - 1) < Len(data) + 1 /\ Len(data) + 1 <= 8 * m
<1> DEFINE one == <<1>>
           stopped == data \o one
           n == Len(stopped)
           fill == (-n) % 8
           z == [k \in 1..fill |-> 0]
<1>1. one \in Strings /\ Len(one) = 1 /\ one[1] = 1
  BY DEF Strings
<1> HIDE DEF one
<1>2. /\ stopped \in Strings /\ n = Len(data) + 1 /\ Len(data) \in Nat
      /\ \A k \in 1..Len(data) : stopped[k] = data[k]
      /\ stopped[Len(data) + 1] = 1
  <2>1. /\ stopped \in Strings /\ n = Len(data) + Len(one) /\ Len(data) \in Nat
        /\ \A k \in 1..Len(data) : stopped[k] = data[k]
        /\ \A k \in 1..Len(one) : stopped[Len(data) + k] = one[k]
    BY <1>1, Joined
  <2>2. 1 \in 1..Len(one)
    BY <1>1
  <2>3. stopped[Len(data) + 1] = 1
    BY <1>1, <2>1, <2>2
  <2> QED BY <1>1, <2>1, <2>3
<1> HIDE DEF stopped
<1>3. n \in Nat
  BY <1>2
<1> HIDE DEF n
<1>4. fill \in 0..7 /\ (n + fill) % 8 = 0
  BY <1>3
<1> HIDE DEF fill
<1>5. z \in Strings /\ Len(z) = fill
  <2>1. z = ZeroBits(fill) /\ fill \in Nat
    BY <1>4 DEF ZeroBits
  <2> QED BY <2>1, ZeroBitsType
<1>6. Padded(data) = stopped \o z
  BY DEF Padded, stopped, z, fill, n, one
<1> HIDE DEF z
<1>7. /\ stopped \o z \in Strings /\ Len(stopped \o z) = n + fill
      /\ \A k \in 1..n : (stopped \o z)[k] = stopped[k]
  BY <1>2, <1>5, Joined DEF n
<1>8. \A k \in 1..Len(data) : k \in 1..n
  BY <1>2
<1>9. Len(data) + 1 \in 1..n
  BY <1>2
<1>10. \E m \in Nat \ {0} : n + fill = 8 * m /\ 8 * (m - 1) < n /\ n <= 8 * m
  <2> DEFINE m == (n + fill) \div 8
  <2>1. n > 0
    BY <1>2
  <2>2. n + fill = 8 * m /\ m \in Nat \ {0} /\ 8 * (m - 1) < n /\ n <= 8 * m
    BY <1>3, <1>4, <2>1
  <2> HIDE DEF m
  <2> QED BY <2>2
<1> QED BY <1>2, <1>6, <1>7, <1>8, <1>9, <1>10

\* A byte and its bits.
LEMMA ByteOfBits ==
    ASSUME NEW a \in {0, 1}, NEW b \in {0, 1}, NEW c \in {0, 1}, NEW d \in {0, 1},
           NEW e \in {0, 1}, NEW f \in {0, 1}, NEW g \in {0, 1}, NEW h \in {0, 1},
           NEW w, w = 128 * a + 64 * b + 32 * c + 16 * d + 8 * e + 4 * f + 2 * g + h
    PROVE  /\ w \in 0..255
           /\ (w \div 128) % 2 = a /\ (w \div 64) % 2 = b /\ (w \div 32) % 2 = c
           /\ (w \div 16) % 2 = d /\ (w \div 8) % 2 = e /\ (w \div 4) % 2 = f
           /\ (w \div 2) % 2 = g /\ (w \div 1) % 2 = h
           /\ w = 0 => a = 0 /\ b = 0 /\ c = 0 /\ d = 0 /\ e = 0 /\ f = 0 /\ g = 0 /\ h = 0
<1>1. w \in 0..255
  OBVIOUS
<1>2. w \div 1 = 2 * (64 * a + 32 * b + 16 * c + 8 * d + 4 * e + 2 * f + g) + h
  OBVIOUS
<1>3. w \div 2 = 2 * (32 * a + 16 * b + 8 * c + 4 * d + 2 * e + f) + g
  OBVIOUS
<1>4. w \div 4 = 2 * (16 * a + 8 * b + 4 * c + 2 * d + e) + f
  OBVIOUS
<1>5. w \div 8 = 2 * (8 * a + 4 * b + 2 * c + d) + e
  OBVIOUS
<1>6. w \div 16 = 2 * (4 * a + 2 * b + c) + d
  OBVIOUS
<1>7. w \div 32 = 2 * (2 * a + b) + c
  OBVIOUS
<1>8. w \div 64 = 2 * a + b
  OBVIOUS
<1>9. w \div 128 = a
  OBVIOUS
<1>10. \A x \in Int, y \in {0, 1} : (2 * x + y) % 2 = y
  OBVIOUS
<1>11. (w \div 1) % 2 = h /\ (w \div 2) % 2 = g /\ (w \div 4) % 2 = f /\ (w \div 8) % 2 = e
  BY <1>2, <1>3, <1>4, <1>5
<1>12. (w \div 16) % 2 = d /\ (w \div 32) % 2 = c /\ (w \div 64) % 2 = b /\ (w \div 128) % 2 = a
  BY <1>6, <1>7, <1>8, <1>9
<1>13. w = 0 => a = 0 /\ b = 0 /\ c = 0 /\ d = 0 /\ e = 0 /\ f = 0 /\ g = 0 /\ h = 0
  OBVIOUS
<1> QED BY <1>1, <1>11, <1>12, <1>13

LEMMA ToBytesIs ==
    ASSUME NEW data \in Strings
    PROVE  \E m \in Nat \ {0} :
               /\ Len(ToBytes(data)) = m /\ ToBytes(data) \in Seq(0..255)
               /\ 8 * (m - 1) < Len(data) + 1 /\ Len(data) + 1 <= 8 * m
               /\ \A b \in 1..m, k \in 1..8 :
                      (ToBytes(data)[b] \div Pow2(8 - k)) % 2 = Padded(data)[8 * (b - 1) + k]
               /\ ToBytes(data)[m] # 0
<1> DEFINE p == Padded(data)
           v(b, k) == p[8 * (b - 1) + k]
           byte(b) == 128 * v(b, 1) + 64 * v(b, 2) + 32 * v(b, 3) + 16 * v(b, 4)
                      + 8 * v(b, 5) + 4 * v(b, 6) + 2 * v(b, 7) + v(b, 8)
           bytes == ToBytes(data)
<1>1. p \in Strings /\ p[Len(data) + 1] = 1 /\ Len(data) \in Nat
  BY PaddedIs, Length
<1>2. PICK m \in Nat \ {0} : /\ Len(p) = 8 * m
                             /\ 8 * (m - 1) < Len(data) + 1 /\ Len(data) + 1 <= 8 * m
  BY PaddedIs
<1>3. bytes = [b \in 1..(Len(p) \div 8) |-> byte(b)]
  BY DEF ToBytes
<1>4. Len(p) \div 8 = m
  BY <1>2
<1> HIDE DEF p, bytes
<1>5. ASSUME NEW b \in 1..m, NEW k \in 1..8 PROVE v(b, k) \in {0, 1}
  <2> DEFINE j == 8 * (b - 1) + k
  <2>1. j \in 1..Len(p)
    BY <1>2
  <2> HIDE DEF j
  <2>2. p[j] \in {0, 1}
    BY <1>1, <2>1, ElementOfSeq DEF Strings
  <2> QED BY <2>2 DEF j
<1>6. \A b \in 1..m : bytes[b] = byte(b)
  BY <1>3, <1>4
<1>7. ASSUME NEW b \in 1..m
      PROVE  /\ bytes[b] \in 0..255
             /\ \A k \in 1..8 : (bytes[b] \div Pow2(8 - k)) % 2 = v(b, k)
             /\ bytes[b] = 0 => \A k \in 1..8 : v(b, k) = 0
  <2> DEFINE w == bytes[b]
             x1 == v(b, 1)
             x2 == v(b, 2)
             x3 == v(b, 3)
             x4 == v(b, 4)
             x5 == v(b, 5)
             x6 == v(b, 6)
             x7 == v(b, 7)
             x8 == v(b, 8)
  <2>1. /\ x1 \in {0, 1} /\ x2 \in {0, 1} /\ x3 \in {0, 1} /\ x4 \in {0, 1}
        /\ x5 \in {0, 1} /\ x6 \in {0, 1} /\ x7 \in {0, 1} /\ x8 \in {0, 1}
    <3> HIDE DEF v
    <3> QED BY <1>5
  <2>2. w = 128 * x1 + 64 * x2 + 32 * x3 + 16 * x4 + 8 * x5 + 4 * x6 + 2 * x7 + x8
    BY <1>6
  <2> HIDE DEF w, x1, x2, x3, x4, x5, x6, x7, x8
  <2>3. /\ w \in 0..255
        /\ (w \div 128) % 2 = x1 /\ (w \div 64) % 2 = x2 /\ (w \div 32) % 2 = x3
        /\ (w \div 16) % 2 = x4 /\ (w \div 8) % 2 = x5 /\ (w \div 4) % 2 = x6
        /\ (w \div 2) % 2 = x7 /\ (w \div 1) % 2 = x8
        /\ w = 0 => x1 = 0 /\ x2 = 0 /\ x3 = 0 /\ x4 = 0 /\ x5 = 0 /\ x6 = 0 /\ x7 = 0 /\ x8 = 0
    BY <2>1, <2>2, ByteOfBits
  <2>4. ASSUME NEW k \in 1..8
        PROVE  (w \div Pow2(8 - k)) % 2 = v(b, k) /\ (w = 0 => v(b, k) = 0)
    <3>1. k = 1 \/ k = 2 \/ k = 3 \/ k = 4 \/ k = 5 \/ k = 6 \/ k = 7 \/ k = 8
      OBVIOUS
    <3>2. /\ 8 - 1 = 7 /\ 8 - 2 = 6 /\ 8 - 3 = 5 /\ 8 - 4 = 4
          /\ 8 - 5 = 3 /\ 8 - 6 = 2 /\ 8 - 7 = 1 /\ 8 - 8 = 0
      OBVIOUS
    <3> HIDE DEF v
    <3>3. CASE k = 1
      BY <2>3, <3>2, <3>3, PowValues DEF x1
    <3>4. CASE k = 2
      BY <2>3, <3>2, <3>4, PowValues DEF x2
    <3>5. CASE k = 3
      BY <2>3, <3>2, <3>5, PowValues DEF x3
    <3>6. CASE k = 4
      BY <2>3, <3>2, <3>6, PowValues DEF x4
    <3>7. CASE k = 5
      BY <2>3, <3>2, <3>7, PowValues DEF x5
    <3>8. CASE k = 6
      BY <2>3, <3>2, <3>8, PowValues DEF x6
    <3>9. CASE k = 7
      BY <2>3, <3>2, <3>9, PowValues DEF x7
    <3>10. CASE k = 8
      BY <2>3, <3>2, <3>10, PowValues DEF x8
    <3> QED BY <3>1, <3>3, <3>4, <3>5, <3>6, <3>7, <3>8, <3>9, <3>10
  <2> QED BY <2>3, <2>4 DEF w
<1>8. bytes \in Seq(0..255) /\ Len(bytes) = m
  <2>1. bytes = [b \in 1..m |-> bytes[b]]
    BY <1>3, <1>4
  <2>2. bytes \in [1..m -> 0..255]
    <3> HIDE DEF v
    <3> QED BY <1>7, <2>1
  <2> QED BY <2>1, <2>2
<1>9. bytes[m] # 0
  <2> DEFINE k == Len(data) + 1 - 8 * (m - 1)
  <2>1. k \in 1..8 /\ 8 * (m - 1) + k = Len(data) + 1 /\ m \in 1..m
    BY <1>1, <1>2
  <2>2. v(m, k) = 1
    BY <1>1, <2>1
  <2> HIDE DEF v, k
  <2> QED BY <1>7, <2>1, <2>2
<1> QED BY <1>2, <1>7, <1>8, <1>9 DEF bytes, p

\* The reader's bits start with those that were made to bytes, as far as the
\* bytes are the same.
LEMMA BitsOfBytes ==
    ASSUME NEW data \in Strings, NEW bytes \in Seq(0..255), Starts(bytes, ToBytes(data))
    PROVE  /\ Starts(BitsOf(bytes), data)
           /\ Len(ToBytes(data)) <= Len(bytes) => Len(data) <= Len(BitsOf(bytes))
<1> DEFINE e == ToBytes(data)
           n == Len(bytes)
           d == BitsOf(bytes)
<1>1. PICK m \in Nat \ {0} :
          /\ Len(e) = m
          /\ 8 * (m - 1) < Len(data) + 1 /\ Len(data) + 1 <= 8 * m
          /\ \A b \in 1..m, k \in 1..8 :
                 (e[b] \div Pow2(8 - k)) % 2 = Padded(data)[8 * (b - 1) + k]
  BY ToBytesIs
<1>2. n \in Nat /\ Len(d) = 8 * n /\ Len(data) \in Nat
  BY BitsOfType, LenProperties, Length
<1>3. \A j \in 1..(8 * n) : d[j] = (bytes[((j - 1) \div 8) + 1] \div Pow2(7 - ((j - 1) % 8))) % 2
  BY DEF BitsOf
<1>4. Starts(bytes, e)
  OBVIOUS
<1> HIDE DEF e, n, d
<1>5. ASSUME NEW j \in 1..Len(data), j <= Len(d) PROVE d[j] = data[j]
  <2> DEFINE b == ((j - 1) \div 8) + 1
             r == (j - 1) % 8
             k == r + 1
  <2>1. j \in 1..(8 * n) /\ j < 8 * m
    BY <1>1, <1>2, <1>5
  <2>2. b \in 1..n /\ b \in 1..m /\ r \in 0..7 /\ k \in 1..8 /\ 8 - k = 7 - r /\ 8 * (b - 1) + k = j
    <3> DEFINE x == j - 1
               q == x \div 8
    <3>1. x \in Nat /\ x < 8 * n /\ x < 8 * m - 1 /\ j = x + 1
      BY <1>1, <1>2, <2>1
    <3>2. b = q + 1 /\ r = x % 8
      OBVIOUS
    <3> HIDE DEF b, x
    <3>3. q \in Nat /\ r \in 0..7 /\ x = 8 * q + r
      BY <3>1, <3>2
    <3> HIDE DEF q, r
    <3>4. q < n /\ q < m
      BY <1>2, <3>1, <3>3
    <3> QED BY <1>2, <3>1, <3>2, <3>3, <3>4
  <2>3. d[j] = (bytes[b] \div Pow2(7 - r)) % 2
    BY <1>3, <2>1
  <2> HIDE DEF b, r, k
  <2>4. bytes[b] = e[b]
    <3>1. b \in 1..Len(e) /\ b <= Len(bytes)
      BY <1>1, <1>2, <2>2 DEF n
    <3> QED BY <1>4, <3>1 DEF Starts
  <2>5. (e[b] \div Pow2(8 - k)) % 2 = Padded(data)[8 * (b - 1) + k]
    BY <1>1, <2>2
  <2>6. d[j] = Padded(data)[j]
    BY <2>2, <2>3, <2>4, <2>5
  <2> QED BY <2>6, PaddedIs
<1>6. ASSUME m <= n PROVE Len(data) <= Len(d)
  BY <1>1, <1>2, <1>6
<1> QED BY <1>1, <1>5, <1>6 DEF Starts, d, n, e

----------------------------------------------------------------------------
(* Emulation prevention.                                                   *)

Octets == Seq(0..255)

LEMMA OctetsAre ==
    ASSUME NEW e \in Octets
    PROVE  Len(e) \in Nat /\ \A k \in 1..Len(e) : e[k] \in 0..255 /\ e[k] \in Nat
<1>1. Len(e) \in Nat
  BY LenProperties DEF Octets
<1>2. ASSUME NEW k \in 1..Len(e) PROVE e[k] \in 0..255
  BY ElementOfSeq DEF Octets
<1>3. \A b \in 0..255 : b \in Nat
  OBVIOUS
<1> QED BY <1>1, <1>2, <1>3

LEMMA OctetAppended ==
    ASSUME NEW e \in Octets, NEW b \in 0..255
    PROVE  /\ Append(e, b) \in Octets /\ Len(Append(e, b)) = Len(e) + 1 /\ Len(e) \in Nat
           /\ \A k \in 1..Len(e) : Append(e, b)[k] = e[k]
           /\ Append(e, b)[Len(e) + 1] = b
BY AppendProperties, LenProperties DEF Octets

LEMMA OctetsJoined ==
    ASSUME NEW a \in Octets, NEW b \in Octets
    PROVE  /\ a \o b \in Octets /\ Len(a \o b) = Len(a) + Len(b)
           /\ \A k \in 1..(Len(a) + Len(b)) : (a \o b)[k] = IF k <= Len(a) THEN a[k] ELSE b[k - Len(a)]
BY ConcatProperties, LenProperties DEF Octets

LEMMA TwoOctets ==
    ASSUME NEW e \in Octets, NEW b \in 0..255, NEW c \in 0..255
    PROVE  e \o <<b, c>> = Append(Append(e, b), c)
<1> DEFINE s == <<b, c>>
           f == Append(e, b)
           g == Append(f, c)
           n == Len(e)
           h == e \o s
<1>1. s \in Octets /\ Len(s) = 2 /\ s[1] = b /\ s[2] = c
  BY DEF Octets
<1>2. /\ f \in Octets /\ Len(f) = n + 1 /\ n \in Nat /\ f[n + 1] = b
      /\ \A k \in 1..n : f[k] = e[k]
  BY OctetAppended
<1> HIDE DEF f, s
<1>3. /\ g \in Octets /\ Len(g) = n + 2 /\ g[n + 2] = c
      /\ \A k \in 1..(n + 1) : g[k] = f[k]
  <2>1. /\ g \in Octets /\ Len(g) = Len(f) + 1 /\ g[Len(f) + 1] = c
        /\ \A k \in 1..Len(f) : g[k] = f[k]
    BY <1>2, OctetAppended
  <2>2. Len(f) + 1 = n + 2
    BY <1>2
  <2> QED BY <1>2, <2>1, <2>2
<1>4. /\ h \in Octets /\ Len(h) = n + 2
      /\ \A k \in 1..(n + 2) : h[k] = IF k <= n THEN e[k] ELSE s[k - n]
  <2>1. /\ h \in Octets /\ Len(h) = Len(e) + Len(s)
        /\ \A k \in 1..(Len(e) + Len(s)) : h[k] = IF k <= Len(e) THEN e[k] ELSE s[k - Len(e)]
    BY <1>1, OctetsJoined
  <2> HIDE DEF h
  <2>2. Len(e) + Len(s) = n + 2
    BY <1>1
  <2> QED BY <2>1, <2>2
<1> HIDE DEF g, h, n
<1>5. ASSUME NEW k \in 1..(n + 2) PROVE h[k] = g[k]
  <2>1. CASE k <= n
    <3>1. k \in 1..n /\ k \in 1..(n + 1)
      BY <1>2, <2>1
    <3> QED BY <1>2, <1>3, <1>4, <2>1, <3>1
  <2>2. CASE k = n + 1
    <3>1. ~(k <= n) /\ k - n = 1 /\ k \in 1..(n + 1)
      BY <1>2, <2>2
    <3>2. h[k] = s[1]
      BY <1>4, <3>1
    <3>3. g[k] = f[n + 1]
      BY <1>3, <2>2, <3>1
    <3> QED BY <1>1, <1>2, <3>2, <3>3
  <2>3. CASE k = n + 2
    <3>1. ~(k <= n) /\ k - n = 2
      BY <1>2, <2>3
    <3>2. h[k] = s[2]
      BY <1>4, <3>1
    <3> QED BY <1>1, <1>3, <2>3, <3>2
  <2> QED BY <1>2, <2>1, <2>2, <2>3
<1>6. h = g
  <2>1. h \in Seq(0..255) /\ g \in Seq(0..255)
    BY <1>3, <1>4 DEF Octets
  <2> QED BY <1>3, <1>4, <1>5, <2>1, SeqEqual
<1> QED BY <1>6 DEF s, g, f, h

\* What is left of the first k bytes.
Rbsp(d, k) ==
    Repeat([j \in Nat |-> [rbsp \in Seq(Nat) |->
               IF j >= 2 /\ d[j + 1] = 3 /\ d[j] = 0 /\ d[j - 1] = 0 THEN rbsp
               ELSE Append(rbsp, d[j + 1])]],
           <<>>, k)

Dropped(d, k) == k >= 2 /\ d[k + 1] = 3 /\ d[k] = 0 /\ d[k - 1] = 0

LEMMA RbspStep ==
    ASSUME NEW n \in Nat, NEW d, \A k \in 1..n : d[k] \in 0..255
    PROVE  /\ Rbsp(d, 0) = <<>>
           /\ \A k \in 0..n : Rbsp(d, k) \in Octets
           /\ \A k \in 0..(n - 1) :
                  Rbsp(d, k + 1) = IF Dropped(d, k) THEN Rbsp(d, k) ELSE Append(Rbsp(d, k), d[k + 1])
<1> DEFINE step == [j \in Nat |-> [rbsp \in Seq(Nat) |->
                       IF j >= 2 /\ d[j + 1] = 3 /\ d[j] = 0 /\ d[j - 1] = 0 THEN rbsp
                       ELSE Append(rbsp, d[j + 1])]]
           T == {k \in Nat : Rbsp(d, k) \in Octets}
<1>1. \A k \in Nat, e \in Seq(Nat) :
          step[k][e] = IF Dropped(d, k) THEN e ELSE Append(e, d[k + 1])
  BY DEF Dropped
<1>2. \A k : Rbsp(d, k) = Repeat(step, <<>>, k)
  BY DEF Rbsp
<1> HIDE DEF step
<1>3. \A k \in Nat : Rbsp(d, 0) = <<>> /\ Rbsp(d, k + 1) = step[k][Rbsp(d, k)]
  BY <1>2, RepeatStep
<1>4. \A e \in Octets : e \in Seq(Nat)
  BY OctetsAre, Widened DEF Octets
<1>5. 0 \in T
  <2>1. <<>> \in Octets
    BY EmptySeq DEF Octets
  <2> QED BY <1>3, <2>1
<1>6. ASSUME NEW k \in 0..(n - 1), Rbsp(d, k) \in Octets
      PROVE  /\ Rbsp(d, k + 1) = IF Dropped(d, k) THEN Rbsp(d, k) ELSE Append(Rbsp(d, k), d[k + 1])
             /\ Rbsp(d, k + 1) \in Octets
  <2>1. k \in Nat /\ k + 1 \in 1..n
    OBVIOUS
  <2>2. Rbsp(d, k + 1) = IF Dropped(d, k) THEN Rbsp(d, k) ELSE Append(Rbsp(d, k), d[k + 1])
    BY <1>1, <1>3, <1>4, <1>6, <2>1
  <2>3. Append(Rbsp(d, k), d[k + 1]) \in Octets
    BY <1>6, <2>1, OctetAppended
  <2> QED BY <1>6, <2>2, <2>3
<1>7. \A k \in 0..(n - 1) : k \in T => k + 1 \in T
  <2> SUFFICES ASSUME NEW k \in 0..(n - 1), k \in T PROVE k + 1 \in T
    OBVIOUS
  <2>1. k + 1 \in Nat
    OBVIOUS
  <2> QED BY <1>6, <2>1
<1> HIDE DEF T
<1>8. \A k \in 0..n : k \in T
  BY <1>5, <1>7, UpToInduction
<1>9. \A k \in 0..n : Rbsp(d, k) \in Octets
  BY <1>8 DEF T
<1>10. \A k \in 0..(n - 1) :
           Rbsp(d, k + 1) = IF Dropped(d, k) THEN Rbsp(d, k) ELSE Append(Rbsp(d, k), d[k + 1])
  <2> SUFFICES ASSUME NEW k \in 0..(n - 1)
               PROVE  Rbsp(d, k + 1) = IF Dropped(d, k) THEN Rbsp(d, k) ELSE Append(Rbsp(d, k), d[k + 1])
    OBVIOUS
  <2>1. k \in 0..n
    OBVIOUS
  <2> QED BY <1>6, <1>9, <2>1
<1>11. Rbsp(d, 0) = <<>>
  <2>1. 0 \in Nat
    OBVIOUS
  <2> QED BY <1>3, <2>1
<1> QED BY <1>9, <1>10, <1>11

LEMMA RbspIs ==
    ASSUME NEW d \in Octets
    PROVE  RemoveEmulationPrevention(d) = Rbsp(d, Len(d))
BY DEF RemoveEmulationPrevention, Rbsp

\* It depends on no byte behind them.
LEMMA RbspSame ==
    ASSUME NEW n \in Nat, NEW d, NEW e, \A k \in 1..n : d[k] = e[k] /\ d[k] \in 0..255
    PROVE  Rbsp(d, n) = Rbsp(e, n)
<1> DEFINE T == {k \in Nat : Rbsp(d, k) = Rbsp(e, k)}
<1>1. /\ Rbsp(d, 0) = <<>>
      /\ \A k \in 0..(n - 1) :
             Rbsp(d, k + 1) = IF Dropped(d, k) THEN Rbsp(d, k) ELSE Append(Rbsp(d, k), d[k + 1])
  BY RbspStep
<1>2. /\ Rbsp(e, 0) = <<>>
      /\ \A k \in 0..(n - 1) :
             Rbsp(e, k + 1) = IF Dropped(e, k) THEN Rbsp(e, k) ELSE Append(Rbsp(e, k), e[k + 1])
  <2>1. \A k \in 1..n : e[k] \in 0..255
    OBVIOUS
  <2> QED BY <2>1, RbspStep
<1>3. 0 \in T
  BY <1>1, <1>2
<1>4. ASSUME NEW k \in 0..(n - 1), k \in T PROVE k + 1 \in T
  <2>1. k \in Nat /\ k + 1 \in 1..n /\ k + 1 \in Nat
    OBVIOUS
  <2>2. d[k + 1] = e[k + 1]
    BY <2>1
  <2>3. Dropped(d, k) <=> Dropped(e, k)
    <3>1. CASE k >= 2
      <4>1. k \in 1..n /\ k - 1 \in 1..n
        BY <3>1
      <4>2. d[k] = e[k] /\ d[k - 1] = e[k - 1]
        BY <4>1
      <4> QED BY <2>2, <4>2 DEF Dropped
    <3>2. CASE ~(k >= 2)
      BY <3>2 DEF Dropped
    <3> QED BY <3>1, <3>2
  <2>4. Rbsp(d, k) = Rbsp(e, k)
    BY <1>4
  <2>5. Rbsp(d, k + 1) = Rbsp(e, k + 1)
    BY <1>1, <1>2, <2>2, <2>3, <2>4
  <2> QED BY <2>1, <2>5
<1> HIDE DEF T
<1>5. \A k \in 0..n : k \in T
  BY <1>3, <1>4, UpToInduction
<1>6. n \in T
  <2>1. n \in 0..n
    OBVIOUS
  <2> QED BY <1>5, <2>1
<1> QED BY <1>6 DEF T

\* What is left of some bytes begins with what is left of the first of them.
LEMMA RbspGrows ==
    ASSUME NEW n \in Nat, NEW m \in 0..n, NEW d, \A k \in 1..n : d[k] \in 0..255
    PROVE  /\ Rbsp(d, m) \in Octets /\ Rbsp(d, n) \in Octets
           /\ Len(Rbsp(d, m)) <= Len(Rbsp(d, n))
           /\ \A k \in 1..Len(Rbsp(d, m)) : Rbsp(d, n)[k] = Rbsp(d, m)[k]
<1> DEFINE e == Rbsp(d, m)
           Begun(f) == Len(e) <= Len(f) /\ \A k \in 1..Len(e) : f[k] = e[k]
           T == {k \in Nat : m + k <= n => Begun(Rbsp(d, m + k))}
           l == n - m
<1>1. /\ \A k \in 0..n : Rbsp(d, k) \in Octets
      /\ \A k \in 0..(n - 1) :
             Rbsp(d, k + 1) = IF Dropped(d, k) THEN Rbsp(d, k) ELSE Append(Rbsp(d, k), d[k + 1])
  BY RbspStep
<1>2. e \in Octets /\ Rbsp(d, n) \in Octets /\ m \in Nat /\ l \in Nat /\ m + l = n
  BY <1>1
<1>3. Len(e) \in Nat
  BY <1>2, OctetsAre
<1>4. 0 \in T
  <2>1. m + 0 = m
    BY <1>2
  <2>2. Begun(Rbsp(d, m + 0))
    BY <1>3, <2>1
  <2> HIDE DEF Begun
  <2> QED BY <2>2
<1>5. ASSUME NEW k \in 0..(l - 1), k \in T PROVE k + 1 \in T
  <2> DEFINE j == m + k
             f == Rbsp(d, j)
  <2>1. j \in 0..(n - 1) /\ j \in 0..n /\ j + 1 \in 1..n /\ j + 1 = m + (k + 1) /\ k + 1 \in Nat /\ k \in Nat
    BY <1>2
  <2>2. Begun(f)
    BY <2>1, <1>5
  <2> HIDE DEF j
  <2>3. f \in Octets /\ d[j + 1] \in 0..255
    BY <1>1, <2>1
  <2>4. Rbsp(d, j + 1) = f \/ Rbsp(d, j + 1) = Append(f, d[j + 1])
    BY <1>1, <2>1
  <2> DEFINE g == Append(f, d[j + 1])
  <2>5. Len(g) = Len(f) + 1 /\ Len(f) \in Nat /\ \A q \in 1..Len(f) : g[q] = f[q]
    BY <2>3, OctetAppended
  <2> HIDE DEF f, g, e
  <2>6. Begun(g)
    <3>1. \A q \in 1..Len(e) : q \in 1..Len(f)
      BY <1>3, <2>2, <2>5
    <3>2. Len(e) <= Len(g)
      BY <1>3, <2>2, <2>5
    <3>3. \A q \in 1..Len(e) : g[q] = e[q]
      BY <2>2, <2>5, <3>1
    <3> QED BY <3>2, <3>3
  <2>7. Begun(Rbsp(d, j + 1))
    BY <2>2, <2>4, <2>6 DEF g
  <2> HIDE DEF Begun
  <2> QED BY <2>1, <2>7
<1> HIDE DEF T
<1>6. l \in 0..l
  BY <1>2
<1> HIDE DEF l
<1>7. \A k \in 0..l : k \in T
  BY <1>2, <1>4, <1>5, UpToInduction
<1>8. l \in T
  BY <1>6, <1>7
<1>9. Begun(Rbsp(d, n))
  <2> HIDE DEF Begun
  <2> QED BY <1>2, <1>8 DEF T
<1> QED BY <1>2, <1>9

\* The first k bytes as they are written.
Escaped(x, k) ==
    Repeat([j \in Nat |-> [e \in Seq(Nat) |->
               LET n == Len(e)
               IN  IF n >= 2 /\ e[n] = 0 /\ e[n - 1] = 0 /\ x[j + 1] <= 3
                   THEN e \o <<3, x[j + 1]>> ELSE Append(e, x[j + 1])]],
           <<>>, k)

\* A byte b behind e is one that needs a 3 before it.
Confused(e, b) == Len(e) >= 2 /\ e[Len(e)] = 0 /\ e[Len(e) - 1] = 0 /\ b <= 3
Written(e, b) == IF Confused(e, b) THEN Append(Append(e, 3), b) ELSE Append(e, b)

LEMMA EscapedStep ==
    ASSUME NEW x \in Octets
    PROVE  /\ Escaped(x, 0) = <<>> /\ Escape(x) = Escaped(x, Len(x))
           /\ \A k \in 0..(Len(x) - 1) :
                  Escaped(x, k) \in Octets => Escaped(x, k + 1) = Written(Escaped(x, k), x[k + 1])
<1> DEFINE step == [j \in Nat |-> [e \in Seq(Nat) |->
                       LET n == Len(e)
                       IN  IF n >= 2 /\ e[n] = 0 /\ e[n - 1] = 0 /\ x[j + 1] <= 3
                           THEN e \o <<3, x[j + 1]>> ELSE Append(e, x[j + 1])]]
<1>1. \A k \in Nat, e \in Seq(Nat) :
          step[k][e] = IF Confused(e, x[k + 1]) THEN e \o <<3, x[k + 1]>> ELSE Append(e, x[k + 1])
  BY DEF Confused
<1>2. \A k : Escaped(x, k) = Repeat(step, <<>>, k)
  BY DEF Escaped
<1>3. Escape(x) = Escaped(x, Len(x))
  BY DEF Escape, Escaped
<1> HIDE DEF step
<1>4. \A k \in Nat : Escaped(x, 0) = <<>> /\ Escaped(x, k + 1) = step[k][Escaped(x, k)]
  BY <1>2, RepeatStep
<1>5. ASSUME NEW e \in Octets PROVE e \in Seq(Nat)
  <2>1. 0..255 \subseteq Nat
    OBVIOUS
  <2> QED BY <2>1, Widened DEF Octets
<1>6. ASSUME NEW k \in 0..(Len(x) - 1), Escaped(x, k) \in Octets
      PROVE  Escaped(x, k + 1) = Written(Escaped(x, k), x[k + 1])
  <2> DEFINE e == Escaped(x, k)
             b == x[k + 1]
             three == 3
  <2>1. k \in Nat /\ k + 1 \in 1..Len(x)
    BY OctetsAre
  <2>2. e \in Octets /\ e \in Seq(Nat)
    BY <1>5, <1>6
  <2>3. b \in 0..255 /\ three \in 0..255
    BY <2>1, OctetsAre
  <2>4. Escaped(x, k + 1) = IF Confused(e, b) THEN e \o <<three, b>> ELSE Append(e, b)
    <3>1. Escaped(x, k + 1) = step[k][e]
      BY <1>4, <2>1
    <3> HIDE DEF e
    <3> QED BY <1>1, <2>1, <2>2, <3>1
  <2> HIDE DEF e, b, three
  <2>5. e \o <<three, b>> = Append(Append(e, three), b)
    BY <2>2, <2>3, TwoOctets
  <2>6. Escaped(x, k + 1) = Written(e, b)
    BY <2>4, <2>5 DEF Written, three
  <2> QED BY <2>6 DEF e, b
<1>7. Escaped(x, 0) = <<>>
  <2>1. 0 \in Nat
    OBVIOUS
  <2> QED BY <1>4, <2>1
<1> QED BY <1>3, <1>6, <1>7

\* No three bytes begin like a start code.
Distinct(e) == \A p \in 1..(Len(e) - 2) : ~(e[p] = 0 /\ e[p + 1] = 0 /\ e[p + 2] <= 2)

LEMMA DistinctAppended ==
    ASSUME NEW e \in Octets, NEW b \in 0..255, Distinct(e),
           ~(Len(e) >= 2 /\ e[Len(e)] = 0 /\ e[Len(e) - 1] = 0 /\ b <= 2)
    PROVE  Distinct(Append(e, b))
<1> DEFINE f == Append(e, b)
           n == Len(e)
<1>1. f \in Octets /\ Len(f) = n + 1 /\ n \in Nat /\ f[n + 1] = b /\ \A k \in 1..n : f[k] = e[k]
  BY OctetAppended
<1> HIDE DEF f
<1>2. ASSUME NEW p \in 1..(Len(f) - 2), f[p] = 0, f[p + 1] = 0, f[p + 2] <= 2 PROVE FALSE
  <2>1. p \in 1..(n - 1) /\ n \in Nat
    BY <1>1
  <2>2. p \in 1..n /\ p + 1 \in 1..n
    BY <2>1
  <2>3. e[p] = 0 /\ e[p + 1] = 0
    BY <1>1, <1>2, <2>2
  <2>4. CASE p + 2 <= n
    <3>1. p + 2 \in 1..n /\ p \in 1..(n - 2)
      BY <2>1, <2>4
    <3>2. f[p + 2] = e[p + 2]
      BY <1>1, <3>1
    <3> QED BY <1>2, <2>3, <3>1, <3>2 DEF Distinct
  <2>5. CASE ~(p + 2 <= n)
    <3>1. p = n - 1 /\ n >= 2
      BY <2>1, <2>5
    <3>2. p + 1 = n /\ p + 2 = n + 1
      BY <2>1, <3>1
    <3>3. e[n] = 0 /\ e[n - 1] = 0 /\ b <= 2
      BY <1>1, <1>2, <2>3, <3>1, <3>2
    <3> QED BY <3>1, <3>3
  <2> QED BY <2>4, <2>5
<1> QED BY <1>2 DEF Distinct, f

\* What is left of bytes with one more behind them.
LEMMA RbspAppended ==
    ASSUME NEW e \in Octets, NEW b \in 0..255
    PROVE  RemoveEmulationPrevention(Append(e, b)) =
               IF Confused(e, b) /\ b = 3 THEN RemoveEmulationPrevention(e)
               ELSE Append(RemoveEmulationPrevention(e), b)
<1> DEFINE f == Append(e, b)
           n == Len(e)
<1>1. f \in Octets /\ Len(f) = n + 1 /\ n \in Nat /\ f[n + 1] = b /\ \A k \in 1..n : f[k] = e[k]
  BY OctetAppended
<1> HIDE DEF f
<1>2. \A k \in 1..n : e[k] = f[k] /\ e[k] \in 0..255
  BY <1>1, OctetsAre
<1>3. \A k \in 1..(n + 1) : f[k] \in 0..255
  BY <1>1, OctetsAre
<1>4. RemoveEmulationPrevention(f) = Rbsp(f, n + 1) /\ RemoveEmulationPrevention(e) = Rbsp(e, n)
  BY <1>1, RbspIs
<1>5. Rbsp(e, n) = Rbsp(f, n)
  BY <1>1, <1>2, RbspSame
<1>6. Rbsp(f, n + 1) = IF Dropped(f, n) THEN Rbsp(f, n) ELSE Append(Rbsp(f, n), f[n + 1])
  <2> DEFINE m == n + 1
  <2>1. m \in Nat /\ n \in 0..(m - 1)
    BY <1>1
  <2>2. \A k \in 1..m : f[k] \in 0..255
    BY <1>3
  <2> HIDE DEF m, n
  <2> QED BY <2>1, <2>2, RbspStep
<1>7. Dropped(f, n) <=> Confused(e, b) /\ b = 3
  <2>1. CASE n >= 2
    <3>1. n \in 1..n /\ n - 1 \in 1..n
      BY <1>1, <2>1
    <3>2. f[n] = e[n] /\ f[n - 1] = e[n - 1]
      BY <1>1, <3>1
    <3> QED BY <1>1, <2>1, <3>2 DEF Dropped, Confused
  <2>2. CASE ~(n >= 2)
    BY <2>2 DEF Dropped, Confused
  <2> QED BY <2>1, <2>2
<1> QED BY <1>1, <1>4, <1>5, <1>6, <1>7 DEF f

\* e is what the first k bytes of x are written as.
Stands(x, k, e) ==
    /\ e \in Octets /\ Len(e) >= k /\ Distinct(e)
    /\ RemoveEmulationPrevention(e) \in Octets /\ Len(RemoveEmulationPrevention(e)) = k
    /\ \A j \in 1..k : RemoveEmulationPrevention(e)[j] = x[j]
    /\ IF k = 0 THEN e = <<>> ELSE e[1] = x[1] /\ e[Len(e)] = x[k]

LEMMA WrittenStands ==
    ASSUME NEW x \in Octets, NEW k \in 0..(Len(x) - 1), NEW e, Stands(x, k, e)
    PROVE  Stands(x, k + 1, Written(e, x[k + 1]))
<1> DEFINE b == x[k + 1]
           three == 3
           f == Append(e, three)
           w == Written(e, b)
           r == RemoveEmulationPrevention(e)
           n == Len(e)
<1>1. e \in Octets /\ n >= k /\ k \in Nat /\ k + 1 \in 1..Len(x) /\ n \in Nat /\ b \in 0..255
  <2>1. Len(x) \in Nat /\ k + 1 \in 1..Len(x)
    BY OctetsAre
  <2>2. e \in Octets /\ n >= k
    BY DEF Stands
  <2> QED BY <2>1, <2>2, OctetsAre
<1>2. three \in 0..255 /\ three = 3
  OBVIOUS
<1>3. /\ r \in Octets /\ Len(r) = k /\ \A j \in 1..k : r[j] = x[j]
      /\ Distinct(e)
      /\ IF k = 0 THEN e = <<>> ELSE e[1] = x[1] /\ e[n] = x[k]
  BY DEF Stands
<1> HIDE DEF b, three
\* The byte as it is, or behind a 3.
<1>4. /\ w \in Octets /\ Len(w) > n /\ Len(w) \in Nat /\ w[Len(w)] = b
      /\ \A q \in 1..n : w[q] = e[q]
      /\ Distinct(w) /\ RemoveEmulationPrevention(w) = Append(r, b)
      /\ n = 0 => Len(w) = 1
  <2>1. CASE ~Confused(e, b)
    <3>1. w = Append(e, b)
      BY <2>1 DEF Written
    <3>2. /\ w \in Octets /\ Len(w) = n + 1 /\ w[n + 1] = b
          /\ \A q \in 1..n : w[q] = e[q]
      <4> DEFINE v == Append(e, b)
      <4>1. /\ v \in Octets /\ Len(v) = n + 1 /\ v[n + 1] = b
            /\ \A q \in 1..n : v[q] = e[q]
        BY <1>1, OctetAppended
      <4>2. w = v
        BY <3>1
      <4> HIDE DEF v, w, n
      <4> QED BY <4>1, <4>2
    <3>3. Distinct(w)
      <4>1. ~(Len(e) >= 2 /\ e[Len(e)] = 0 /\ e[Len(e) - 1] = 0 /\ b <= 2)
        BY <1>1, <2>1 DEF Confused
      <4> QED BY <1>1, <1>3, <3>1, <4>1, DistinctAppended
    <3>4. RemoveEmulationPrevention(w) = Append(r, b)
      BY <1>1, <2>1, <3>1, RbspAppended
    <3> HIDE DEF w, r
    <3> QED BY <1>1, <3>2, <3>3, <3>4
  <2>2. CASE Confused(e, b)
    <3>1. w = Append(f, b)
      BY <1>2, <2>2 DEF Written
    <3>2. /\ f \in Octets /\ Len(f) = n + 1 /\ f[n + 1] = three
          /\ \A q \in 1..n : f[q] = e[q]
      BY <1>1, <1>2, OctetAppended
    <3>3. Confused(e, three)
      BY <1>2, <2>2 DEF Confused
    <3>4. Distinct(f)
      <4>1. ~(Len(e) >= 2 /\ e[Len(e)] = 0 /\ e[Len(e) - 1] = 0 /\ three <= 2)
        BY <1>2
      <4> QED BY <1>1, <1>2, <1>3, <4>1, DistinctAppended
    <3>5. RemoveEmulationPrevention(f) = r
      BY <1>1, <1>2, <3>3, RbspAppended
    <3> HIDE DEF f
    <3>6. f[Len(f)] # 0 /\ ~Confused(f, b)
      <4>1. f[Len(f)] = 3
        BY <1>2, <3>2
      <4> QED BY <4>1 DEF Confused
    <3>7. /\ w \in Octets /\ Len(w) = Len(f) + 1 /\ w[Len(f) + 1] = b
          /\ \A q \in 1..Len(f) : w[q] = f[q]
      <4> DEFINE v == Append(f, b)
      <4>1. /\ v \in Octets /\ Len(v) = Len(f) + 1 /\ v[Len(f) + 1] = b
            /\ \A q \in 1..Len(f) : v[q] = f[q]
        BY <1>1, <3>2, OctetAppended
      <4>2. w = v
        BY <3>1
      <4> HIDE DEF v, w
      <4> QED BY <4>1, <4>2
    <3>8. Distinct(w)
      <4>1. ~(Len(f) >= 2 /\ f[Len(f)] = 0 /\ f[Len(f) - 1] = 0 /\ b <= 2)
        BY <3>6
      <4> QED BY <1>1, <3>1, <3>2, <3>4, <4>1, DistinctAppended
    <3>9. RemoveEmulationPrevention(w) = Append(r, b)
      BY <1>1, <3>1, <3>2, <3>5, <3>6, RbspAppended
    <3> HIDE DEF w, r
    <3>10. Len(w) = n + 2 /\ w[Len(w)] = b
      BY <1>1, <3>2, <3>7
    <3>11. \A q \in 1..n : w[q] = e[q]
      <4>1. \A q \in 1..n : q \in 1..Len(f)
        BY <1>1, <3>2
      <4> QED BY <3>2, <3>7, <4>1
    <3>12. n >= 2
      BY <2>2 DEF Confused
    <3> QED BY <1>1, <3>7, <3>8, <3>9, <3>10, <3>11, <3>12
  <2> QED BY <2>1, <2>2
<1> DEFINE s == Append(r, b)
<1>5. s \in Octets /\ Len(s) = k + 1 /\ s[k + 1] = b /\ \A j \in 1..k : s[j] = r[j]
  <2> HIDE DEF r
  <2> QED BY <1>1, <1>3, OctetAppended
<1> HIDE DEF w, r, s
<1>6. \A j \in 1..(k + 1) : s[j] = x[j]
  <2> SUFFICES ASSUME NEW j \in 1..(k + 1) PROVE s[j] = x[j]
    OBVIOUS
  <2>1. CASE j = k + 1
    BY <1>5, <2>1 DEF b
  <2>2. CASE j # k + 1
    <3>1. j \in 1..k
      BY <1>1, <2>2
    <3> QED BY <1>3, <1>5, <3>1
  <2> QED BY <2>1, <2>2
<1>7. w[1] = x[1]
  <2>1. CASE k = 0
    <3>1. n = 0
      BY <1>3, <2>1, EmptySeq
    <3>2. Len(w) = 1 /\ k + 1 = 1
      BY <1>4, <2>1, <3>1
    <3>3. w[1] = b
      BY <1>4, <3>2
    <3> QED BY <3>2, <3>3 DEF b
  <2>2. CASE k # 0
    <3>1. 1 \in 1..n
      BY <1>1, <2>2
    <3> QED BY <1>3, <1>4, <2>2, <3>1
  <2> QED BY <2>1, <2>2
<1>8. k + 1 # 0 /\ Len(w) >= k + 1 /\ RemoveEmulationPrevention(w) = s
  BY <1>1, <1>4 DEF s
<1>9. w[Len(w)] = x[k + 1]
  BY <1>4 DEF b
<1>10. Stands(x, k + 1, w)
  BY <1>4, <1>5, <1>6, <1>7, <1>8, <1>9 DEF Stands
<1> QED BY <1>10 DEF w, b

\* RemoveEmulationPrevention gives back the bytes that Escape was applied to,
\* and in what Escape writes NalParser finds no start code.
THEOREM EscapeStands ==
    ASSUME NEW x \in Octets
    PROVE  Stands(x, Len(x), Escape(x))
<1> DEFINE n == Len(x)
           T == {k \in Nat : Stands(x, k, Escaped(x, k))}
<1>1. n \in Nat
  BY OctetsAre
<1>2. 0 \in T
  <2> DEFINE e == Escaped(x, 0)
  <2>1. e = <<>>
    BY EscapedStep
  <2>2. e \in Octets /\ Len(e) = 0
    BY <2>1, EmptySeq DEF Octets
  <2>3. RemoveEmulationPrevention(e) = <<>>
    <3>1. RemoveEmulationPrevention(e) = Rbsp(e, 0)
      BY <2>2, RbspIs
    <3>2. \A k \in 1..0 : e[k] \in 0..255
      OBVIOUS
    <3> HIDE DEF e
    <3> QED BY <3>1, <3>2, RbspStep
  <2> HIDE DEF e
  <2>4. Stands(x, 0, e)
    BY <2>1, <2>2, <2>3 DEF Stands, Distinct
  <2> QED BY <2>4 DEF e
<1>3. ASSUME NEW k \in 0..(n - 1), k \in T PROVE k + 1 \in T
  <2>1. Stands(x, k, Escaped(x, k)) /\ k + 1 \in Nat
    BY <1>3
  <2>2. Escaped(x, k) \in Octets
    BY <2>1 DEF Stands
  <2>3. Escaped(x, k + 1) = Written(Escaped(x, k), x[k + 1])
    BY <2>2, EscapedStep
  <2> DEFINE e == Escaped(x, k)
  <2> HIDE DEF e
  <2>4. Stands(x, k + 1, Written(e, x[k + 1]))
    BY <2>1, WrittenStands DEF e
  <2> QED BY <2>1, <2>3, <2>4 DEF e
<1> HIDE DEF T, n
<1>4. \A k \in 0..n : k \in T
  BY <1>1, <1>2, <1>3, UpToInduction
<1>5. n \in T
  <2>1. n \in 0..n
    BY <1>1
  <2> QED BY <1>4, <2>1
<1>6. Escape(x) = Escaped(x, n)
  BY EscapedStep DEF n
<1> QED BY <1>5, <1>6 DEF T, n

\* Whatever is behind it, and wherever it is cut.
LEMMA EscapeRead ==
    ASSUME NEW x \in Octets, NEW d \in Octets, Starts(d, Escape(x))
    PROVE  /\ RemoveEmulationPrevention(d) \in Octets
           /\ Starts(RemoveEmulationPrevention(d), x)
           /\ Len(Escape(x)) <= Len(d) => Len(x) <= Len(RemoveEmulationPrevention(d))
<1> DEFINE e == Escape(x)
           m == IF Len(e) <= Len(d) THEN Len(e) ELSE Len(d)
           r == RemoveEmulationPrevention(d)
           part == Rbsp(e, m)
           whole == RemoveEmulationPrevention(e)
<1>1. /\ e \in Octets /\ whole \in Octets /\ Len(whole) = Len(x)
      /\ \A j \in 1..Len(x) : whole[j] = x[j]
  BY EscapeStands DEF Stands
<1> HIDE DEF e
<1>2. Len(e) \in Nat /\ Len(d) \in Nat /\ Len(x) \in Nat
  BY <1>1, OctetsAre
<1>3. m \in 0..Len(e) /\ m \in 0..Len(d) /\ m \in Nat
  BY <1>2
<1>4. r = Rbsp(d, Len(d)) /\ whole = Rbsp(e, Len(e))
  BY <1>1, RbspIs
<1>5. \A k \in 1..Len(e) : e[k] \in 0..255
  BY <1>1, OctetsAre
<1>6. \A k \in 1..Len(d) : d[k] \in 0..255
  BY OctetsAre
<1> HIDE DEF r, whole
<1>7. part = Rbsp(d, m)
  <2>1. \A k \in 1..m : e[k] = d[k] /\ e[k] \in 0..255
    <3>1. \A k \in 1..m : k \in 1..Len(e) /\ k <= Len(d)
      BY <1>2, <1>3
    <3> QED BY <1>5, <3>1 DEF Starts, e
  <2> HIDE DEF m
  <2> QED BY <1>3, <2>1, RbspSame
<1>8. /\ part \in Octets /\ Len(part) <= Len(whole)
      /\ \A k \in 1..Len(part) : whole[k] = part[k]
  <2> HIDE DEF m
  <2> QED BY <1>2, <1>3, <1>4, <1>5, RbspGrows
<1>9. /\ r \in Octets /\ Len(part) <= Len(r)
      /\ \A k \in 1..Len(part) : r[k] = part[k]
  <2> HIDE DEF m, part
  <2> QED BY <1>2, <1>3, <1>4, <1>6, <1>7, RbspGrows
<1>10. Len(part) \in Nat /\ Len(r) \in Nat
  BY <1>8, <1>9, OctetsAre
<1>11. CASE Len(e) <= Len(d)
  <2>1. part = whole
    BY <1>4, <1>11
  <2> HIDE DEF part
  <2>2. Len(x) <= Len(r) /\ \A k \in 1..Len(x) : r[k] = x[k]
    BY <1>1, <1>9, <2>1
  <2> QED BY <1>9, <2>2 DEF Starts, r
<1>12. CASE ~(Len(e) <= Len(d))
  <2>1. part = r
    BY <1>4, <1>7, <1>12
  <2> HIDE DEF part
  <2>2. \A k \in 1..Len(x) : k <= Len(r) => r[k] = x[k]
    <3> SUFFICES ASSUME NEW k \in 1..Len(x), k <= Len(r) PROVE r[k] = x[k]
      OBVIOUS
    <3>1. k \in 1..Len(part)
      BY <1>10, <2>1
    <3> QED BY <1>1, <1>8, <2>1, <3>1
  <2> QED BY <1>9, <1>12, <2>2 DEF Starts, r, e
<1> QED BY <1>11, <1>12

----------------------------------------------------------------------------
(* The bytes of an SPS.                                                    *)

LEMMA JointLonger ==
    ASSUME NEW n \in Nat, NEW parts, \A k \in 1..n : parts[k] \in Strings, NEW k \in 0..(n - 1)
    PROVE  /\ Len(Joint(parts, k + 1)) = Len(Joint(parts, k)) + Len(parts[k + 1])
           /\ Len(Joint(parts, k)) \in Nat /\ Len(parts[k + 1]) \in Nat
<1> DEFINE a == Joint(parts, k)
           b == parts[k + 1]
<1>1. k \in 0..n /\ k + 1 \in 1..n
  OBVIOUS
<1>2. a \in Strings /\ b \in Strings /\ Joint(parts, k + 1) = a \o b
  BY <1>1, JointStep
<1>3. Len(a \o b) = Len(a) + Len(b) /\ Len(a) \in Nat /\ Len(b) \in Nat
  <2> HIDE DEF a, b
  <2> QED BY <1>2, JoinedLength, Length
<1> QED BY <1>2, <1>3

\* Three elements are not longer than all.
LEMMA FirstThree ==
    ASSUME NEW n \in Nat, n > 3, NEW parts, \A k \in 1..n : parts[k] \in Strings
    PROVE  Len(parts[1]) + Len(parts[2]) + Len(parts[3]) <= Len(Joint(parts, n))
<1> DEFINE len(k) == Len(Joint(parts, k))
           zero == 0
           one == 1
           two == 2
           three == 3
<1>1. /\ zero \in 0..(n - 1) /\ one \in 0..(n - 1) /\ two \in 0..(n - 1) /\ three \in 0..(n - 1)
      /\ zero + 1 = one /\ one + 1 = two /\ two + 1 = three /\ three + 1 = 4
  OBVIOUS
<1>2. len(zero) = 0
  BY JointStep, EmptySeq
<1> HIDE DEF zero, one, two, three, len
<1>3. len(one) = len(zero) + Len(parts[one]) /\ Len(parts[one]) \in Nat
  BY <1>1, JointLonger DEF len
<1>4. len(two) = len(one) + Len(parts[two]) /\ Len(parts[two]) \in Nat
  BY <1>1, JointLonger DEF len
<1>5. len(three) = len(two) + Len(parts[three]) /\ Len(parts[three]) \in Nat
  BY <1>1, JointLonger DEF len
<1>6. len(three) + Len(parts[three + 1]) <= Len(Joint(parts, n)) /\ Len(parts[three + 1]) \in Nat
      /\ len(three) \in Nat
  BY <1>1, JointLength DEF len
<1>7. Len(Joint(parts, n)) \in Nat
  <2>1. n \in 0..n
    OBVIOUS
  <2>2. Joint(parts, n) \in Strings
    BY <2>1, JointStep
  <2> QED BY <2>2, Length
<1>8. Len(parts[one]) + Len(parts[two]) + Len(parts[three]) = len(three)
  BY <1>2, <1>3, <1>4, <1>5
<1>9. Len(parts[one]) + Len(parts[two]) + Len(parts[three]) <= Len(Joint(parts, n))
  <2> DEFINE l == Len(parts[three + 1])
             w == Len(Joint(parts, n))
  <2>1. len(three) + l <= w /\ l \in Nat /\ len(three) \in Nat /\ w \in Nat
    BY <1>6, <1>7
  <2> HIDE DEF l, w
  <2>2. len(three) <= w
    BY <2>1
  <2> QED BY <1>8, <2>2 DEF w
<1> QED BY <1>9 DEF one, two, three

LEMMA Sps264Is ==
    ASSUME BitsOK, NEW s, Is264(s)
    PROVE  Sps264(s) \in Strings /\ Len(Sps264(s)) >= 24
<1> DEFINE parts == Fields264(s)
           n == 15
<1>1. /\ n \in Nat /\ n > 3 /\ n \in 0..n
      /\ \A k \in 1..n : parts[k] \in Strings
      /\ Sps264(s) = Joint(parts, n)
  BY Fields264Are
<1>2. parts[1] = U(8, s.profile) /\ parts[2] = s.level /\ parts[3] = Ue(s.id)
  BY DEF Fields264
<1>3. Len(parts[1]) = 8
  <2>1. s.profile \in Nat
    BY DEF Is264, Word
  <2> QED BY <1>2, <2>1, UType
<1>4. Len(parts[2]) = 16
  BY <1>2 DEF Is264, Bits
<1> HIDE DEF parts, n
<1>5. Len(parts[3]) \in Nat
  BY <1>1, Length
<1>6. Len(parts[1]) + Len(parts[2]) + Len(parts[3]) <= Len(Joint(parts, n))
  BY <1>1, FirstThree
<1>7. Joint(parts, n) \in Strings
  BY <1>1, JointStep
<1>8. Len(Joint(parts, n)) \in Nat
  BY <1>7, Length
<1> QED BY <1>1, <1>3, <1>4, <1>5, <1>6, <1>7, <1>8

LEMMA Sps265Is ==
    ASSUME BitsOK, NEW s, Is265(s)
    PROVE  Sps265(s) \in Strings /\ Len(Sps265(s)) >= 104
<1> DEFINE parts == Fields265(s)
           n == 21
<1>1. /\ n \in Nat /\ n > 3 /\ n \in 0..n
      /\ \A k \in 1..n : parts[k] \in Strings
      /\ Sps265(s) = Joint(parts, n)
  BY Fields265Are
<1>2. parts[1] = s.id /\ parts[2] = U(3, Len(s.layers)) /\ parts[3] = s.profile
  BY DEF Fields265
<1>3. Len(parts[2]) = 3
  <2>1. Len(s.layers) \in Nat
    BY DEF Is265, UpTo
  <2> QED BY <1>2, <2>1, UType
<1>4. Len(parts[1]) = 4 /\ Len(parts[3]) = 97
  BY <1>2 DEF Is265, Bits
<1> HIDE DEF parts, n
<1>5. Len(parts[1]) + Len(parts[2]) + Len(parts[3]) <= Len(Joint(parts, n))
  BY <1>1, FirstThree
<1>6. Joint(parts, n) \in Strings
  BY <1>1, JointStep
<1>7. Len(Joint(parts, n)) \in Nat
  BY <1>6, Length
<1> QED BY <1>1, <1>3, <1>4, <1>5, <1>6, <1>7

SpsBits(s, isH265) == IF isH265 THEN Sps265(s) ELSE Sps264(s)
SpsBytes(s, isH265) == s.header \o ToBytes(SpsBits(s, isH265))
HeaderBytes(isH265) == IF isH265 THEN 2 ELSE 1

LEMMA SpsBitsAre ==
    ASSUME BitsOK, NEW h \in BOOLEAN, NEW s, Described(s, h)
    PROVE  /\ SpsBits(s, h) \in Strings /\ Len(SpsBits(s, h)) >= (IF h THEN 104 ELSE 24)
           /\ s.vui \in BOOLEAN /\ s.timing \in Timings
           /\ s.header \in Octets /\ Len(s.header) = HeaderBytes(h) /\ SpsType(s.header[1], h)
<1>1. CASE h
  <2>1. Is265(s)
    BY <1>1 DEF Described
  <2>2. PICK b \in {66, 67}, c \in 1..255 : s.header = <<b, c>>
    <3>1. s.header \in {66, 67} \X (1..255)
      BY <2>1, Zenon DEF Is265
    <3> QED BY <3>1
  <2>3. b \in 0..255 /\ c \in 0..255 /\ (b \div 2) % 64 = 33
    BY <2>2
  <2>4. s.header \in Octets /\ Len(s.header) = 2 /\ s.header[1] = b
    BY <2>2, <2>3 DEF Octets
  <2>5. s.vui \in BOOLEAN /\ s.timing \in Timings
    BY <2>1 DEF Is265
  <2>6. Sps265(s) \in Strings /\ Len(Sps265(s)) >= 104
    BY <2>1, Sps265Is
  <2> QED BY <1>1, <2>3, <2>4, <2>5, <2>6 DEF SpsBits, HeaderBytes, SpsType
<1>2. CASE ~h
  <2>1. Is264(s)
    BY <1>2 DEF Described
  <2>2. PICK b \in 0..127 : b % 32 = 7 /\ s.header = <<b>>
    BY <2>1 DEF Is264
  <2>3. b \in 0..255
    OBVIOUS
  <2>4. s.header \in Octets /\ Len(s.header) = 1 /\ s.header[1] = b
    BY <2>2, <2>3 DEF Octets
  <2>5. s.vui \in BOOLEAN /\ s.timing \in Timings
    BY <2>1 DEF Is264
  <2>6. Sps264(s) \in Strings /\ Len(Sps264(s)) >= 24
    BY <2>1, Sps264Is
  <2> QED BY <1>2, <2>2, <2>4, <2>5, <2>6 DEF SpsBits, HeaderBytes, SpsType
<1> QED BY <1>1, <1>2

\* They begin with the type of an SPS, do not end with a zero, and are enough
\* to be read.
LEMMA SpsBytesAre ==
    ASSUME BitsOK, NEW h \in BOOLEAN, NEW s, Described(s, h)
    PROVE  LET x == SpsBytes(s, h)
               z == ToBytes(SpsBits(s, h))
           IN  /\ x \in Octets /\ Len(x) >= (IF h THEN 15 ELSE 4) /\ SpsType(x[1], h)
               /\ x[Len(x)] # 0
               /\ z \in Octets /\ Len(x) = HeaderBytes(h) + Len(z)
               /\ \A k \in 1..Len(z) : x[HeaderBytes(h) + k] = z[k]
<1> DEFINE d == SpsBits(s, h)
           z == ToBytes(d)
           x == SpsBytes(s, h)
           a == s.header
           n == HeaderBytes(h)
<1>1. /\ d \in Strings /\ Len(d) >= (IF h THEN 104 ELSE 24)
      /\ a \in Octets /\ Len(a) = n /\ SpsType(a[1], h)
  BY SpsBitsAre
<1>2. n \in Nat /\ n >= 1 /\ n = (IF h THEN 2 ELSE 1)
  BY DEF HeaderBytes
<1>3. Len(d) \in Nat
  BY <1>1, Length
<1> HIDE DEF d, n
<1>4. PICK m \in Nat \ {0} : /\ Len(z) = m /\ z \in Seq(0..255)
                             /\ Len(d) + 1 <= 8 * m /\ z[m] # 0
  BY <1>1, ToBytesIs
<1>5. z \in Octets
  BY <1>4 DEF Octets
<1>6. x = a \o z
  BY DEF SpsBytes, d
<1> HIDE DEF z, a
<1>7. /\ x \in Octets /\ Len(x) = n + m
      /\ \A k \in 1..(n + m) : x[k] = IF k <= n THEN a[k] ELSE z[k - n]
  <2>1. /\ a \o z \in Octets /\ Len(a \o z) = Len(a) + Len(z)
        /\ \A k \in 1..(Len(a) + Len(z)) : (a \o z)[k] = IF k <= Len(a) THEN a[k] ELSE z[k - Len(a)]
    BY <1>1, <1>5, OctetsJoined
  <2> HIDE DEF x
  <2> QED BY <1>1, <1>4, <1>6, <2>1
<1> HIDE DEF x
<1>8. Len(x) >= (IF h THEN 15 ELSE 4)
  <2>1. CASE h
    BY <1>1, <1>2, <1>3, <1>4, <1>7, <2>1
  <2>2. CASE ~h
    BY <1>1, <1>2, <1>3, <1>4, <1>7, <2>2
  <2> QED BY <2>1, <2>2
<1>9. x[1] = a[1]
  <2>1. 1 \in 1..(n + m) /\ 1 <= n
    BY <1>2
  <2> QED BY <1>7, <2>1
<1>10. x[Len(x)] # 0
  <2>1. n + m \in 1..(n + m) /\ ~(n + m <= n) /\ (n + m) - n = m
    BY <1>2
  <2>2. x[n + m] = z[m]
    BY <1>7, <2>1
  <2> QED BY <1>4, <1>7, <2>2
<1>11. \A k \in 1..Len(z) : x[n + k] = z[k]
  <2> SUFFICES ASSUME NEW k \in 1..m PROVE x[n + k] = z[k]
    BY <1>4
  <2>1. n + k \in 1..(n + m) /\ ~(n + k <= n) /\ (n + k) - n = k
    BY <1>2
  <2> QED BY <1>7, <2>1
<1> QED BY <1>1, <1>4, <1>5, <1>7, <1>8, <1>9, <1>10, <1>11 DEF x, z, d, n

\* What is left of a NAL unit's bytes gives the reader the bits of the SPS.
LEMMA SpsBytesRead ==
    ASSUME BitsOK, NEW h \in BOOLEAN, NEW s, Described(s, h),
           NEW r \in Octets, Starts(r, SpsBytes(s, h)), Len(r) >= HeaderBytes(h)
    PROVE  LET rest == SubSeq(r, HeaderBytes(h) + 1, Len(r))
           IN  /\ rest \in Octets /\ Len(BitsOf(rest)) = 8 * (Len(r) - HeaderBytes(h))
               /\ BitsOf(rest) \in Strings /\ Starts(BitsOf(rest), SpsBits(s, h))
               /\ Len(SpsBytes(s, h)) <= Len(r) => Len(SpsBits(s, h)) <= Len(BitsOf(rest))
<1> DEFINE d == SpsBits(s, h)
           z == ToBytes(d)
           x == SpsBytes(s, h)
           n == HeaderBytes(h)
           rest == SubSeq(r, n + 1, Len(r))
<1>1. d \in Strings
  BY SpsBitsAre
<1>2. x \in Octets /\ z \in Octets /\ Len(x) = n + Len(z) /\ \A k \in 1..Len(z) : x[n + k] = z[k]
  BY SpsBytesAre
<1>3. n \in Nat /\ Len(r) \in Nat /\ Len(z) \in Nat /\ n <= Len(r)
  BY <1>2, OctetsAre DEF HeaderBytes
<1>4. Starts(r, x)
  OBVIOUS
<1> HIDE DEF d, x, n
<1>5. /\ rest \in Octets /\ Len(rest) = Len(r) - n
      /\ \A k \in 1..(Len(r) - n) : rest[k] = r[n + k]
  <2>1. \A k \in (n + 1)..Len(r) : r[k] \in 0..255
    <3>1. \A k \in (n + 1)..Len(r) : k \in 1..Len(r)
      BY <1>3
    <3> QED BY <3>1, OctetsAre
  <2> DEFINE m == n + 1
             l == Len(r)
  <2>2. m \in Int /\ l \in Int /\ m <= l + 1 /\ (l - m) + 1 = l - n
    BY <1>3
  <2> HIDE DEF m, l
  <2>3. \A k \in m..l : r[k] \in 0..255
    BY <2>1 DEF m, l
  <2>4. /\ SubSeq(r, m, l) \in Seq(0..255)
        /\ Len(SubSeq(r, m, l)) = IF m <= l THEN (l - m) + 1 ELSE 0
        /\ \A k \in 1..((l - m) + 1) : SubSeq(r, m, l)[k] = r[m + k - 1]
    BY <2>2, <2>3, SubSeqProperties
  <2>5. Len(SubSeq(r, m, l)) = l - n
    BY <2>2, <2>4
  <2>6. \A k \in 1..(l - n) : SubSeq(r, m, l)[k] = r[n + k]
    <3> SUFFICES ASSUME NEW k \in 1..(l - n) PROVE SubSeq(r, m, l)[k] = r[n + k]
      OBVIOUS
    <3>1. k \in 1..((l - m) + 1)
      BY <2>2
    <3>2. m + k - 1 = n + k
      BY <1>3, <2>2 DEF m
    <3>3. SubSeq(r, m, l)[k] = r[m + k - 1]
      BY <2>4, <3>1
    <3> QED BY <3>2, <3>3
  <2> QED BY <2>4, <2>5, <2>6 DEF m, l, Octets
<1> HIDE DEF rest, z
<1>6. Starts(rest, z)
  <2> SUFFICES ASSUME NEW k \in 1..Len(z), k <= Len(rest) PROVE rest[k] = z[k]
    BY DEF Starts
  <2>1. k \in 1..(Len(r) - n) /\ n + k \in 1..Len(x) /\ n + k <= Len(r)
    BY <1>2, <1>3, <1>5
  <2>2. rest[k] = r[n + k] /\ x[n + k] = z[k]
    BY <1>2, <1>5, <2>1
  <2>3. r[n + k] = x[n + k]
    BY <1>4, <2>1 DEF Starts
  <2> QED BY <2>2, <2>3
<1>7. rest \in Seq(0..255)
  BY <1>5 DEF Octets
<1>8. BitsOf(rest) \in Strings /\ Len(BitsOf(rest)) = 8 * Len(rest)
  BY <1>7, BitsOfType DEF Strings
<1>9. /\ Starts(BitsOf(rest), d)
      /\ Len(z) <= Len(rest) => Len(d) <= Len(BitsOf(rest))
  <2>1. Starts(rest, ToBytes(d))
    BY <1>6 DEF z
  <2>2. /\ Starts(BitsOf(rest), d)
        /\ Len(ToBytes(d)) <= Len(rest) => Len(d) <= Len(BitsOf(rest))
    BY <1>1, <1>7, <2>1, BitsOfBytes
  <2> QED BY <2>2 DEF z
<1>10. Len(x) <= Len(r) => Len(z) <= Len(rest)
  BY <1>2, <1>3, <1>5
<1> QED BY <1>5, <1>8, <1>9, <1>10 DEF rest, d, x, n
=============================================================================
