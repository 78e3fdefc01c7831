-------------------------- MODULE RawStream_proofs --------------------------
(***************************************************************************)
(* Proofs about RawStream, for every set of files and both codecs.         *)
(*                                                                         *)
(* The NAL units found so far lie one behind the other and end where the   *)
(* one at hand begins, and so do the access units, counted in NAL units;   *)
(* the payload sent last is that of the access unit before auIndex.        *)
(***************************************************************************)
EXTENDS RawStream, WellFoundedInduction, TLAPS

(* Steps of the position in a file that is played over and over.           *)
LEMMA ModStep ==
    ASSUME NEW a \in Nat, NEW L \in Nat, L > 0
    PROVE  (a + 1) % L = IF a % L = L - 1 THEN 0 ELSE (a % L) + 1
<1> DEFINE q == a \div L
           r == a % L
           s == (a + 1) \div L
           t == (a + 1) % L
<1>1. a = L * q + r /\ r \in 0..(L - 1) /\ q \in Int
  OBVIOUS
<1>2. a + 1 = L * s + t /\ t \in 0..(L - 1) /\ s \in Int
  OBVIOUS
<1>3. L * s + t = L * q + r + 1
  BY <1>1, <1>2
<1> HIDE DEF q, r, s, t
<1>4. ~(s < q)
  <2>1. s < q => L * s + L <= L * q
    <3>1. SUFFICES ASSUME s < q PROVE L * s + L <= L * q
      OBVIOUS
    <3>2. L * (q - s) >= L
      BY <1>1, <1>2, <3>1
    <3>3. L * (q - s) = L * q - L * s
      BY <1>1, <1>2
    <3> QED BY <3>2, <3>3, <1>1, <1>2
  <2> QED BY <2>1, <1>1, <1>2, <1>3
<1>5. ~(s > q + 1)
  <2>1. s > q + 1 => L * s >= L * q + L + L
    <3>1. SUFFICES ASSUME s > q + 1 PROVE L * s >= L * q + L + L
      OBVIOUS
    <3>2. L * (s - q - 2) >= 0
      BY <1>1, <1>2, <3>1
    <3>3. L * (s - q - 2) = L * s - L * q - L - L
      BY <1>1, <1>2
    <3> QED BY <3>2, <3>3, <1>1, <1>2
  <2> QED BY <2>1, <1>1, <1>2, <1>3
<1>6. CASE s = q
  BY <1>6, <1>1, <1>2, <1>3 DEF r, t
<1>7. CASE s = q + 1
  <2>1. L * s = L * q + L
    BY <1>7, <1>1, <1>2
  <2> QED BY <2>1, <1>1, <1>2, <1>3 DEF r, t
<1> QED BY <1>1, <1>2, <1>4, <1>5, <1>6, <1>7

----------------------------------------------------------------------------
(* The invariant.                                                          *)

\* Ranges that lie one behind the other, from first on.
Chain(s, first) ==
    /\ \A n \in 1..Len(s) : s[n].first <= s[n].last
    /\ \A m, n \in 1..Len(s) : m < n => s[m].last < s[n].first
    /\ \A n \in 1..Len(s) : n < Len(s) => s[n + 1].first = s[n].last + 1
    /\ s # <<>> => s[1].first = first

Ended(s) == s[Len(s)].last

Scanned ==
    /\ start < i /\ start <= Size
    /\ pc = "parse" /\ nalUnits_ # <<>> => start > 0 /\ Ended(nalUnits_) = start - 1
    /\ pc # "parse" /\ nalUnits_ # <<>> => Ended(nalUnits_) = Size
    /\ pc = "parse" => accessUnits_ = <<>> /\ currentAU = Bytes(1, 0)
    /\ nalUnits_ # <<>> => Chain(nalUnits_, nalUnits_[1].first)

Grouped ==
    /\ Chain(accessUnits_, 1)
    /\ currentAU.last <= Units
    /\ currentAU.first <= currentAU.last \/ currentAU = Bytes(1, 0)
    /\ pc = "group" /\ currentAU.last = 0 => accessUnits_ = <<>>
    /\ pc = "group" /\ accessUnits_ # <<>> => Ended(accessUnits_) = currentAU.first - 1
    /\ pc = "group" /\ accessUnits_ = <<>> => currentAU.first = 1
    /\ pc = "stream" /\ accessUnits_ # <<>> => Ended(accessUnits_) = Units

Played ==
    /\ auIndex = 0 => sent.bytes = Bytes(0, 0)
    /\ auIndex > 0 =>
          /\ pc = "stream" /\ accessUnits_ # <<>>
          /\ sent.bytes.last =
                nalUnits_[accessUnits_[((auIndex - 1) % Len(accessUnits_)) + 1].last].last

IInv == TypeOK /\ Scanned /\ Grouped /\ Played

----------------------------------------------------------------------------
(* Type correctness and the invariant.                                     *)

LEMMA AppendFacts ==
    ASSUME NEW T, NEW s \in Seq(T), NEW e \in T
    PROVE  /\ Append(s, e) \in Seq(T) /\ Len(s) \in Nat
           /\ Len(Append(s, e)) = Len(s) + 1 /\ Append(s, e) # <<>>
           /\ \A n \in 1..Len(s) : s[n] \in T /\ Append(s, e)[n] = s[n]
           /\ Append(s, e)[Len(s) + 1] = e
OBVIOUS

LEMMA RangeSeq ==
    ASSUME NEW A, NEW s \in Seq(Ranges(A, A))
    PROVE  /\ Len(s) \in Nat
           /\ \A n \in 1..Len(s) :
                 s[n] \in Ranges(A, A) /\ s[n].first \in A /\ s[n].last \in A
<1>1. \A n \in 1..Len(s) : s[n] \in Ranges(A, A)
  <2>1. ASSUME NEW T, s \in Seq(T) PROVE \A n \in 1..Len(s) : s[n] \in T
    BY <2>1
  <2> QED BY <2>1
<1>2. \A r \in Ranges(A, A) : r.first \in A /\ r.last \in A
  BY DEF Ranges
<1> QED BY <1>1, <1>2

LEMMA Typing ==
    ASSUME TypeOK
    PROVE  /\ Size \in Nat /\ Units \in Nat /\ buffer \in Seq(0..255)
           /\ \A n \in 1..Units :
                  nalUnits_[n].first \in 1..Size /\ nalUnits_[n].last \in 1..Size
           /\ Len(accessUnits_) \in Nat
           /\ \A n \in 1..Len(accessUnits_) :
                  accessUnits_[n].first \in 1..Units /\ accessUnits_[n].last \in 1..Units
           /\ currentAU.first \in Nat \ {0} /\ currentAU.last \in Nat
<1>1. buffer \in Seq(0..255) /\ Size \in Nat
  BY FilesAssumption DEF TypeOK, Buffers, Size
<1>2. /\ Units \in Nat
      /\ \A n \in 1..Units :
             nalUnits_[n].first \in 1..Size /\ nalUnits_[n].last \in 1..Size
  BY RangeSeq DEF TypeOK, Units
<1>3. /\ Len(accessUnits_) \in Nat
      /\ \A n \in 1..Len(accessUnits_) :
             accessUnits_[n].first \in 1..Units /\ accessUnits_[n].last \in 1..Units
  BY RangeSeq DEF TypeOK
<1>4. currentAU.first \in Nat \ {0} /\ currentAU.last \in Nat
  BY <1>2 DEF TypeOK, Ranges, Bytes
<1> QED BY <1>1, <1>2, <1>3, <1>4

LEMMA ChainAppend ==
    ASSUME NEW A \in SUBSET Nat, NEW s \in Seq(Ranges(A, A)), NEW f \in Nat,
           NEW a \in A, NEW b \in A, a <= b,
           Chain(s, f), s # <<>> => Ended(s) = a - 1, s = <<>> => a = f
    PROVE  /\ Append(s, Bytes(a, b)) \in Seq(Ranges(A, A))
           /\ Chain(Append(s, Bytes(a, b)), f) /\ Ended(Append(s, Bytes(a, b))) = b
<1> DEFINE t == Append(s, Bytes(a, b))
<1>1. Bytes(a, b) \in Ranges(A, A) /\ Bytes(a, b).first = a /\ Bytes(a, b).last = b
  BY DEF Bytes, Ranges
<1>2. /\ t \in Seq(Ranges(A, A))
      /\ Len(t) = Len(s) + 1 /\ t # <<>> /\ Len(s) \in Nat
      /\ \A n \in 1..Len(s) : t[n] = s[n]
      /\ t[Len(s) + 1] = Bytes(a, b)
  BY <1>1, AppendFacts
<1>3. \A n \in 1..Len(s) : s[n].first \in Nat /\ s[n].last \in Nat
  BY RangeSeq
<1>4. s = <<>> \/ Len(s) > 0
  <2>1. ASSUME NEW T, s \in Seq(T) PROVE s = <<>> \/ Len(s) > 0
    BY <2>1
  <2> QED BY <2>1
<1> HIDE DEF t
<1>5. \A n \in 1..Len(s) : s[n].last < a
  <2> SUFFICES ASSUME NEW n \in 1..Len(s) PROVE s[n].last < a
    OBVIOUS
  <2>1. s[Len(s)].last = a - 1 /\ Len(s) \in 1..Len(s) /\ s[Len(s)].first <= s[Len(s)].last
    BY <1>2, <1>4 DEF Chain, Ended
  <2>2. CASE n = Len(s)
    BY <2>1, <2>2, <1>3
  <2>3. CASE n < Len(s)
    BY <2>1, <2>3, <1>3 DEF Chain
  <2> QED BY <2>2, <2>3, <1>2
<1>6. \A n \in 1..Len(t) : t[n].first <= t[n].last
  BY <1>1, <1>2 DEF Chain
<1>7. \A m, n \in 1..Len(t) : m < n => t[m].last < t[n].first
  <2> SUFFICES ASSUME NEW m \in 1..Len(t), NEW n \in 1..Len(t), m < n
               PROVE  t[m].last < t[n].first
    OBVIOUS
  <2>1. m \in 1..Len(s) /\ t[m] = s[m]
    BY <1>2
  <2>2. CASE n = Len(s) + 1
    BY <2>1, <2>2, <1>1, <1>2, <1>5
  <2>3. CASE n \in 1..Len(s)
    BY <2>1, <2>3, <1>2 DEF Chain
  <2> QED BY <2>2, <2>3, <1>2
<1>8. \A n \in 1..Len(t) : n < Len(t) => t[n + 1].first = t[n].last + 1
  <2> SUFFICES ASSUME NEW n \in 1..Len(t), n < Len(t)
               PROVE  t[n + 1].first = t[n].last + 1
    OBVIOUS
  <2>1. CASE n < Len(s)
    BY <2>1, <1>2 DEF Chain
  <2>2. CASE n = Len(s)
    BY <2>2, <1>1, <1>2, <1>3, <1>4 DEF Ended
  <2> QED BY <2>1, <2>2, <1>2
<1>9. t[1].first = f
  <2>1. CASE s = <<>>
    <3>1. Len(s) = 0 /\ a = f
      BY <2>1
    <3> QED BY <3>1, <1>1, <1>2
  <2>2. CASE Len(s) > 0
    BY <2>2, <1>2 DEF Chain
  <2> QED BY <2>1, <2>2, <1>4
<1> QED BY <1>1, <1>2, <1>6, <1>7, <1>8, <1>9 DEF Chain, Ended, t

LEMMA InitHolds == Init => IInv
<1> SUFFICES ASSUME Init PROVE IInv
  OBVIOUS
<1>0. buffer \in Buffers /\ buffer \in Seq(0..255) /\ isH265_ \in BOOLEAN
  BY FilesAssumption DEF Init, Load, Buffers
<1>1. /\ pc = "parse" /\ i = 1 /\ start = 0
      /\ nalUnits_ = <<>> /\ accessUnits_ = <<>> /\ Size \in Nat
      /\ currentAU = Bytes(1, 0) /\ auIndex = 0
      /\ sent.bytes = Bytes(0, 0) /\ sent.type = "none"
  BY <1>0 DEF Init, Load, Size
<1>2. /\ Len(nalUnits_) = 0 /\ Len(accessUnits_) = 0
      /\ nalUnits_ \in Seq(Ranges(1..Size, 1..Size))
      /\ accessUnits_ \in Seq(Ranges(1..Units, 1..Units))
  BY <1>1
<1>3. TypeOK
  BY <1>0, <1>1, <1>2, MaxUnitsAssumption DEF TypeOK
<1>4. Scanned
  BY <1>1, <1>2 DEF Scanned
<1>5. Grouped
  BY <1>1, <1>2 DEF Grouped, Chain, Units, Bytes
<1>6. Played
  BY <1>1 DEF Played
<1> QED BY <1>3, <1>4, <1>5, <1>6 DEF IInv

LEMMA NextByteHolds == IInv /\ NextByte => IInv'
<1> SUFFICES ASSUME IInv, NextByte PROVE IInv'
  OBVIOUS
<1>1. /\ i' = i + 1 /\ i <= Size - 3 /\ Size' = Size /\ Units' = Units
      /\ UNCHANGED <<buffer, isH265_, pc, start, nalUnits_, accessUnits_, currentAU, auIndex, sent>>
  BY DEF NextByte, Scanning, groupVars, streamVars, Size, Units
<1>2. i \in Nat \ {0} /\ Size \in Nat
  BY Typing DEF IInv, TypeOK
<1>3. TypeOK'
  BY <1>1, <1>2 DEF IInv, TypeOK
<1>4. Scanned'
  BY <1>1, <1>2 DEF IInv, TypeOK, Scanned, Chain, Ended
<1>5. Grouped' /\ Played'
  BY <1>1 DEF IInv, Grouped, Played, Chain, Ended
<1> QED BY <1>3, <1>4, <1>5 DEF IInv

\* A NAL unit ends: before the next start code, or at the end of the file.
LEMMA CutHolds ==
    ASSUME IInv, pc = "parse", start > 0, NEW last \in start..Size,
           NEW nals, nals = Append(nalUnits_, Bytes(start, last))
    PROVE  /\ nals \in Seq(Ranges(1..Size, 1..Size)) /\ nals # <<>>
           /\ Chain(nals, nals[1].first) /\ Ended(nals) = last
<1> DEFINE f == IF nalUnits_ = <<>> THEN start ELSE nalUnits_[1].first
<1>1. Size \in Nat /\ start \in 1..Size /\ last \in 1..Size
  BY Typing DEF IInv, TypeOK
<1>2. nalUnits_ \in Seq(Ranges(1..Size, 1..Size))
  BY DEF IInv, TypeOK
<1>3. nalUnits_ # <<>> => Len(nalUnits_) > 0
  <2>1. ASSUME NEW T, nalUnits_ \in Seq(T) PROVE nalUnits_ # <<>> => Len(nalUnits_) > 0
    BY <2>1
  <2> QED BY <2>1, <1>2
<1>4. f \in Nat
  BY <1>1, <1>3, Typing DEF IInv, Units
<1>5. Chain(nalUnits_, f)
  <2>1. CASE nalUnits_ = <<>>
    <3>1. Len(nalUnits_) = 0
      BY <2>1
    <3> QED BY <2>1, <3>1 DEF Chain
  <2> QED BY <2>1 DEF IInv, Scanned
<1>6. nalUnits_ # <<>> => Ended(nalUnits_) = start - 1
  BY DEF IInv, Scanned
<1> HIDE DEF f
<1>7. /\ nals \in Seq(Ranges(1..Size, 1..Size))
      /\ Chain(nals, f) /\ Ended(nals) = last
  BY <1>1, <1>2, <1>4, <1>5, <1>6, ChainAppend DEF f
<1>8. nals # <<>>
  <2>1. Bytes(start, last) \in Ranges(1..Size, 1..Size)
    BY <1>1 DEF Bytes, Ranges
  <2> QED BY <2>1, <1>2, AppendFacts
<1>9. nals[1].first = f
  BY <1>7, <1>8 DEF Chain
<1> QED BY <1>7, <1>8, <1>9

LEMMA StartCodeHolds == IInv /\ StartCode => IInv'
<1> SUFFICES ASSUME IInv, StartCode PROVE IInv'
  OBVIOUS
<1>1. /\ pc = "parse" /\ i <= Size - 3 /\ start' = i /\ i' \in {i + 3, i + 4}
      /\ nalUnits_' = IF start = 0 THEN nalUnits_ ELSE Append(nalUnits_, Bytes(start, i - 1))
      /\ Size' = Size
      /\ UNCHANGED <<buffer, isH265_, pc, accessUnits_, currentAU, auIndex, sent>>
  BY DEF StartCode, Scanning, groupVars, streamVars, Size
<1>2. /\ i \in Nat \ {0} /\ Size \in Nat /\ start \in Nat /\ start < i
      /\ accessUnits_ = <<>> /\ currentAU = Bytes(1, 0)
      /\ nalUnits_ \in Seq(Ranges(1..Size, 1..Size))
      /\ nalUnits_ # <<>> => start > 0
  BY <1>1, Typing DEF IInv, TypeOK, Scanned
<1>3. /\ nalUnits_' \in Seq(Ranges(1..Size, 1..Size))
      /\ nalUnits_' # <<>> => /\ Chain(nalUnits_', nalUnits_'[1].first)
                             /\ Ended(nalUnits_') = i - 1
  <2>1. CASE start = 0
    BY <2>1, <1>1, <1>2
  <2>2. CASE start > 0
    <3>1. i - 1 \in start..Size
      BY <1>1, <1>2
    <3>2. nalUnits_' = Append(nalUnits_, Bytes(start, i - 1))
      BY <2>2, <1>1
    <3> QED BY <2>2, <3>1, <3>2, <1>1, CutHolds
  <2> QED BY <2>1, <2>2, <1>2
<1>4. Len(accessUnits_) = 0 /\ accessUnits_ \in Seq(Ranges(1..Units', 1..Units'))
  BY <1>2
<1>5. TypeOK'
  BY <1>1, <1>2, <1>3, <1>4 DEF IInv, TypeOK
<1>6. Scanned'
  BY <1>1, <1>2, <1>3 DEF Scanned, Ended
<1>7. Units' \in Nat
  BY <1>3, RangeSeq DEF Units
<1>8. Grouped'
  BY <1>1, <1>2, <1>4, <1>7 DEF Grouped, Chain, Bytes
<1>9. Played'
  BY <1>1 DEF IInv, Played
<1> QED BY <1>5, <1>6, <1>8, <1>9 DEF IInv

LEMMA ParseEndsHolds == IInv /\ ParseEnds => IInv'
<1> SUFFICES ASSUME IInv, ParseEnds PROVE IInv'
  OBVIOUS
<1>1. /\ pc = "parse" /\ pc' = "group" /\ Size' = Size
      /\ nalUnits_' = IF start = 0 THEN nalUnits_ ELSE Append(nalUnits_, Bytes(start, Size))
      /\ UNCHANGED <<buffer, isH265_, i, start, accessUnits_, currentAU, auIndex, sent>>
  BY DEF ParseEnds, groupVars, streamVars, Size
<1>2. /\ i \in Nat \ {0} /\ Size \in Nat /\ start \in Nat /\ start < i
      /\ accessUnits_ = <<>> /\ currentAU = Bytes(1, 0)
      /\ nalUnits_ \in Seq(Ranges(1..Size, 1..Size))
      /\ nalUnits_ # <<>> => start > 0
      /\ start <= Size
  BY <1>1, Typing DEF IInv, TypeOK, Scanned
<1>3. /\ nalUnits_' \in Seq(Ranges(1..Size, 1..Size))
      /\ nalUnits_' # <<>> => /\ Chain(nalUnits_', nalUnits_'[1].first)
                             /\ Ended(nalUnits_') = Size
  <2>1. CASE start = 0
    BY <2>1, <1>1, <1>2
  <2>2. CASE start > 0
    <3>1. Size \in start..Size
      BY <1>2
    <3>2. nalUnits_' = Append(nalUnits_, Bytes(start, Size))
      BY <2>2, <1>1
    <3> QED BY <2>2, <3>1, <3>2, <1>1, CutHolds
  <2> QED BY <2>1, <2>2, <1>2
<1>4. Len(accessUnits_) = 0 /\ accessUnits_ \in Seq(Ranges(1..Units', 1..Units'))
  BY <1>2
<1>5. TypeOK'
  BY <1>1, <1>2, <1>3, <1>4 DEF IInv, TypeOK
<1>6. Scanned'
  BY <1>1, <1>2, <1>3 DEF IInv, Scanned, Ended
<1>7. Units' \in Nat
  BY <1>3, RangeSeq DEF Units
<1>8. Grouped'
  BY <1>1, <1>2, <1>4, <1>7 DEF Grouped, Chain, Bytes
<1>9. Played'
  BY <1>1 DEF IInv, Played
<1> QED BY <1>5, <1>6, <1>8, <1>9 DEF IInv

LEMMA GroupNalHolds == IInv /\ GroupNal => IInv'
<1> SUFFICES ASSUME IInv, GroupNal PROVE IInv'
  OBVIOUS
<1> DEFINE n == currentAU.last + 1
<1>1. /\ pc = "group" /\ currentAU.last < Units /\ Size' = Size /\ Units' = Units
      /\ UNCHANGED <<buffer, isH265_, pc, i, start, nalUnits_, auIndex, sent>>
      /\ \/ /\ n > currentAU.first
            /\ accessUnits_' = Append(accessUnits_, currentAU)
            /\ currentAU' = Bytes(n, n)
         \/ /\ accessUnits_' = accessUnits_
            /\ currentAU' = [currentAU EXCEPT !.last = n]
  BY DEF GroupNal, parseVars, streamVars, Size, Units
<1>2. /\ Units \in Nat /\ currentAU.first \in Nat \ {0} /\ currentAU.last \in Nat
      /\ n \in 1..Units
  <2>1. Units \in Nat /\ currentAU.first \in Nat \ {0} /\ currentAU.last \in Nat
    BY Typing DEF IInv
  <2> QED BY <1>1, <2>1
<1>3. /\ currentAU = Bytes(currentAU.first, currentAU.last)
      /\ \/ currentAU.first \in 1..Units /\ currentAU.last \in 1..Units
                /\ currentAU.first <= currentAU.last
         \/ currentAU.first = 1 /\ currentAU.last = 0
  BY <1>2 DEF IInv, TypeOK, Grouped, Ranges, Bytes
<1>4. /\ TypeOK /\ Scanned /\ Grouped /\ Played
      /\ accessUnits_ \in Seq(Ranges(1..Units, 1..Units))
  BY DEF IInv, TypeOK
<1>5. CASE accessUnits_' = Append(accessUnits_, currentAU) /\ n > currentAU.first
                                                     /\ currentAU' = Bytes(n, n)
  <2>1. currentAU.first <= currentAU.last /\ currentAU.last \in 1..Units
                                          /\ currentAU.first \in 1..Units
    BY <1>2, <1>3, <1>5
  <2>2. /\ accessUnits_' \in Seq(Ranges(1..Units, 1..Units))
        /\ Chain(accessUnits_', 1) /\ Ended(accessUnits_') = currentAU.last
    <3>1. /\ Chain(accessUnits_, 1)
          /\ accessUnits_ # <<>> => Ended(accessUnits_) = currentAU.first - 1
          /\ accessUnits_ = <<>> => currentAU.first = 1
      BY <1>1, <1>4 DEF Grouped
    <3>2. 1..Units \in SUBSET Nat
      BY <1>2
    <3>3. accessUnits_' = Append(accessUnits_, Bytes(currentAU.first, currentAU.last))
      BY <1>3, <1>5
    <3> DEFINE U == 1..Units
               s == accessUnits_
               f == currentAU.first
               e == currentAU.last
    <3>4. /\ U \in SUBSET Nat /\ s \in Seq(Ranges(U, U)) /\ 1 \in Nat
          /\ f \in U /\ e \in U /\ f <= e
          /\ Chain(s, 1) /\ (s # <<>> => Ended(s) = f - 1) /\ (s = <<>> => 1 = f)
      BY <1>4, <2>1, <3>1, <3>2
    <3> HIDE DEF U, s, f, e
    <3>5. /\ Append(s, Bytes(f, e)) \in Seq(Ranges(U, U))
          /\ Chain(Append(s, Bytes(f, e)), 1) /\ Ended(Append(s, Bytes(f, e))) = e
      BY <3>4, ChainAppend
    <3> QED BY <3>3, <3>5 DEF U, s, f, e
  <2>3. accessUnits_' # <<>>
    <3>1. currentAU \in Ranges(1..Units, 1..Units)
      BY <1>3, <2>1 DEF Bytes, Ranges
    <3> QED BY <3>1, <1>4, <1>5, AppendFacts
  <2>4. currentAU'.first = n /\ currentAU'.last = n
    BY <1>5 DEF Bytes
  <2>5. TypeOK'
    <3>1. currentAU' \in Ranges(1..Units, 1..Units)
      BY <1>2, <1>5 DEF Bytes, Ranges
    <3> QED BY <1>1, <1>4, <2>2, <3>1 DEF TypeOK
  <2>6. Scanned'
    BY <1>1, <1>4 DEF Scanned, Chain, Ended
  <2>7. Grouped'
    <3>1. /\ pc' = "group" /\ currentAU'.first = currentAU.last + 1
          /\ currentAU'.last = currentAU.last + 1 /\ currentAU'.last <= Units'
          /\ currentAU'.first <= currentAU'.last /\ currentAU'.last # 0
          /\ Ended(accessUnits_') = currentAU'.first - 1
      BY <1>1, <1>2, <2>2, <2>4
    <3> QED BY <2>2, <2>3, <3>1 DEF Grouped
  <2>8. Played'
    BY <1>1, <1>4 DEF Played
  <2> QED BY <2>5, <2>6, <2>7, <2>8 DEF IInv
<1>6. CASE accessUnits_' = accessUnits_ /\ currentAU' = [currentAU EXCEPT !.last = n]
  <2>1. currentAU' = Bytes(currentAU.first, n)
    BY <1>3, <1>6 DEF Bytes
  <2>2. /\ currentAU'.first = currentAU.first /\ currentAU'.last = n
        /\ currentAU.first \in 1..Units /\ currentAU.first <= n
    BY <1>2, <1>3, <2>1 DEF Bytes
  <2>3. TypeOK'
    <3>1. currentAU' \in Ranges(1..Units, 1..Units)
      BY <1>2, <2>1, <2>2 DEF Bytes, Ranges
    <3> QED BY <1>1, <1>4, <1>6, <3>1 DEF TypeOK
  <2>4. Scanned'
    BY <1>1, <1>4 DEF Scanned, Chain, Ended
  <2>5. Grouped'
    BY <1>1, <1>2, <1>4, <1>6, <2>2 DEF Grouped, Chain, Ended
  <2>6. Played'
    BY <1>1, <1>4 DEF Played
  <2> QED BY <2>3, <2>4, <2>5, <2>6 DEF IInv
<1> QED BY <1>1, <1>5, <1>6

LEMMA GroupEndsHolds == IInv /\ GroupEnds => IInv'
<1> SUFFICES ASSUME IInv, GroupEnds PROVE IInv'
  OBVIOUS
<1>1. /\ pc = "group" /\ pc' = "stream" /\ currentAU.last = Units
      /\ Size' = Size /\ Units' = Units
      /\ accessUnits_' = IF Units = 0 THEN <<>> ELSE Append(accessUnits_, currentAU)
      /\ UNCHANGED <<buffer, isH265_, i, start, nalUnits_, currentAU, auIndex, sent>>
  BY DEF GroupEnds, parseVars, streamVars, Size, Units
<1>2. /\ TypeOK /\ Scanned /\ Grouped /\ Played
      /\ accessUnits_ \in Seq(Ranges(1..Units, 1..Units)) /\ Units \in Nat
  BY Typing DEF IInv, TypeOK
<1>3. /\ accessUnits_' \in Seq(Ranges(1..Units, 1..Units))
      /\ Chain(accessUnits_', 1)
      /\ accessUnits_' # <<>> => Ended(accessUnits_') = Units
  <2>1. CASE Units = 0
    <3>1. accessUnits_' = <<>> /\ Len(accessUnits_') = 0
      BY <1>1, <2>1
    <3> QED BY <3>1 DEF Chain
  <2>2. CASE Units > 0
    <3>1. /\ currentAU = Bytes(currentAU.first, Units)
          /\ currentAU.first \in 1..Units /\ currentAU.first <= Units
      BY <1>1, <1>2, <2>2 DEF TypeOK, Grouped, Ranges, Bytes
    <3>2. /\ Chain(accessUnits_, 1)
          /\ accessUnits_ # <<>> => Ended(accessUnits_) = currentAU.first - 1
          /\ accessUnits_ = <<>> => currentAU.first = 1
      BY <1>1, <1>2 DEF Grouped
    <3>3. 1..Units \in SUBSET Nat /\ Units \in 1..Units
      BY <1>2, <2>2
    <3>4. accessUnits_' = Append(accessUnits_, Bytes(currentAU.first, Units))
      BY <1>1, <2>2, <3>1
    <3> QED BY <1>2, <3>1, <3>2, <3>3, <3>4, ChainAppend
  <2> QED BY <1>2, <2>1, <2>2
<1>4. TypeOK'
  BY <1>1, <1>2, <1>3 DEF TypeOK
<1>5. Scanned'
  BY <1>1, <1>2 DEF Scanned, Chain, Ended
<1>6. Grouped'
  BY <1>1, <1>2, <1>3 DEF Grouped
<1>7. Played'
  BY <1>1, <1>2 DEF Played
<1> QED BY <1>4, <1>5, <1>6, <1>7 DEF IInv

\* Which access unit is sent, and which bytes that is.
LEMMA Payload ==
    ASSUME IInv, OnTimerRaw
    PROVE  LET a == (auIndex % Len(accessUnits_)) + 1
               au == accessUnits_[a]
           IN  /\ a \in 1..Len(accessUnits_)
               /\ au.first \in 1..Units /\ au.last \in 1..Units /\ au.first <= au.last
               /\ sent'.bytes.first = nalUnits_[au.first].first
               /\ sent'.bytes.last = nalUnits_[au.last].last
               /\ sent'.type = DetectFrameType(au)
               /\ sent'.bytes \in Ranges(1..Size, 1..Size)
<1> DEFINE a == (auIndex % Len(accessUnits_)) + 1
           au == accessUnits_[a]
<1>1. Len(accessUnits_) > 0 /\ Len(accessUnits_) \in Nat
  <2>1. accessUnits_ \in Seq(Ranges(1..Units, 1..Units)) /\ accessUnits_ # <<>>
    BY DEF IInv, TypeOK, OnTimerRaw
  <2>2. ASSUME NEW T, accessUnits_ \in Seq(T) PROVE Len(accessUnits_) > 0
    BY <2>1, <2>2
  <2> QED BY <2>1, <2>2, Typing DEF IInv
<1>2. a \in 1..Len(accessUnits_)
  <2>1. auIndex \in Nat
    BY DEF IInv, TypeOK
  <2> QED BY <1>1, <2>1
<1>3. au.first \in 1..Units /\ au.last \in 1..Units
  BY <1>2, Typing DEF IInv
<1>4. au.first <= au.last
  BY <1>2 DEF IInv, Grouped, Chain
<1>5. /\ nalUnits_[au.first].first \in 1..Size
      /\ nalUnits_[au.last].last \in 1..Size
  BY <1>3, Typing DEF IInv
<1>6. sent' = [bytes |-> Bytes(nalUnits_[au.first].first, nalUnits_[au.last].last),
               type  |-> DetectFrameType(au)]
  BY DEF OnTimerRaw
<1> HIDE DEF a, au
<1>7. /\ sent'.bytes.first = nalUnits_[au.first].first
      /\ sent'.bytes.last = nalUnits_[au.last].last
      /\ sent'.type = DetectFrameType(au)
      /\ sent'.bytes \in Ranges(1..Size, 1..Size)
  BY <1>5, <1>6 DEF Bytes, Ranges
<1> QED BY <1>2, <1>3, <1>4, <1>7 DEF a, au

LEMMA OnTimerRawHolds == IInv /\ OnTimerRaw => IInv'
<1> SUFFICES ASSUME IInv, OnTimerRaw PROVE IInv'
  OBVIOUS
<1>1. /\ pc = "stream" /\ accessUnits_ # <<>> /\ auIndex < MaxUnits
      /\ auIndex' = auIndex + 1 /\ Size' = Size /\ Units' = Units
      /\ UNCHANGED <<buffer, isH265_, pc, i, start, nalUnits_, currentAU, accessUnits_>>
  BY DEF OnTimerRaw, parseVars, groupVars, Size, Units
<1>2. /\ TypeOK /\ Scanned /\ Grouped /\ Played
      /\ auIndex \in Nat /\ MaxUnits \in Nat
  BY MaxUnitsAssumption DEF IInv, TypeOK
<1> DEFINE a == (auIndex % Len(accessUnits_)) + 1
           au == accessUnits_[a]
<1>3. /\ sent'.bytes.last = nalUnits_[au.last].last
      /\ sent'.type = DetectFrameType(au)
      /\ sent'.bytes \in Ranges(1..Size, 1..Size)
  BY Payload
<1>4. DetectFrameType(au) \in {"VPS", "SPS_PPS", "IDR", "I_FRAME", "P_FRAME", "none"}
  <2> HIDE DEF au
  <2>1. \A t : Known(t) \in {"VPS", "SPS_PPS", "IDR", "I_FRAME", "P_FRAME", "none"}
    BY DEF Known
  <2> QED BY <2>1 DEF DetectFrameType
<1> HIDE DEF au
<1>5. TypeOK'
  BY <1>1, <1>2, <1>3, <1>4 DEF TypeOK
<1>6. Scanned' /\ Grouped'
  BY <1>1, <1>2 DEF Scanned, Grouped, Chain, Ended
<1>7. Played'
  <2>1. auIndex' > 0 /\ auIndex' - 1 = auIndex
    BY <1>1, <1>2
  <2> QED BY <1>1, <1>3, <2>1 DEF Played, au
<1> QED BY <1>5, <1>6, <1>7 DEF IInv

LEMMA StepHolds == IInv /\ [Next]_vars => IInv'
<1> SUFFICES ASSUME IInv, [Next]_vars PROVE IInv'
  OBVIOUS
<1>1. CASE UNCHANGED vars
  BY <1>1 DEF vars, parseVars, groupVars, streamVars, IInv, TypeOK, Scanned, Grouped,
              Played, Chain, Ended, Size, Units
<1> QED BY <1>1, NextByteHolds, StartCodeHolds, ParseEndsHolds, GroupNalHolds,
           GroupEndsHolds, OnTimerRawHolds DEF Next

THEOREM Invariance == Spec => []IInv
<1>1. Init => IInv
  BY InitHolds
<1>2. IInv /\ [Next]_vars => IInv'
  BY StepHolds
<1> QED BY <1>1, <1>2, PTL DEF Spec

\* The parser, the grouping and the timer keep to their types, for every file.
THEOREM TypeCorrect == Spec => []TypeOK
<1>1. IInv => TypeOK
  BY DEF IInv
<1> QED BY <1>1, Invariance, PTL

----------------------------------------------------------------------------
(* The bytes that a connection receives.                                   *)

LEMMA NextPayload ==
    ASSUME IInv, OnTimerRaw
    PROVE  sent'.bytes.first = IF sent.bytes.last \in {0, Size} THEN nalUnits_[1].first
                               ELSE sent.bytes.last + 1
<1> DEFINE L == Len(accessUnits_)
           a == (auIndex % L) + 1
           b == ((auIndex - 1) % L) + 1
<1>1. /\ a \in 1..L
      /\ accessUnits_[a].first \in 1..Units /\ accessUnits_[a].last \in 1..Units
      /\ sent'.bytes.first = nalUnits_[accessUnits_[a].first].first
  BY Payload
<1>2. /\ L \in Nat /\ L > 0 /\ Units \in Nat /\ Size \in Nat /\ auIndex \in Nat
      /\ pc = "stream" /\ accessUnits_ # <<>>
  <2>1. L \in Nat /\ Units \in Nat /\ Size \in Nat
    BY Typing DEF IInv
  <2>2. auIndex \in Nat /\ pc = "stream" /\ accessUnits_ # <<>>
    BY DEF IInv, TypeOK, OnTimerRaw
  <2> QED BY <1>1, <2>1, <2>2
<1>3. /\ accessUnits_[1].first = 1 /\ accessUnits_[L].last = Units
      /\ \A n \in 1..L : n < L => accessUnits_[n + 1].first = accessUnits_[n].last + 1
  BY <1>2 DEF IInv, Grouped, Chain, Ended
<1>4. CASE auIndex = 0
  <2>1. a = 1
    BY <1>2, <1>4
  <2>2. sent.bytes.last = 0
    BY <1>4 DEF IInv, Played, Bytes
  <2> QED BY <1>1, <1>3, <2>1, <2>2
<1>5. CASE auIndex > 0
  <2>1. /\ b \in 1..L
        /\ b = L => a = 1
        /\ b < L => a = b + 1
    <3>1. auIndex - 1 \in Nat /\ (auIndex - 1) + 1 = auIndex
      BY <1>2, <1>5
    <3>2. (auIndex - 1) % L \in 0..(L - 1)
      BY <1>2, <3>1
    <3>3. auIndex % L = IF (auIndex - 1) % L = L - 1 THEN 0 ELSE ((auIndex - 1) % L) + 1
      BY <1>2, <3>1, ModStep
    <3> QED BY <1>2, <3>2, <3>3
  <2> HIDE DEF a, b, L
  <2>2. /\ sent.bytes.last = nalUnits_[accessUnits_[b].last].last
        /\ accessUnits_[b].last \in 1..Units
    BY <1>5, <2>1, Typing DEF IInv, Played, b, L
  <2>3. /\ sent.bytes.last \in 1..Size
        /\ nalUnits_ # <<>> => nalUnits_[Units].last = Size
    BY <1>2, <2>2, Typing DEF IInv, Scanned, Ended, Units
  <2>4. nalUnits_ # <<>> /\ Units > 0
    <3>1. Units > 0
      BY <1>2, <2>2
    <3> QED BY <3>1 DEF Units
  <2>5. CASE b = L
    BY <1>1, <1>2, <1>3, <2>1, <2>2, <2>3, <2>4, <2>5
  <2>6. CASE b < L
    <3> DEFINE m == accessUnits_[b].last
    <3>1. m \in 1..Units /\ m + 1 \in 1..Units /\ accessUnits_[a].first = m + 1
      BY <1>1, <1>2, <1>3, <2>1, <2>2, <2>6
    <3>2. /\ m < Units => nalUnits_[m + 1].first = nalUnits_[m].last + 1
          /\ nalUnits_[m + 1].first \in 1..Size
      BY <2>4, <3>1, Typing DEF IInv, Scanned, Chain, Units
    <3>3. m < Units
      BY <1>2, <3>1
    <3>4. sent'.bytes.first = nalUnits_[m].last + 1
      BY <1>1, <3>1, <3>2, <3>3
    <3>5. nalUnits_[m].last = sent.bytes.last
      BY <2>2
    <3>6. sent.bytes.last + 1 \in 1..Size
      BY <3>2, <3>3, <3>5
    <3>7. sent.bytes.last # 0 /\ sent.bytes.last # Size
      BY <1>2, <2>3, <3>6
    <3> QED BY <3>4, <3>5, <3>7
  <2> QED BY <1>2, <2>1, <2>5, <2>6
<1> QED BY <1>2, <1>4, <1>5

\* Whatever the file, a connection is sent its bytes from the first start code
\* to the end, each once and in order, and then again.
THEOREM PlaysTheFileHolds == Spec => PlaysTheFile
<1>1. IInv /\ [Next]_vars =>
          [auIndex' # auIndex =>
             sent'.bytes.first = IF sent.bytes.last \in {0, Size} THEN nalUnits_[1].first
                                 ELSE sent.bytes.last + 1]_vars
  <2>1. auIndex' # auIndex /\ [Next]_vars => OnTimerRaw
    BY DEF Next, NextByte, StartCode, ParseEnds, GroupNal, GroupEnds, vars, streamVars
  <2> QED BY <2>1, NextPayload
<1> QED BY <1>1, Invariance, PTL DEF Spec, PlaysTheFile

----------------------------------------------------------------------------
(* Slices and frame types.                                                 *)

Single(au) ==
    \A n, m \in au.first..au.last : IsSlice(TypeAt(n)) /\ IsSlice(TypeAt(m)) => n = m

OneSlice ==
    /\ \A a \in 1..Len(accessUnits_) : Single(accessUnits_[a])
    /\ Single(currentAU)

LEMMA SingleStep ==
    ASSUME IInv, OneSlice, GroupNal
    PROVE  Single(currentAU')
<1> DEFINE n == currentAU.last + 1
<1>1. currentAU.first \in Nat \ {0} /\ currentAU.last \in Nat
  BY Typing DEF IInv
<1>2. Single(currentAU)
  BY DEF OneSlice
<1>3. \/ currentAU'.first = n /\ currentAU'.last = n
      \/ /\ currentAU'.first = currentAU.first /\ currentAU'.last = n
         /\ ~IsNewAU(n) \/ n <= currentAU.first
  <2>1. currentAU = Bytes(currentAU.first, currentAU.last)
    BY DEF IInv, TypeOK, Ranges, Bytes
  <2>2. \/ currentAU' = Bytes(n, n)
        \/ /\ currentAU' = [currentAU EXCEPT !.last = n]
           /\ ~IsNewAU(n) \/ ~(n > currentAU.first)
    BY DEF GroupNal
  <2>3. [currentAU EXCEPT !.last = n] = Bytes(currentAU.first, n)
    BY <2>1 DEF Bytes
  <2> QED BY <1>1, <2>2, <2>3 DEF Bytes
<1>4. CASE currentAU'.first = n /\ currentAU'.last = n
  BY <1>1, <1>4 DEF Single
<1>5. CASE /\ currentAU'.first = currentAU.first /\ currentAU'.last = n
           /\ ~IsNewAU(n) \/ n <= currentAU.first
  <2> SUFFICES ASSUME NEW k \in currentAU.first..n, NEW m \in currentAU.first..n,
                      IsSlice(TypeAt(k)), IsSlice(TypeAt(m))
               PROVE  k = m
    BY <1>5 DEF Single
  <2>1. CASE n <= currentAU.first
    BY <1>1, <2>1
  <2>2. CASE ~IsNewAU(n)
    <3>1. IsSlice(TypeAt(n)) => \A j \in currentAU.first..currentAU.last : ~IsSlice(TypeAt(j))
      BY <2>2 DEF IsNewAU, HasSlice
    <3>2. \A j \in currentAU.first..n : j = n \/ j \in currentAU.first..currentAU.last
      BY <1>1
    <3> QED BY <1>2, <3>1, <3>2 DEF Single
  <2> QED BY <1>5, <2>1, <2>2
<1> QED BY <1>3, <1>4, <1>5

LEMMA TypesStay ==
    ASSUME UNCHANGED <<buffer, isH265_, nalUnits_>>, NEW n
    PROVE  TypeAt(n)' = TypeAt(n)
BY DEF TypeAt, GetNalType, Is4ByteStart

LEMMA OneSliceStep == IInv /\ OneSlice /\ [Next]_vars => OneSlice'
<1> SUFFICES ASSUME IInv, OneSlice, [Next]_vars PROVE OneSlice'
  OBVIOUS
<1>1. ASSUME UNCHANGED <<buffer, isH265_, nalUnits_, accessUnits_, currentAU>> PROVE OneSlice'
  BY <1>1, TypesStay DEF OneSlice, Single, IsSlice
<1>2. ASSUME StartCode \/ ParseEnds PROVE OneSlice'
  <2>1. accessUnits_' = <<>> /\ currentAU' = Bytes(1, 0)
    BY <1>2 DEF StartCode, ParseEnds, Scanning, groupVars, IInv, Scanned
  <2>2. Len(accessUnits_') = 0 /\ currentAU'.first = 1 /\ currentAU'.last = 0
    BY <2>1 DEF Bytes
  <2> QED BY <2>2 DEF OneSlice, Single
<1>3. ASSUME GroupNal \/ GroupEnds PROVE OneSlice'
  <2>1. /\ UNCHANGED <<buffer, isH265_, nalUnits_>>
        /\ accessUnits_' \in {<<>>, accessUnits_, Append(accessUnits_, currentAU)}
        /\ Single(currentAU')
    BY <1>3, SingleStep DEF GroupNal, GroupEnds, parseVars, OneSlice
  <2>2. \A a \in 1..Len(accessUnits_') : Single(accessUnits_'[a])
    <3>1. CASE accessUnits_' = <<>>
      <4>1. Len(accessUnits_') = 0
        BY <3>1
      <4> QED BY <4>1
    <3>2. CASE accessUnits_' = accessUnits_
      BY <3>2 DEF OneSlice
    <3>3. CASE accessUnits_' = Append(accessUnits_, currentAU)
      <4>1. \A T : accessUnits_ \in Seq(T) =>
              /\ Len(accessUnits_) \in Nat /\ Len(accessUnits_') = Len(accessUnits_) + 1
              /\ \A a \in 1..Len(accessUnits_) : accessUnits_'[a] = accessUnits_[a]
              /\ accessUnits_'[Len(accessUnits_) + 1] = currentAU
        BY <3>3
      <4>2. accessUnits_ \in Seq(Ranges(1..Units, 1..Units))
        BY DEF IInv, TypeOK
      <4>3. /\ Len(accessUnits_) \in Nat /\ Len(accessUnits_') = Len(accessUnits_) + 1
            /\ \A a \in 1..Len(accessUnits_) : accessUnits_'[a] = accessUnits_[a]
            /\ accessUnits_'[Len(accessUnits_) + 1] = currentAU
        BY <4>1, <4>2
      <4> QED BY <4>3 DEF OneSlice
    <3> QED BY <2>1, <3>1, <3>2, <3>3
  <2> QED BY <2>1, <2>2, TypesStay DEF OneSlice, Single, IsSlice
<1> QED BY <1>1, <1>2, <1>3
        DEF Next, NextByte, OnTimerRaw, vars, parseVars, groupVars

\* Every access unit has at most one slice, for every file and both codecs.
THEOREM OneSlicePerUnitHolds == Spec => []OneSlicePerUnit
<1>1. Init => OneSlice
  <2>1. Init => accessUnits_ = <<>> /\ currentAU.first = 1 /\ currentAU.last = 0
    BY DEF Init, Load, Bytes
  <2>2. Init => Len(accessUnits_) = 0
    BY DEF Init, Load
  <2> QED BY <2>1, <2>2 DEF OneSlice, Single
<1>2. OneSlice => OneSlicePerUnit
  BY DEF OneSlice, OneSlicePerUnit, Single
<1> QED BY <1>1, <1>2, OneSliceStep, Invariance, PTL DEF Spec

LEMMA LeastOf ==
    ASSUME NEW S \in SUBSET Nat, S # {}
    PROVE  LET least == CHOOSE n \in S : \A m \in S : n <= m
           IN  least \in S /\ \A m \in S : least <= m
<1> DEFINE less == {p \in Nat \X Nat : p[1] < p[2]}
<1>1. IsWellFoundedOn(less, Nat)
  BY NatLessThanWellFounded DEF OpToRel
<1>2. PICK k \in S : \A m \in S : ~ (<<m, k>> \in less)
  BY <1>1, WFMin
<1>3. ASSUME NEW m \in S PROVE k <= m
  <2>1. k \in Nat /\ m \in Nat
    OBVIOUS
  <2>2. <<m, k>> \in less <=> m < k
    BY <2>1
  <2> QED BY <1>2, <2>1, <2>2
<1> QED BY <1>3

LEMMA RefreshType ==
    ASSUME IInv, NEW au, au.first \in 1..Units, au.last \in 1..Units, Single(au),
           NEW n \in au.first..au.last, IsRefresh(TypeAt(n))
    PROVE  DetectFrameType(au) # "P_FRAME"
<1> DEFINE known == {k \in au.first..au.last : Known(TypeAt(k)) # "none"}
           least == CHOOSE k \in known : \A m \in known : k <= m
<1>1. Units \in Nat
  BY Typing DEF IInv
<1>2. n \in known /\ IsSlice(TypeAt(n)) /\ Known(TypeAt(n)) = "IDR"
  BY DEF IsRefresh, IsSlice, Known
<1>3. known \in SUBSET Nat /\ known # {}
  BY <1>1, <1>2
<1>4. least \in known
  BY <1>3, LeastOf
<1>5. DetectFrameType(au) = Known(TypeAt(least))
  BY <1>3 DEF DetectFrameType
<1> HIDE DEF least
<1>6. ASSUME Known(TypeAt(least)) = "P_FRAME" PROVE FALSE
  <2>1. IsSlice(TypeAt(least))
    BY <1>6 DEF Known, IsSlice
  <2> QED BY <1>2, <1>4, <1>6, <2>1 DEF Single
<1> QED BY <1>5, <1>6

LEMMA PayloadType ==
    ASSUME IInv, OneSlice, OnTimerRaw, sent'.type = "P_FRAME", NEW n \in 1..Units,
           nalUnits_[n].first \in sent'.bytes.first..sent'.bytes.last
    PROVE  ~IsRefresh(TypeAt(n))
<1> DEFINE a == (auIndex % Len(accessUnits_)) + 1
           au == accessUnits_[a]
<1>1. /\ a \in 1..Len(accessUnits_)
      /\ au.first \in 1..Units /\ au.last \in 1..Units /\ au.first <= au.last
      /\ sent'.bytes.first = nalUnits_[au.first].first
      /\ sent'.bytes.last = nalUnits_[au.last].last
      /\ sent'.type = DetectFrameType(au)
  BY Payload
<1>2. Single(au)
  BY <1>1 DEF OneSlice
<1> HIDE DEF a, au
<1>3. /\ Units \in Nat
      /\ \A m \in 1..Units : nalUnits_[m].first \in Nat /\ nalUnits_[m].last \in Nat
      /\ \A m \in 1..Units : nalUnits_[m].first <= nalUnits_[m].last
      /\ \A k, m \in 1..Units : k < m => nalUnits_[k].last < nalUnits_[m].first
  <2>1. /\ Units \in Nat /\ Size \in Nat
        /\ \A m \in 1..Units : nalUnits_[m].first \in 1..Size /\ nalUnits_[m].last \in 1..Size
    BY Typing DEF IInv
  <2>2. nalUnits_ # <<>>
    <3>1. nalUnits_ = <<>> => Len(nalUnits_) = 0
      OBVIOUS
    <3> QED BY <2>1, <3>1 DEF Units
  <2> QED BY <2>1, <2>2 DEF IInv, Scanned, Chain, Units
<1>4. n \in au.first..au.last
  <2>1. ~(n < au.first)
    <3>1. n < au.first => nalUnits_[n].first < nalUnits_[au.first].first
      BY <1>1, <1>3
    <3> QED BY <1>1, <1>3, <3>1
  <2>2. ~(n > au.last)
    BY <1>1, <1>3
  <2> QED BY <1>1, <1>3, <2>1, <2>2
<1> QED BY <1>1, <1>2, <1>4, RefreshType

\* An access unit with an instantaneous refresh is never announced as a P
\* frame, for every file and both codecs.
THEOREM RefreshIsNotPHolds == Spec => RefreshIsNotP
<1> DEFINE A == auIndex' # auIndex /\ sent'.type = "P_FRAME" =>
                  \A n \in 1..Units :
                      nalUnits_[n].first \in sent'.bytes.first..sent'.bytes.last
                          => ~IsRefresh(TypeAt(n))
<1>1. IInv /\ OneSlice /\ [Next]_vars => [A]_vars
  <2>1. auIndex' # auIndex /\ [Next]_vars => OnTimerRaw
    BY DEF Next, NextByte, StartCode, ParseEnds, GroupNal, GroupEnds, vars, streamVars
  <2> QED BY <2>1, PayloadType
<1>2. Init => OneSlice
  <2>1. Init => accessUnits_ = <<>> /\ currentAU.first = 1 /\ currentAU.last = 0
    BY DEF Init, Load, Bytes
  <2>2. Init => Len(accessUnits_) = 0
    BY DEF Init, Load
  <2> QED BY <2>1, <2>2 DEF OneSlice, Single
<1>3. Spec => [](IInv /\ OneSlice)
  BY <1>2, OneSliceStep, Invariance, PTL DEF Spec
<1> QED BY <1>1, <1>3, PTL DEF Spec, RefreshIsNotP

----------------------------------------------------------------------------
(* Start codes.  Those before i have been found, and i is not in the       *)
(* middle of one.                                                          *)

Found ==
    /\ \A n \in 1..Units : nalUnits_[n].first \in Begins
    /\ pc = "parse" /\ start > 0 => start \in Begins
    /\ \A b \in Begins :
          \/ pc = "parse" /\ (b >= i \/ b = start)
          \/ \E n \in 1..Units : nalUnits_[n].first = b
    /\ pc = "parse" /\ i > 1 => ~Is4ByteStart(i - 1)

\* What Begins says of a position and its neighbours.
LEMMA BeginsAt ==
    ASSUME Size \in Nat, NEW b \in Nat \ {0}
    PROVE  /\ b <= Size - 3 /\ Is4ByteStart(b) => b \in Begins
           /\ b \in 2..(Size - 3) /\ Is3ByteStart(b) /\ ~Is4ByteStart(b - 1) => b \in Begins
           /\ b \in Begins => b <= Size - 3 /\ (Is4ByteStart(b) \/ Is3ByteStart(b))
<1> DEFINE C == {q \in 2..(Size - 2) :
                    /\ buffer[q] = 0 /\ buffer[q + 1] = 0 /\ buffer[q + 2] = 1
                    /\ q = Size - 2 => buffer[q - 1] = 0}
<1>1. Begins = {IF buffer[p - 1] = 0 THEN p - 1 ELSE p : p \in C}
  BY DEF Begins
<1>2. ASSUME b <= Size - 3, Is4ByteStart(b) PROVE b \in Begins
  <2>1. b + 1 \in C /\ (b + 1) - 1 = b /\ buffer[b] = 0
    BY <1>2 DEF Is4ByteStart
  <2> QED BY <1>1, <2>1
<1>3. ASSUME b \in 2..(Size - 3), Is3ByteStart(b), ~Is4ByteStart(b - 1) PROVE b \in Begins
  <2>1. b \in C /\ buffer[b - 1] # 0
    BY <1>3 DEF Is4ByteStart, Is3ByteStart
  <2> QED BY <1>1, <2>1
<1>4. ASSUME b \in Begins PROVE b <= Size - 3 /\ (Is4ByteStart(b) \/ Is3ByteStart(b))
  <2>1. PICK p \in C : b = IF buffer[p - 1] = 0 THEN p - 1 ELSE p
    BY <1>1, <1>4
  <2>2. CASE buffer[p - 1] = 0
    BY <2>1, <2>2 DEF Is4ByteStart
  <2>3. CASE buffer[p - 1] # 0
    BY <2>1, <2>3 DEF Is4ByteStart, Is3ByteStart
  <2> QED BY <2>2, <2>3
<1> QED BY <1>2, <1>3, <1>4

LEMMA BeginsPositive == Size \in Nat => Begins \subseteq Nat \ {0}
BY DEF Begins

\* Inside a start code that was just found, no other begins.
LEMMA NothingInside ==
    ASSUME Size \in Nat, NEW p \in Nat \ {0}, NEW b \in Begins, b > p,
           Is4ByteStart(p) \/ Is3ByteStart(p)
    PROVE  b >= IF Is4ByteStart(p) THEN p + 4 ELSE p + 3
<1>1. b \in Nat \ {0} /\ (Is4ByteStart(b) \/ Is3ByteStart(b))
  BY BeginsPositive, BeginsAt
<1>2. buffer[b] = 0 /\ buffer[b + 1] = 0
  BY <1>1 DEF Is4ByteStart, Is3ByteStart
<1>3. CASE Is4ByteStart(p)
  <2>1. buffer[p + 3] = 1
    BY <1>3 DEF Is4ByteStart
  <2>2. b # p + 3 /\ b + 1 # p + 3
    BY <1>2, <2>1
  <2>3. b # p + 1
    <3>1. SUFFICES ASSUME b = p + 1 PROVE FALSE
      OBVIOUS
    <3>2. buffer[b + 2] = 1 /\ ~Is4ByteStart(b)
      BY <2>1, <3>1 DEF Is4ByteStart
    <3>3. p + 1 \in Begins /\ Is4ByteStart(p)
      BY <1>3, <3>1
    <3>4. PICK q \in 2..(Size - 2) :
             /\ buffer[q] = 0 /\ buffer[q + 1] = 0 /\ buffer[q + 2] = 1
             /\ p + 1 = IF buffer[q - 1] = 0 THEN q - 1 ELSE q
      BY <3>3 DEF Begins
    <3>5. q = p + 1 \/ q = p + 2
      BY <3>4
    <3>6. CASE q = p + 1
      BY <1>3, <3>4, <3>6 DEF Is4ByteStart
    <3>7. CASE q = p + 2
      BY <2>1, <3>4, <3>7
    <3> QED BY <3>5, <3>6, <3>7
  <2> QED BY <1>1, <1>3, <2>2, <2>3
<1>4. CASE ~Is4ByteStart(p)
  <2>1. buffer[p + 2] = 1
    BY <1>4 DEF Is3ByteStart
  <2>2. b # p + 2 /\ b + 1 # p + 2
    BY <1>2, <2>1
  <2> QED BY <1>1, <1>4, <2>2
<1> QED BY <1>3, <1>4

\* The NAL unit at hand joins the others, and the rest of Found with it.
LEMMA CutFound ==
    ASSUME IInv, Found, pc = "parse", NEW last,
           nalUnits_' = IF start = 0 THEN nalUnits_ ELSE Append(nalUnits_, Bytes(start, last))
    PROVE  /\ \A n \in 1..Len(nalUnits_') : nalUnits_'[n].first \in Begins
           /\ \A b \in Begins : b < i => \E n \in 1..Len(nalUnits_') : nalUnits_'[n].first = b
<1>1. start \in Nat /\ Units \in Nat /\ Size \in Nat /\ Begins \subseteq Nat \ {0}
      /\ i \in Nat
  BY Typing, BeginsPositive DEF IInv, TypeOK
<1>2. CASE start = 0
  BY <1>1, <1>2 DEF Found, Units
<1>3. CASE start > 0
  <2>1. /\ Len(nalUnits_') = Units + 1 /\ \A n \in 1..Units : nalUnits_'[n] = nalUnits_[n]
        /\ nalUnits_'[Units + 1] = Bytes(start, last)
    <3>1. \A T : nalUnits_ \in Seq(T) =>
            /\ Len(nalUnits_') = Units + 1 /\ \A n \in 1..Units : nalUnits_'[n] = nalUnits_[n]
            /\ nalUnits_'[Units + 1] = Bytes(start, last)
      BY <1>1, <1>3 DEF Units
    <3> QED BY <3>1 DEF IInv, TypeOK
  <2>2. nalUnits_'[Units + 1].first = start /\ start \in Begins
    BY <1>3, <2>1 DEF Bytes, Found
  <2>3. \A n \in 1..Len(nalUnits_') : n = Units + 1 \/ n \in 1..Units
    BY <1>1, <2>1
  <2>4. \A n \in 1..Len(nalUnits_') : nalUnits_'[n].first \in Begins
    BY <2>1, <2>2, <2>3 DEF Found
  <2>5. Units + 1 \in 1..Len(nalUnits_') /\ \A n \in 1..Units : n \in 1..Len(nalUnits_')
    BY <1>1, <2>1
  <2>6. ASSUME NEW b \in Begins, b < i PROVE \E n \in 1..Len(nalUnits_') : nalUnits_'[n].first = b
    <3>1. b = start \/ \E n \in 1..Units : nalUnits_[n].first = b
      BY <1>1, <2>6 DEF Found
    <3> QED BY <2>1, <2>2, <2>5, <3>1
  <2> QED BY <2>4, <2>6
<1> QED BY <1>1, <1>2, <1>3

LEMMA FoundStep == IInv /\ Found /\ [Next]_vars => Found'
<1> SUFFICES ASSUME IInv, Found, [Next]_vars PROVE Found'
  OBVIOUS
<1>1. i \in Nat \ {0} /\ Size \in Nat /\ start \in Nat /\ Begins \subseteq Nat \ {0}
  BY Typing, BeginsPositive DEF IInv, TypeOK
<1>2. CASE NextByte
  <2>1. /\ pc = "parse" /\ pc' = "parse" /\ i' = i + 1 /\ i <= Size - 3
        /\ ~Is4ByteStart(i) /\ ~Is3ByteStart(i)
        /\ Begins' = Begins /\ Units' = Units
        /\ UNCHANGED <<buffer, isH265_, start, nalUnits_>>
    BY <1>2 DEF NextByte, Scanning, Begins, Units, Size, Is4ByteStart
  <2>2. i \notin Begins
    BY <1>1, <2>1, BeginsAt
  <2>3. \A b \in Begins : b >= i => b >= i + 1
    BY <1>1, <2>2
  <2>4. (~Is4ByteStart(i - 1))'
    <3>1. i' - 1 = i
      BY <1>1, <2>1
    <3> QED BY <2>1, <3>1 DEF Is4ByteStart
  <2> QED BY <1>1, <2>1, <2>3, <2>4 DEF Found
<1>3. CASE StartCode
  <2>1. /\ pc = "parse" /\ pc' = "parse" /\ i <= Size - 3 /\ start' = i
        /\ Is4ByteStart(i) \/ Is3ByteStart(i)
        /\ i' = IF Is4ByteStart(i) THEN i + 4 ELSE i + 3
        /\ nalUnits_' = IF start = 0 THEN nalUnits_ ELSE Append(nalUnits_, Bytes(start, i - 1))
        /\ buffer' = buffer /\ Begins' = Begins /\ i - 1 \in Nat
    BY <1>1, <1>3 DEF StartCode, Scanning, Begins, Size
  <2>2. i \in Begins
    <3>1. CASE Is4ByteStart(i)
      BY <1>1, <2>1, <3>1, BeginsAt
    <3>2. CASE ~Is4ByteStart(i)
      <4>1. Is3ByteStart(i) /\ i \in 2..(Size - 3) /\ ~Is4ByteStart(i - 1)
        BY <1>1, <2>1, <3>2 DEF Is3ByteStart, Found
      <4> QED BY <1>1, <4>1, BeginsAt
    <3> QED BY <3>1, <3>2
  <2>3. /\ \A n \in 1..Len(nalUnits_') : nalUnits_'[n].first \in Begins
        /\ \A b \in Begins : b < i => \E n \in 1..Len(nalUnits_') : nalUnits_'[n].first = b
    <3> DEFINE last == i - 1
    <3> HIDE DEF last
    <3>1. nalUnits_' = IF start = 0 THEN nalUnits_ ELSE Append(nalUnits_, Bytes(start, last))
      BY <2>1 DEF last
    <3> QED BY <2>1, <3>1, CutFound
  <2>4. \A b \in Begins : b > i => b >= i'
    BY <1>1, <2>1, NothingInside
  <2>5. (~Is4ByteStart(i - 1))'
    <3>1. buffer[i' - 1] = 1
      BY <1>1, <2>1 DEF Is4ByteStart, Is3ByteStart
    <3> QED BY <2>1, <3>1 DEF Is4ByteStart
  <2>6. \A b \in Begins : b < i \/ b = i \/ b > i
    BY <1>1
  <2> QED BY <2>1, <2>2, <2>3, <2>4, <2>5, <2>6 DEF Found, Units
<1>4. CASE ParseEnds
  <2>1. /\ pc = "parse" /\ pc' = "group" /\ ~(i <= Size - 3)
        /\ nalUnits_' = IF start = 0 THEN nalUnits_ ELSE Append(nalUnits_, Bytes(start, Size))
        /\ Begins' = Begins
    BY <1>4 DEF ParseEnds, Scanning, Begins, Size
  <2>2. /\ \A n \in 1..Len(nalUnits_') : nalUnits_'[n].first \in Begins
        /\ \A b \in Begins : b < i => \E n \in 1..Len(nalUnits_') : nalUnits_'[n].first = b
    BY <1>1, <2>1, CutFound
  <2>3. \A b \in Begins : b < i
    BY <1>1, <2>1, BeginsAt
  <2>4. \A b \in Begins : \E n \in 1..Len(nalUnits_') : nalUnits_'[n].first = b
    BY <2>2, <2>3
  <2>5. pc' # "parse"
    BY <2>1
  <2>6. (\A n \in 1..Units : nalUnits_[n].first \in Begins)'
    BY <2>1, <2>2 DEF Units
  <2>7. (\A b \in Begins : \E n \in 1..Units : nalUnits_[n].first = b)'
    BY <2>1, <2>4 DEF Units
  <2>8. (pc = "parse" /\ start > 0 => start \in Begins)'
    BY <2>5
  <2>9. (pc = "parse" /\ i > 1 => ~Is4ByteStart(i - 1))'
    BY <2>5
  <2>10. (\A b \in Begins :
          \/ pc = "parse" /\ (b >= i \/ b = start)
          \/ \E n \in 1..Units : nalUnits_[n].first = b)'
    BY <2>7
  <2> QED BY <2>6, <2>8, <2>9, <2>10 DEF Found
<1>5. CASE UNCHANGED <<buffer, isH265_, i, start, nalUnits_>> /\ (pc' = pc \/ (pc = "group" /\ pc' = "stream"))
  <2>1. /\ Begins' = Begins /\ Units' = Units /\ i' = i /\ start' = start
        /\ nalUnits_' = nalUnits_
        /\ pc' = "parse" => pc = "parse"
    BY <1>5 DEF Begins, Units, Size
  <2>2. (\A n \in 1..Units : nalUnits_[n].first \in Begins)'
    BY <2>1 DEF Found
  <2>3. (pc = "parse" /\ start > 0 => start \in Begins)'
    BY <2>1 DEF Found
  <2>4. (\A b \in Begins :
          \/ pc = "parse" /\ (b >= i \/ b = start)
          \/ \E n \in 1..Units : nalUnits_[n].first = b)'
    BY <1>5, <2>1 DEF Found
  <2>5. (pc = "parse" /\ i > 1 => ~Is4ByteStart(i - 1))'
    BY <1>5, <2>1 DEF Found, Is4ByteStart
  <2> QED BY <2>2, <2>3, <2>4, <2>5 DEF Found
<1> QED BY <1>2, <1>3, <1>4, <1>5
        DEF Next, GroupNal, GroupEnds, OnTimerRaw, vars, parseVars

LEMMA FoundHolds == Spec => []Found
<1>1. Init => Found
  <2> SUFFICES ASSUME Init PROVE Found
    OBVIOUS
  <2>1. /\ pc = "parse" /\ start = 0 /\ i = 1 /\ nalUnits_ = <<>> /\ Size \in Nat
    BY FilesAssumption DEF Init, Load, Size
  <2>2. Units = 0
    BY <2>1 DEF Units
  <2>3. \A b \in Begins : b >= 1
    BY <2>1, BeginsPositive
  <2> QED BY <2>1, <2>2, <2>3 DEF Found
<1> QED BY <1>1, FoundStep, Invariance, PTL DEF Spec

\* Whatever the file, NalParser finds each start code once, except a bare one
\* of three bytes at either end of the file.
THEOREM StartCodesAreNalsHolds == Spec => []StartCodesAreNals
<1>1. IInv /\ Found => StartCodesAreNals
  <2> SUFFICES ASSUME IInv, Found, pc # "parse" PROVE
             /\ {nalUnits_[n].first : n \in 1..Units} = Begins
             /\ \A m, n \in 1..Units : nalUnits_[m].first = nalUnits_[n].first => m = n
    BY DEF StartCodesAreNals
  <2>1. {nalUnits_[n].first : n \in 1..Units} = Begins
    BY DEF Found
  <2>2. ASSUME NEW m \in 1..Units, NEW n \in 1..Units, m < n
        PROVE  nalUnits_[m].first # nalUnits_[n].first
    <3>1. /\ Size \in Nat /\ nalUnits_[m].first \in 1..Size /\ nalUnits_[m].last \in 1..Size
          /\ nalUnits_[n].first \in 1..Size
      BY Typing DEF IInv
    <3>2. nalUnits_ # <<>>
      <4>1. nalUnits_ = <<>> => Len(nalUnits_) = 0
        OBVIOUS
      <4> QED BY <4>1 DEF Units
    <3>3. nalUnits_[m].first <= nalUnits_[m].last /\ nalUnits_[m].last < nalUnits_[n].first
      BY <2>2, <3>2 DEF IInv, Scanned, Chain, Units
    <3> QED BY <3>1, <3>3
  <2>3. Units \in Nat
    BY Typing DEF IInv
  <2> QED BY <2>1, <2>2, <2>3
<1> QED BY <1>1, FoundHolds, Invariance, PTL
=============================================================================
