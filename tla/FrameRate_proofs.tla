-------------------------- MODULE FrameRate_proofs --------------------------
(* LoadFile with the frame rate and the timer implements RawStream, so all *)
(* that is proved of RawStream holds of it.                                *)
EXTENDS FrameRate, SpsReader_proofs, RawStream_proofs

\* Reading the frame rate between the two passes over the file, and pacing the
\* stream by it, changes nothing in what is sent and in which order: whatever
\* the files, LoadFile and OnTimerRaw implement RawStream.
THEOREM Implements == RateSpec => Spec
<1>1. RateInit => Init
  BY DEF RateInit, Init
<1>2. [RateNext]_allVars => [Next]_vars
  <2> SUFFICES ASSUME [RateNext]_allVars PROVE [Next]_vars
    OBVIOUS
  <2>1. CASE UNCHANGED allVars
    BY <2>1 DEF allVars
  <2>2. CASE NextByte \/ StartCode \/ ParseEnds \/ GroupNal \/ GroupEnds
    BY <2>2 DEF Next
  <2>3. CASE FindSps \/ ReadRate
    BY <2>3 DEF FindSps, ReadRate
  <2>4. CASE Expires
    BY <2>4 DEF Expires, Next
  <2> QED  BY <2>1, <2>2, <2>3, <2>4 DEF RateNext
<1> QED  BY <1>1, <1>2, PTL DEF RateSpec, Spec

\* What a connection is sent, at the rate of the SPS, is the file over and
\* over, for every file.
THEOREM RatePlaysTheFile == RateSpec => PlaysTheFile
BY Implements, PlaysTheFileHolds

----------------------------------------------------------------------------
(* The timer.                                                              *)

\* The rate is one that the timer can take, there is a rate before there is a
\* stream, and the timestamp is that of the access unit sent last.
Paced ==
    /\ RateType(frameRate_)
    /\ loading \in {"sps", "rate", "done"}
    /\ loading = "rate" => BitsOK
    /\ loading # "done" => pc # "stream"
    /\ pc # "stream" => auIndex = 0
    /\ auIndex > 0 => stamp = ((auIndex - 1) * 1000 * frameRate_.den) \div frameRate_.num

LEMMA PacedInit == RateInit => Paced
BY DefaultType DEF RateInit, Load, Paced

LEMMA ReadsSpsType ==
    ASSUME IInv, NEW n \in 1..Units, ReadsSps(n)
    PROVE  loading' = "done" \/ (loading' = "rate" /\ BitsOK')
<1> DEFINE nal == nalUnits_[n]
           a == nal.first + (IF Is4ByteStart(nal.first) THEN 4 ELSE 3)
           data == SubSeq(buffer, a, nal.last)
           rbsp == RemoveEmulationPrevention(data)
           header == HeaderSize + 1
           rest == SubSeq(rbsp, header, Len(rbsp))
<1>1. Size \in Nat /\ buffer \in Seq(0..255) /\ nal.first \in 1..Size /\ nal.last \in 1..Size
  BY Typing DEF IInv
<1>2. \A k \in a..nal.last : buffer[k] \in 0..255
  <2> SUFFICES ASSUME NEW k \in a..nal.last PROVE buffer[k] \in 0..255
    OBVIOUS
  <2>1. k \in 1..Len(buffer)
    BY <1>1 DEF Size
  <2> QED BY <1>1, <2>1, ElementOfSeq
<1>3. a \in Int /\ nal.last \in Int
  BY <1>1
<1>4. data \in Seq(0..255)
  <2> HIDE DEF a, nal
  <2> QED BY <1>2, <1>3, SubSeqProperties
<1>5. rbsp \in Seq(0..255)
  <2> HIDE DEF data
  <2> QED BY <1>4, RbspType
<1>6. loading' = "done" \/ (loading' = "rate" /\ bits' = BitsOf(rest))
  BY DEF ReadsSps
<1> HIDE DEF rbsp
<1>7. header \in Nat \ {0} /\ Len(rbsp) \in Nat
  BY <1>5 DEF HeaderSize
<1> HIDE DEF header
<1>8. \A k \in header..Len(rbsp) : rbsp[k] \in 0..255
  <2> SUFFICES ASSUME NEW k \in header..Len(rbsp) PROVE rbsp[k] \in 0..255
    OBVIOUS
  <2>1. k \in 1..Len(rbsp)
    BY <1>7
  <2> QED BY <1>5, <2>1, ElementOfSeq
<1>9. rest \in Seq(0..255)
  BY <1>7, <1>8, SubSeqProperties
<1> HIDE DEF rest
<1>10. BitsOf(rest) \in Seq({0, 1})
  BY <1>9, BitsOfType
<1> QED BY <1>6, <1>10 DEF BitsOK

\* Rounding each interval down loses no less than rounding their sum.
LEMMA Intervals ==
    ASSUME NEW n \in Nat, NEW d \in Nat, NEW r \in Nat \ {0}
    PROVE  (n * d) \div r >= n * (d \div r)
<1> DEFINE q == d \div r
<1>1. q \in Nat /\ r * q <= d
  OBVIOUS
<1> HIDE DEF q
<1>2. r * (n * q) <= n * d
  <2>1. n * (r * q) <= n * d
    BY <1>1
  <2>2. r * (n * q) = n * (r * q)
    BY <1>1
  <2> QED BY <2>1, <2>2
<1> DEFINE x == n * q
           y == n * d
<1>3. x \in Nat /\ y \in Nat
  BY <1>1
<1> HIDE DEF x, y
<1>4. r * x <= y
  BY <1>2 DEF x, y
<1>5. y \div r >= x
  BY <1>3, <1>4
<1> QED BY <1>5 DEF x, y, q

LEMMA PacedStep == IInv /\ Paced /\ [RateNext]_allVars => Paced'
<1> SUFFICES ASSUME IInv, Paced, [RateNext]_allVars PROVE Paced'
  OBVIOUS
<1>1. CASE UNCHANGED allVars
  BY <1>1 DEF allVars, vars, streamVars, rateVars, Paced, BitsOK
<1>2. CASE (NextByte \/ StartCode \/ ParseEnds) /\ UNCHANGED rateVars
  BY <1>2 DEF NextByte, StartCode, ParseEnds, Scanning, streamVars, rateVars, Paced, BitsOK
<1>3. CASE FindSps
  <2>1. pc = "group" /\ UNCHANGED <<pc, auIndex, stamp, frameRate_>>
    BY <1>3 DEF FindSps, vars, streamVars
  <2>2. loading' = "done" \/ (loading' = "rate" /\ BitsOK')
    BY <1>3, ReadsSpsType DEF FindSps
  <2> QED BY <2>1, <2>2 DEF Paced
<1>4. CASE ReadRate
  <2>1. /\ loading = "rate" /\ loading' = "done" /\ UNCHANGED <<pc, auIndex, stamp>>
        /\ frameRate_' \in {ParseH265Fps, ParseH264Fps}
    BY <1>4 DEF ReadRate, vars, streamVars
  <2>2. RateType(frameRate_')
    BY <2>1, Rate264Type, Rate265Type DEF Paced
  <2>3. RateType(frameRate_)'
    BY <2>2 DEF RateType, Fps
  <2> QED BY <2>1, <2>3 DEF Paced
<1>5. CASE loading = "done" /\ (GroupNal \/ GroupEnds) /\ UNCHANGED rateVars
  BY <1>5 DEF GroupNal, GroupEnds, streamVars, rateVars, Paced, BitsOK
<1>6. CASE Expires
  <2>1. /\ pc = "stream" /\ pc' = pc /\ auIndex' = auIndex + 1 /\ UNCHANGED <<loading, bits, frameRate_>>
        /\ stamp' = (auIndex * 1000 * frameRate_.den) \div frameRate_.num
    BY <1>6 DEF Expires, OnTimerRaw
  <2>2. auIndex' - 1 = auIndex
    BY <2>1, Typing DEF IInv, TypeOK
  <2> QED BY <2>1, <2>2 DEF Paced, BitsOK
<1> QED BY <1>1, <1>2, <1>3, <1>4, <1>5, <1>6 DEF RateNext

LEMMA PacedInTime == IInv /\ Paced => SentInTime
<1> SUFFICES ASSUME IInv, Paced, auIndex > 0 PROVE stamp >= (auIndex - 1) * TimerInterval
  BY DEF SentInTime
<1> DEFINE n == auIndex - 1
           d == 1000 * frameRate_.den
           r == frameRate_.num
<1>1. n \in Nat
  BY MaxUnitsAssumption DEF IInv, TypeOK
<1>2. frameRate_.den \in Nat /\ r \in Nat \ {0}
  BY DEF Paced, RateType
<1>3. d \in Nat
  BY <1>2
<1>4. TimerInterval = d \div r
  BY DEF TimerInterval
<1>5. stamp = (n * d) \div r
  <2>1. stamp = (n * 1000 * frameRate_.den) \div r
    BY DEF Paced
  <2>2. n * 1000 * frameRate_.den = n * d
    BY <1>1, <1>2
  <2> QED BY <2>1, <2>2
<1> HIDE DEF n, d, r
<1>6. (n * d) \div r >= n * (d \div r)
  BY <1>1, <1>2, <1>3, Intervals
<1>7. stamp >= n * TimerInterval
  BY <1>4, <1>5, <1>6
<1> QED BY <1>7 DEF n

\* Whatever the file and the rate its bytes give, each access unit is sent
\* with a timestamp that the timer has not passed.
THEOREM SentInTimeHolds == RateSpec => []SentInTime
<1>1. RateSpec => []IInv
  BY Implements, Invariance, PTL
<1>2. RateSpec => []Paced
  BY <1>1, PacedInit, PacedStep, PTL DEF RateSpec
<1> QED BY <1>1, <1>2, PacedInTime, PTL

----------------------------------------------------------------------------
(* The first SPS of a file.                                                *)

\* A NAL unit of the bytes e lies behind the first a bytes of the file, or the
\* file ends in it.
Lies(a, e) ==
    /\ a + 5 <= Size
    /\ buffer[a + 1] = 0 /\ buffer[a + 2] = 0 /\ buffer[a + 3] = 0 /\ buffer[a + 4] = 1
    /\ \A k \in 1..Len(e) : a + 4 + k <= Size => buffer[a + 4 + k] = e[k]

\* The first a bytes are without an SPS.
NoneWithin(a) ==
    \A q \in 1..(a - 3) :
        buffer[q] = 0 /\ buffer[q + 1] = 0 /\ buffer[q + 2] = 1 => ~SpsType(buffer[q + 3], isH265_)

\* Behind the start code at p.
Payload4(p) == p + (IF Is4ByteStart(p) THEN 4 ELSE 3)

LEMMA TypeOfUnit ==
    ASSUME IInv, Found, NEW n \in 1..Units
    PROVE  LET f == nalUnits_[n].first
               q == Payload4(f)
           IN  /\ f \in Begins /\ f \in Nat \ {0} /\ f <= Size - 3 /\ q \in Nat /\ q - 3 \in Nat \ {0}
               /\ buffer[q - 3] = 0 /\ buffer[q - 2] = 0 /\ buffer[q - 1] = 1
               /\ IsSps(n) <=> q <= nalUnits_[n].last /\ SpsType(buffer[q], isH265_)
<1> DEFINE nal == nalUnits_[n]
           f == nal.first
           q == Payload4(f)
<1>1. Size \in Nat /\ isH265_ \in BOOLEAN
  BY Typing DEF IInv, TypeOK
<1>2. f \in Begins
  BY DEF Found
<1>3. f \in Nat \ {0}
  BY <1>1, <1>2, BeginsPositive
<1>4. f <= Size - 3 /\ (Is4ByteStart(f) \/ Is3ByteStart(f))
  <2> HIDE DEF f
  <2> QED BY <1>1, <1>2, <1>3, BeginsAt
<1>5. IsSps(n) <=> q <= nal.last /\ SpsType(buffer[q], isH265_)
  <2> DEFINE type == GetNalType(nal)
             byte == buffer[q]
  <2>1. type = IF q > nal.last THEN Invalid ELSE IF isH265_ THEN (byte \div 2) % 64 ELSE byte % 32
    BY DEF GetNalType, Payload4
  <2>2. IsSps(n) <=> type = (IF isH265_ THEN 33 ELSE 7)
    BY DEF IsSps, TypeAt
  <2>3. q > nal.last <=> ~(q <= nal.last)
    <3>1. nal.last \in 1..Size
      BY Typing DEF IInv
    <3>2. q \in Nat
      BY <1>3 DEF Payload4
    <3> HIDE DEF q, nal
    <3> QED BY <1>1, <3>1, <3>2
  <2> HIDE DEF type, byte, q, nal
  <2>4. CASE q <= nal.last
    BY <1>1, <2>1, <2>2, <2>3, <2>4 DEF SpsType, byte
  <2>5. CASE ~(q <= nal.last)
    BY <1>1, <2>1, <2>2, <2>3, <2>5 DEF Invalid
  <2> QED BY <2>4, <2>5
<1> HIDE DEF f
<1>6. CASE Is4ByteStart(f)
  <2>1. q = f + 4
    BY <1>6 DEF Payload4
  <2>2. buffer[f + 1] = 0 /\ buffer[f + 2] = 0 /\ buffer[f + 3] = 1
    BY <1>6 DEF Is4ByteStart
  <2>3. q \in Nat /\ q - 3 = f + 1 /\ q - 2 = f + 2 /\ q - 1 = f + 3 /\ q - 3 \in Nat \ {0}
    BY <1>3, <2>1
  <2> HIDE DEF q
  <2>4. buffer[q - 3] = 0 /\ buffer[q - 2] = 0 /\ buffer[q - 1] = 1
    BY <2>2, <2>3
  <2> QED BY <1>2, <1>3, <1>4, <1>5, <2>3, <2>4 DEF f, q
<1>7. CASE ~Is4ByteStart(f)
  <2>1. q = f + 3
    BY <1>7 DEF Payload4
  <2>2. buffer[f] = 0 /\ buffer[f + 1] = 0 /\ buffer[f + 2] = 1
    BY <1>4, <1>7 DEF Is3ByteStart
  <2>3. q \in Nat /\ q - 3 = f /\ q - 2 = f + 1 /\ q - 1 = f + 2 /\ q - 3 \in Nat \ {0}
    BY <1>3, <2>1
  <2> HIDE DEF q
  <2>4. buffer[q - 3] = 0 /\ buffer[q - 2] = 0 /\ buffer[q - 1] = 1
    BY <2>2, <2>3
  <2> QED BY <1>2, <1>3, <1>4, <1>5, <2>3, <2>4 DEF f, q
<1> QED BY <1>6, <1>7

LEMMA NotAnSps ==
    ASSUME IInv, Found, NEW a \in Nat, NoneWithin(a), NEW n \in 1..Units, nalUnits_[n].last <= a
    PROVE  ~IsSps(n)
<1> DEFINE q == Payload4(nalUnits_[n].first)
           p == q - 3
           l == nalUnits_[n].last
<1>1. /\ q \in Nat /\ p \in Nat \ {0}
      /\ buffer[p] = 0 /\ buffer[q - 2] = 0 /\ buffer[q - 1] = 1
      /\ IsSps(n) <=> q <= l /\ SpsType(buffer[q], isH265_)
  BY TypeOfUnit, Zenon
<1>2. l \in Nat /\ l <= a
  BY Typing DEF IInv
<1> HIDE DEF q, l
<1>3. q - 2 = p + 1 /\ q - 1 = p + 2 /\ q = p + 3
  BY <1>1
<1>4. SUFFICES ASSUME q <= l, SpsType(buffer[q], isH265_) PROVE FALSE
  BY <1>1
<1>5. p \in 1..(a - 3)
  BY <1>1, <1>2, <1>3, <1>4
<1> HIDE DEF p
<1>6. ~SpsType(buffer[p + 3], isH265_)
  BY <1>1, <1>3, <1>5 DEF NoneWithin
<1> QED BY <1>3, <1>4, <1>6

\* No NAL unit begins within one whose bytes have no start code.
LEMMA NextBegin ==
    ASSUME IInv, NEW a \in Nat, NEW e \in Octets, Len(e) > 0, Lies(a, e),
           Distinct(e), e[Len(e)] # 0, NEW b \in Begins, b > a + 1
    PROVE  b > a + 4 + Len(e)
<1> DEFINE n == Len(e)
           p == a + 1
           k == b - a - 4
<1>1. Size \in Nat /\ n \in Nat
  BY Typing, OctetsAre DEF IInv
<1>2. b \in Nat \ {0}
  BY <1>1, BeginsPositive
<1>3. b <= Size - 3 /\ (Is4ByteStart(b) \/ Is3ByteStart(b))
  BY <1>1, <1>2, BeginsAt
<1>4. buffer[b] = 0 /\ buffer[b + 1] = 0 /\ buffer[b + 2] \in {0, 1}
  BY <1>3 DEF Is4ByteStart, Is3ByteStart
<1>5. Is4ByteStart(p)
  <2>1. p + 1 = a + 2 /\ p + 2 = a + 3 /\ p + 3 = a + 4
    OBVIOUS
  <2> HIDE DEF p
  <2> QED BY <2>1 DEF Is4ByteStart, Lies, p
<1>6. b >= p + 4
  <2>1. p \in Nat \ {0} /\ b > p
    OBVIOUS
  <2> HIDE DEF p
  <2> QED BY <1>1, <1>5, <2>1, NothingInside
<1>7. SUFFICES ASSUME b <= a + 4 + n PROVE FALSE
  BY <1>1, <1>2
<1>8. k \in 1..n /\ b = a + 4 + k /\ b + 1 = a + 4 + (k + 1) /\ b + 2 = a + 4 + (k + 2) /\ k \in Nat
  BY <1>1, <1>2, <1>6, <1>7
<1>9. /\ a + 4 + k <= Size /\ a + 4 + (k + 1) <= Size /\ a + 4 + (k + 2) <= Size
  BY <1>1, <1>3, <1>8
<1> HIDE DEF k, n, p
<1>10. \A j \in 1..n : a + 4 + j <= Size => buffer[a + 4 + j] = e[j]
  BY DEF Lies, n
<1>11. e[k] = 0
  BY <1>4, <1>8, <1>9, <1>10
<1>12. k # n
  BY <1>11 DEF n
<1>13. k + 1 \in 1..n
  BY <1>1, <1>8, <1>12
<1>14. e[k + 1] = 0
  BY <1>4, <1>8, <1>9, <1>10, <1>13
<1>15. k + 1 # n
  BY <1>14 DEF n
<1>16. k + 2 \in 1..n /\ k \in 1..(n - 2)
  BY <1>1, <1>8, <1>13, <1>15
<1>17. e[k + 2] <= 2
  BY <1>4, <1>8, <1>9, <1>10, <1>16
<1> QED BY <1>11, <1>14, <1>16, <1>17 DEF Distinct, n

LEMMA SpsUnit ==
    ASSUME IInv, Found, pc # "parse", NEW a \in Nat, NEW e \in Octets, Len(e) > 0, Lies(a, e),
           Distinct(e), e[Len(e)] # 0, SpsType(e[1], isH265_), NoneWithin(a)
    PROVE  \E n \in 1..Units :
               LET nal == nalUnits_[n]
               IN  /\ IsSps(n) /\ \A k \in 1..(n - 1) : ~IsSps(k)
                   /\ Payload4(nal.first) = a + 5 /\ a + 5 <= nal.last
                   /\ nal.last \in 1..Size /\ (nal.last = Size \/ nal.last >= a + 4 + Len(e))
<1> DEFINE p == a + 1
<1>1. Size \in Nat /\ Units \in Nat /\ Len(e) \in Nat
  BY Typing, OctetsAre DEF IInv
<1>2. Is4ByteStart(p)
  <2>1. p + 1 = a + 2 /\ p + 2 = a + 3 /\ p + 3 = a + 4
    OBVIOUS
  <2> HIDE DEF p
  <2> QED BY <2>1 DEF Is4ByteStart, Lies, p
<1>3. p \in Nat \ {0} /\ p <= Size - 3 /\ a + 5 <= Size
  BY <1>1 DEF Lies
<1> HIDE DEF p
<1>4. p \in Begins
  BY <1>1, <1>2, <1>3, BeginsAt
<1>5. PICK n \in 1..Units : nalUnits_[n].first = p
  BY <1>4 DEF Found
<1> DEFINE last == nalUnits_[n].last
<1>6. last \in 1..Size
  BY Typing DEF IInv
<1>7. nalUnits_ # <<>>
  <2>1. nalUnits_ = <<>> => Len(nalUnits_) = 0
    OBVIOUS
  <2> QED BY <1>1, <2>1 DEF Units
<1>8. Chain(nalUnits_, nalUnits_[1].first) /\ nalUnits_[Units].last = Size
  BY <1>7 DEF IInv, Scanned, Ended, Units
<1>9. last = Size \/ last >= a + 4 + Len(e)
  <2>1. CASE n = Units
    BY <1>8, <2>1
  <2>2. CASE n # Units
    <3> DEFINE b == nalUnits_[n + 1].first
    <3>1. n < Units /\ n + 1 \in 1..Units
      BY <1>1, <2>2
    <3>2. b = last + 1 /\ nalUnits_[n].first <= last
      BY <1>8, <3>1 DEF Chain, Units
    <3>3. b \in Begins
      BY <3>1 DEF Found
    <3> HIDE DEF b, last
    <3>4. b > a + 1
      BY <1>3, <1>5, <1>6, <3>2 DEF p
    <3>5. b > a + 4 + Len(e)
      BY <3>3, <3>4, NextBegin
    <3> QED BY <1>1, <1>6, <3>2, <3>5
  <2> QED BY <2>1, <2>2
<1>10. a + 5 <= last
  <2> HIDE DEF last
  <2> QED BY <1>1, <1>3, <1>6, <1>9
<1>11. Payload4(nalUnits_[n].first) = a + 5
  BY <1>2, <1>5 DEF Payload4, p
<1>12. IsSps(n)
  <2>1. 1 \in 1..Len(e) /\ a + 4 + 1 <= Size /\ a + 4 + 1 = a + 5
    BY <1>1, <1>3
  <2>2. buffer[a + 5] = e[1]
    BY <2>1 DEF Lies
  <2>3. IsSps(n) <=> a + 5 <= last /\ SpsType(buffer[a + 5], isH265_)
    BY <1>11, TypeOfUnit
  <2> QED BY <1>10, <2>2, <2>3
<1>13. \A k \in 1..(n - 1) : ~IsSps(k)
  <2> SUFFICES ASSUME NEW k \in 1..(n - 1) PROVE ~IsSps(k)
    OBVIOUS
  <2>1. k \in 1..Units /\ k < n
    BY <1>1
  <2>2. nalUnits_[k].last < p
    BY <1>5, <1>8, <2>1 DEF Chain, Units
  <2>3. nalUnits_[k].last <= a
    <3>1. nalUnits_[k].last \in 1..Size
      BY <2>1, Typing DEF IInv
    <3> QED BY <1>1, <2>2, <3>1 DEF p
  <2> QED BY <2>1, <2>3, NotAnSps
<1> QED BY <1>6, <1>9, <1>10, <1>11, <1>12, <1>13

\* The bits d are those of the SPS s, as far as the file has them.
Readable(s, d) ==
    /\ d \in Strings /\ Len(d) >= (IF isH265_ THEN 104 ELSE 24)
    /\ Starts(d, SpsBits(s, isH265_))

\* The file has all of an SPS behind its first a bytes, or ends within it.
Whole(s, a) == a + 4 + Len(Escape(SpsBytes(s, isH265_))) <= Size

LEMMA SpsIsRead ==
    ASSUME IInv, BitsOK, NEW s, Described(s, isH265_), NEW a \in Nat,
           Lies(a, Escape(SpsBytes(s, isH265_))),
           NEW n \in 1..Units, Payload4(nalUnits_[n].first) = a + 5, a + 5 <= nalUnits_[n].last,
           nalUnits_[n].last \in 1..Size,
           nalUnits_[n].last = Size \/ nalUnits_[n].last >= a + 4 + Len(Escape(SpsBytes(s, isH265_))),
           ReadsSps(n)
    PROVE  \/ loading' = "done" /\ ~Whole(s, a)
           \/ /\ loading' = "rate" /\ Readable(s, bits')
              /\ Whole(s, a) => Len(SpsBits(s, isH265_)) <= Len(bits')
<1> DEFINE h == isH265_
           x == SpsBytes(s, h)
           e == Escape(x)
           last == nalUnits_[n].last
           f == a + 5
           d == SubSeq(buffer, f, last)
           r == RemoveEmulationPrevention(d)
           rest == SubSeq(r, HeaderBytes(h) + 1, Len(r))
<1>1. h \in BOOLEAN /\ Size \in Nat /\ buffer \in Octets /\ last \in 1..Size /\ f \in Nat /\ f <= last
  BY Typing DEF IInv, TypeOK, Octets
<1>2. x \in Octets /\ Len(x) >= (IF h THEN 15 ELSE 4)
  BY <1>1, SpsBytesAre
<1>3. e \in Octets /\ Len(e) >= Len(x)
  <2> HIDE DEF x
  <2> QED BY <1>2, EscapeStands DEF Stands
<1>4. Len(x) \in Nat /\ Len(e) \in Nat
  <2> HIDE DEF x, e
  <2> QED BY <1>2, <1>3, OctetsAre
<1>5. \A k \in 1..Len(e) : a + 4 + k <= Size => buffer[a + 4 + k] = e[k]
  BY DEF Lies
<1>6. last = Size \/ last >= a + 4 + Len(e)
  OBVIOUS
<1>7. loading' = "done" \/ loading' = "rate"
  BY DEF ReadsSps
<1>8. HeaderSize = HeaderBytes(h) /\ HeaderBytes(h) \in 1..2 /\ HeaderBytes(h) = (IF h THEN 2 ELSE 1)
  BY DEF HeaderSize, HeaderBytes
<1>9. IF f + HeaderSize > last \/ Len(r) < (IF h THEN 15 ELSE 4)
      THEN loading' = "done"
      ELSE loading' = "rate" /\ bits' = BitsOf(rest)
  <2>1. nalUnits_[n].first + (IF Is4ByteStart(nalUnits_[n].first) THEN 4 ELSE 3) = f
    BY DEF Payload4
  <2> QED BY <1>8, <2>1 DEF ReadsSps
<1> HIDE DEF e, last
<1>10. /\ d \in Octets /\ Len(d) = last - f + 1
       /\ \A k \in 1..(last - f + 1) : d[k] = buffer[f + k - 1]
  <2>1. \A k \in f..last : buffer[k] \in 0..255
    <3>1. \A k \in f..last : k \in 1..Len(buffer)
      BY <1>1 DEF Size
    <3> QED BY <1>1, <3>1, OctetsAre
  <2>2. f \in Int /\ last \in Int
    BY <1>1
  <2> HIDE DEF f
  <2> QED BY <1>1, <2>1, <2>2, SubSeqProperties DEF Octets
<1> HIDE DEF d
<1>11. Starts(d, e)
  <2> SUFFICES ASSUME NEW k \in 1..Len(e), k <= Len(d) PROVE d[k] = e[k]
    BY DEF Starts
  <2>1. k \in 1..(last - f + 1) /\ f + k - 1 = a + 4 + k /\ a + 4 + k <= Size
    BY <1>1, <1>4, <1>10
  <2> HIDE DEF f
  <2>2. d[k] = buffer[a + 4 + k]
    BY <1>10, <2>1
  <2> QED BY <1>5, <2>1, <2>2
<1>12. /\ r \in Octets /\ Starts(r, x)
       /\ Len(e) <= Len(d) => Len(x) <= Len(r)
  <2> HIDE DEF x
  <2> QED BY <1>2, <1>10, <1>11, EscapeRead DEF e
<1>13. Whole(s, a) => Len(e) <= Len(d)
  <2>1. Whole(s, a) => a + 4 + Len(e) <= Size
    BY DEF Whole, e
  <2> QED BY <1>1, <1>4, <1>6, <1>10, <2>1
<1> HIDE DEF r, rest
<1>14. Len(r) \in Nat
  BY <1>12, OctetsAre
<1>15. CASE f + HeaderSize > last \/ Len(r) < (IF h THEN 15 ELSE 4)
  <2>1. loading' = "done"
    BY <1>9, <1>15
  <2>2. Whole(s, a) => FALSE
    <3> HIDE DEF x, h
    <3>1. Whole(s, a) => Len(x) <= Len(r) /\ Len(e) <= Len(d)
      BY <1>12, <1>13
    <3>2. CASE h
      BY <1>1, <1>2, <1>3, <1>4, <1>8, <1>10, <1>14, <1>15, <3>1, <3>2
    <3>3. CASE ~h
      BY <1>1, <1>2, <1>3, <1>4, <1>8, <1>10, <1>14, <1>15, <3>1, <3>3
    <3> QED BY <3>2, <3>3
  <2> QED BY <2>1, <2>2
<1>16. CASE ~(f + HeaderSize > last \/ Len(r) < (IF h THEN 15 ELSE 4))
  <2>1. loading' = "rate" /\ bits' = BitsOf(rest)
    BY <1>9, <1>16
  <2>2. Len(r) >= (IF h THEN 15 ELSE 4)
    <3> HIDE DEF h
    <3> QED BY <1>1, <1>14, <1>16
  <2>3. Len(r) >= HeaderBytes(h)
    <3> HIDE DEF h
    <3> QED BY <1>1, <1>8, <1>14, <2>2
  <2>4. /\ Len(BitsOf(rest)) = 8 * (Len(r) - HeaderBytes(h))
        /\ BitsOf(rest) \in Strings /\ Starts(BitsOf(rest), SpsBits(s, h))
        /\ Len(x) <= Len(r) => Len(SpsBits(s, h)) <= Len(BitsOf(rest))
    <3> DEFINE y == SubSeq(r, HeaderBytes(h) + 1, Len(r))
    <3>1. /\ Len(BitsOf(y)) = 8 * (Len(r) - HeaderBytes(h))
          /\ BitsOf(y) \in Strings /\ Starts(BitsOf(y), SpsBits(s, h))
          /\ Len(SpsBytes(s, h)) <= Len(r) => Len(SpsBits(s, h)) <= Len(BitsOf(y))
      BY <1>1, <1>12, <2>3, SpsBytesRead
    <3>2. y = rest
      BY DEF rest
    <3> QED BY <3>1, <3>2
  <2> DEFINE b == BitsOf(rest)
  <2> HIDE DEF b
  <2>5. Len(b) >= (IF h THEN 104 ELSE 24)
    <3> HIDE DEF h
    <3>1. Len(b) = 8 * (Len(r) - HeaderBytes(h))
      BY <2>4 DEF b
    <3>2. CASE h
      BY <1>8, <1>14, <2>2, <3>1, <3>2
    <3>3. CASE ~h
      BY <1>8, <1>14, <2>2, <3>1, <3>3
    <3> QED BY <3>2, <3>3
  <2>6. Readable(s, b)
    BY <2>4, <2>5 DEF Readable, b
  <2>7. Whole(s, a) => Len(SpsBits(s, h)) <= Len(b)
    BY <1>12, <1>13, <2>4 DEF b
  <2> QED BY <2>1, <2>6, <2>7 DEF b
<1> QED BY <1>15, <1>16

----------------------------------------------------------------------------
(* The frame rate that is read.                                            *)

\* The first SPS of the file is s, behind a bytes.
Origin(s, a) ==
    /\ Described(s, isH265_) /\ a \in Nat
    /\ Lies(a, Escape(SpsBytes(s, isH265_))) /\ NoneWithin(a)
    /\ written.rate = Rate(s, isH265_)
    /\ ~written.cut => Whole(s, a)

\* The file has no SPS.
Without == NoneWithin(Size) /\ written.rate = DEFAULT_FPS /\ ~written.cut

\* The bits to read the rate from are those of the SPS s, and the rate that was
\* read is its rate.
Tracked(s) ==
    /\ loading = "rate" =>
           Readable(s, bits) /\ (~written.cut => Len(SpsBits(s, isH265_)) <= Len(bits))
    /\ loading = "done" =>
           NotFaster(frameRate_, written.rate) /\ (~written.cut => frameRate_ = written.rate)

RateRead ==
    /\ BitsOK
    /\ loading = "sps" => frameRate_ = DEFAULT_FPS
    /\ \/ Without /\ loading # "rate" /\ frameRate_ = DEFAULT_FPS
       \/ \E s, a : Origin(s, a) /\ Tracked(s)

LEMMA LiesThere ==
    ASSUME NEW x \in Octets, NEW e \in Octets, Len(e) > 0, NEW nal, nal = <<0, 0, 0, 1>> \o e,
           Size \in Nat, Len(x) + 5 <= Size,
           \A k \in 1..Len(x) : buffer[k] = x[k],
           \A k \in 1..Len(nal) : Len(x) + k <= Size => buffer[Len(x) + k] = nal[k]
    PROVE  /\ Lies(Len(x), e)
           /\ WithoutSps(x, isH265_) => NoneWithin(Len(x))
<1> DEFINE code == <<0, 0, 0, 1>>
           a == Len(x)
<1>1. code \in Octets /\ Len(code) = 4 /\ code[1] = 0 /\ code[2] = 0 /\ code[3] = 0 /\ code[4] = 1
  BY DEF Octets
<1>2. nal = code \o e
  OBVIOUS
<1>3. a \in Nat /\ Len(e) \in Nat
  BY OctetsAre
<1> HIDE DEF code, a
<1>4. /\ Len(nal) = 4 + Len(e)
      /\ \A k \in 1..(4 + Len(e)) : nal[k] = IF k <= 4 THEN code[k] ELSE e[k - 4]
  <2>1. /\ Len(code \o e) = Len(code) + Len(e)
        /\ \A k \in 1..(Len(code) + Len(e)) :
               (code \o e)[k] = IF k <= Len(code) THEN code[k] ELSE e[k - Len(code)]
    BY <1>1, OctetsJoined
  <2> QED BY <1>1, <1>2, <2>1
<1>5. \A k \in 1..4 : nal[k] = code[k]
  BY <1>3, <1>4
<1>6. \A k \in 1..Len(nal) : a + k <= Size => buffer[a + k] = nal[k]
  BY DEF a
<1>7. \A k \in 1..4 : buffer[a + k] = code[k]
  <2> SUFFICES ASSUME NEW k \in 1..4 PROVE buffer[a + k] = code[k]
    OBVIOUS
  <2>1. k \in 1..Len(nal) /\ a + k <= Size
    BY <1>3, <1>4 DEF a
  <2> QED BY <1>5, <1>6, <2>1
<1>8. \A k \in 1..Len(e) : a + 4 + k <= Size => buffer[a + 4 + k] = e[k]
  <2> SUFFICES ASSUME NEW k \in 1..Len(e), a + 4 + k <= Size PROVE buffer[a + 4 + k] = e[k]
    OBVIOUS
  <2> DEFINE j == 4 + k
  <2>1. j \in 1..Len(nal) /\ ~(j <= 4) /\ j - 4 = k /\ a + j = a + 4 + k /\ j \in 1..(4 + Len(e))
    BY <1>3, <1>4
  <2> HIDE DEF j
  <2>2. buffer[a + j] = nal[j]
    BY <1>6, <2>1
  <2>3. nal[j] = e[k]
    BY <1>4, <2>1
  <2> QED BY <2>1, <2>2, <2>3
<1>9. Lies(a, e)
  <2>1. buffer[a + 1] = 0 /\ buffer[a + 2] = 0 /\ buffer[a + 3] = 0 /\ buffer[a + 4] = 1
    BY <1>1, <1>7
  <2> QED BY <1>8, <2>1 DEF Lies, a
<1>10. ASSUME WithoutSps(x, isH265_) PROVE NoneWithin(a)
  <2> SUFFICES ASSUME NEW q \in 1..(a - 3), buffer[q] = 0, buffer[q + 1] = 0, buffer[q + 2] = 1
               PROVE  ~SpsType(buffer[q + 3], isH265_)
    BY DEF NoneWithin
  <2>1. q \in 1..a /\ q + 1 \in 1..a /\ q + 2 \in 1..a /\ q + 3 \in 1..a
    BY <1>3
  <2>2. buffer[q] = x[q] /\ buffer[q + 1] = x[q + 1] /\ buffer[q + 2] = x[q + 2]
        /\ buffer[q + 3] = x[q + 3]
    BY <2>1 DEF a
  <2> QED BY <1>10, <2>2 DEF WithoutSps, a
<1> QED BY <1>9, <1>10 DEF a

LEMMA OriginOfFile ==
    ASSUME NEW f \in Files, Recorded(f), BitsOK, buffer = f.bytes, isH265_ = f.isH265,
           written = [rate |-> f.rate, cut |-> f.cut]
    PROVE  Without \/ \E s, a : Origin(s, a)
<1> DEFINE h == f.isH265
<1>1. /\ buffer \in Octets /\ Size \in Nat /\ h \in BOOLEAN /\ isH265_ = h
      /\ written.rate = f.rate /\ written.cut = f.cut
  BY FilesAssumption, OctetsAre DEF Octets, Size
<1>2. CASE WithoutSps(f.bytes, h) /\ f.rate = [num |-> 25, den |-> 1] /\ ~f.cut
  <2>1. NoneWithin(Size)
    BY <1>1, <1>2 DEF WithoutSps, NoneWithin, Size
  <2> QED BY <1>1, <1>2, <2>1 DEF Without, DEFAULT_FPS, Fps
<1>3. ASSUME NEW s, NEW x \in Seq(0..255), NEW b \in Seq(0..255),
             Described(s, h), f.rate = Rate(s, h), WithoutSps(x, h),
             LET nal == SpsNal(s, h)
             IN  \/ f.bytes = x \o nal \o b /\ ~f.cut
                 \/ \E n \in 5..Len(nal) : f.bytes = x \o SubSeq(nal, 1, n) /\ f.cut
      PROVE  \E a : Origin(s, a)
  <2> DEFINE nal == SpsNal(s, h)
             e == Escape(SpsBytes(s, h))
             code == <<0, 0, 0, 1>>
  <2>1. nal = code \o e
    BY DEF SpsNal, SpsBytes, SpsBits
  <2>2. SpsBytes(s, h) \in Octets /\ Len(SpsBytes(s, h)) >= (IF h THEN 15 ELSE 4)
    BY <1>1, <1>3, SpsBytesAre
  <2>3. e \in Octets /\ Len(e) >= Len(SpsBytes(s, h))
    BY <2>2, EscapeStands DEF Stands
  <2>4. Len(e) \in Nat /\ Len(e) > 0 /\ Len(x) \in Nat /\ Len(b) \in Nat /\ x \in Octets /\ b \in Octets
    <3>1. Len(SpsBytes(s, h)) \in Nat
      BY <2>2, OctetsAre
    <3>2. Len(SpsBytes(s, h)) > 0
      BY <1>1, <2>2, <3>1
    <3> HIDE DEF e
    <3>3. Len(e) \in Nat
      BY <2>3, OctetsAre
    <3>4. x \in Octets /\ b \in Octets
      BY <1>3 DEF Octets
    <3>5. Len(x) \in Nat /\ Len(b) \in Nat
      BY <3>4, OctetsAre
    <3> QED BY <2>3, <3>1, <3>2, <3>3, <3>4, <3>5
  <2>5. code \in Octets /\ Len(code) = 4
    BY DEF Octets
  <2> HIDE DEF nal, e, code
  <2>6. nal \in Octets /\ Len(nal) = 4 + Len(e) /\ Len(nal) \in Nat
    <3>1. code \o e \in Octets /\ Len(code \o e) = Len(code) + Len(e)
      BY <2>3, <2>5, OctetsJoined
    <3>2. 4 + Len(e) \in Nat
      BY <2>4
    <3> QED BY <2>1, <2>5, <3>1, <3>2
  <2>7. /\ Len(x) + 5 <= Size
        /\ \A k \in 1..Len(x) : buffer[k] = x[k]
        /\ \A k \in 1..Len(nal) : Len(x) + k <= Size => buffer[Len(x) + k] = nal[k]
        /\ ~f.cut => Len(x) + Len(nal) <= Size
    <3>1. ASSUME NEW c \in Octets, Len(c) >= 5, NEW z \in Octets, f.bytes = (x \o c) \o z,
                 \A k \in 1..Len(nal) : k <= Len(c) + Len(z) => k <= Len(c) /\ c[k] = nal[k]
          PROVE  /\ Len(x) + 5 <= Size
                 /\ \A k \in 1..Len(x) : buffer[k] = x[k]
                 /\ \A k \in 1..Len(nal) : Len(x) + k <= Size => buffer[Len(x) + k] = nal[k]
                 /\ Size = Len(x) + Len(c) + Len(z)
      <4> DEFINE y == x \o c
                 w == y \o z
      <4>1. /\ y \in Octets /\ Len(y) = Len(x) + Len(c)
            /\ \A k \in 1..(Len(x) + Len(c)) : y[k] = IF k <= Len(x) THEN x[k] ELSE c[k - Len(x)]
        BY <2>4, <3>1, OctetsJoined
      <4> HIDE DEF y
      <4>2. /\ Len(w) = Len(y) + Len(z)
            /\ \A k \in 1..(Len(y) + Len(z)) : w[k] = IF k <= Len(y) THEN y[k] ELSE z[k - Len(y)]
        BY <3>1, <4>1, OctetsJoined
      <4>3. buffer = w
        BY <3>1 DEF y
      <4>4. Len(c) \in Nat /\ Len(z) \in Nat
        BY <3>1, OctetsAre
      <4> HIDE DEF w
      <4>5. Size = Len(x) + Len(c) + Len(z)
        BY <4>1, <4>2, <4>3 DEF Size
      <4>6. \A k \in 1..(Len(x) + Len(c)) : buffer[k] = y[k]
        BY <2>4, <4>1, <4>2, <4>3, <4>4
      <4>7. ASSUME NEW k \in 1..Len(x) PROVE buffer[k] = x[k]
        <5>1. k \in 1..(Len(x) + Len(c)) /\ k <= Len(x)
          BY <2>4, <4>4
        <5> QED BY <4>1, <4>6, <5>1
      <4>8. ASSUME NEW k \in 1..Len(nal), Len(x) + k <= Size PROVE buffer[Len(x) + k] = nal[k]
        <5>1. k <= Len(c) + Len(z)
          BY <2>4, <2>6, <4>4, <4>5, <4>8
        <5>2. k <= Len(c) /\ c[k] = nal[k]
          BY <3>1, <5>1
        <5> DEFINE j == Len(x) + k
        <5>3. j \in 1..(Len(x) + Len(c)) /\ ~(j <= Len(x)) /\ j - Len(x) = k
          BY <2>4, <2>6, <4>4, <5>2
        <5> HIDE DEF j
        <5>4. buffer[j] = c[k]
          BY <4>1, <4>6, <5>3
        <5> QED BY <5>2, <5>4 DEF j
      <4> QED BY <2>4, <3>1, <4>4, <4>5, <4>7, <4>8
    <3>2. CASE f.bytes = x \o nal \o b /\ ~f.cut
      <4>1. \A k \in 1..Len(nal) : k <= Len(nal) + Len(b) => k <= Len(nal) /\ nal[k] = nal[k]
        OBVIOUS
      <4>2. Len(nal) >= 5
        BY <2>4, <2>6
      <4>3. f.bytes = (x \o nal) \o b
        BY <3>2
      <4>4. /\ Len(x) + 5 <= Size
            /\ \A k \in 1..Len(x) : buffer[k] = x[k]
            /\ \A k \in 1..Len(nal) : Len(x) + k <= Size => buffer[Len(x) + k] = nal[k]
            /\ Size = Len(x) + Len(nal) + Len(b)
        BY <2>4, <2>6, <3>1, <4>1, <4>2, <4>3
      <4> QED BY <2>4, <2>6, <4>4
    <3>3. ASSUME NEW n \in 5..Len(nal), f.bytes = x \o SubSeq(nal, 1, n), f.cut
          PROVE  /\ Len(x) + 5 <= Size
                 /\ \A k \in 1..Len(x) : buffer[k] = x[k]
                 /\ \A k \in 1..Len(nal) : Len(x) + k <= Size => buffer[Len(x) + k] = nal[k]
      <4> DEFINE c == SubSeq(nal, 1, n)
                 z == <<>>
                 one == 1
      <4>1. /\ c \in Octets /\ Len(c) = n /\ \A k \in 1..n : c[k] = nal[k]
        <5>1. \A k \in one..n : nal[k] \in 0..255
          <6>1. \A k \in one..n : k \in 1..Len(nal)
            BY <2>6
          <6> QED BY <2>6, <6>1, OctetsAre
        <5>2. one \in Int /\ n \in Int /\ one <= n /\ n - one + 1 = n /\ \A k \in Nat : one + k - 1 = k
          BY <2>6
        <5> HIDE DEF one
        <5>3. /\ SubSeq(nal, one, n) \in Seq(0..255)
              /\ Len(SubSeq(nal, one, n)) = n
              /\ \A k \in 1..n : SubSeq(nal, one, n)[k] = nal[one + k - 1]
          BY <5>1, <5>2, SubSeqProperties
        <5>4. \A k \in 1..n : SubSeq(nal, one, n)[k] = nal[k]
          BY <5>2, <5>3
        <5> QED BY <5>3, <5>4 DEF one, Octets
      <4>2. z \in Octets /\ Len(z) = 0
        BY EmptySeq DEF Octets
      <4> HIDE DEF c, z
      <4>3. f.bytes = (x \o c) \o z
        <5>1. x \o c \in Seq(0..255)
          BY <2>4, <4>1, OctetsJoined DEF Octets
        <5> DEFINE y == x \o c
        <5>2. f.bytes = y
          BY <3>3 DEF c
        <5> HIDE DEF y
        <5>3. y \o z = y
          BY <5>1, ConcatEmptySeq DEF y, z
        <5> QED BY <5>2, <5>3 DEF y
      <4>4. \A k \in 1..Len(nal) : k <= Len(c) + Len(z) => k <= Len(c) /\ c[k] = nal[k]
        BY <2>6, <4>1, <4>2
      <4>5. Len(c) >= 5
        BY <4>1
      <4> QED BY <3>1, <4>1, <4>2, <4>3, <4>4, <4>5
    <3>4. \/ f.bytes = x \o nal \o b /\ ~f.cut
          \/ \E n \in 5..Len(nal) : f.bytes = x \o SubSeq(nal, 1, n) /\ f.cut
      BY <1>3 DEF nal
    <3> QED BY <3>2, <3>3, <3>4
  <2>8. Lies(Len(x), e) /\ (WithoutSps(x, isH265_) => NoneWithin(Len(x)))
    BY <1>1, <2>1, <2>3, <2>4, <2>7, LiesThere DEF code
  <2>9. ~written.cut => Whole(s, Len(x))
    <3>1. ~f.cut => Len(x) + 4 + Len(e) <= Size
      BY <2>4, <2>6, <2>7
    <3> QED BY <1>1, <3>1 DEF Whole, e
  <2>10. Origin(s, Len(x))
    BY <1>1, <1>3, <2>4, <2>8, <2>9 DEF Origin, e
  <2> QED BY <2>10
<1> QED BY <1>2, <1>3 DEF Recorded

LEMMA SpsGivesRate ==
    ASSUME BitsOK, isH265_ \in BOOLEAN, NEW s, Described(s, isH265_), Readable(s, bits)
    PROVE  LET read == IF isH265_ THEN ParseH265Fps ELSE ParseH264Fps
           IN  /\ NotFaster(read, Rate(s, isH265_))
               /\ Len(SpsBits(s, isH265_)) <= Len(bits) => read = Rate(s, isH265_)
<1>1. s.vui \in BOOLEAN /\ s.timing \in Timings
  BY SpsBitsAre
<1>2. RateOf(s, IF isH265_ THEN 1 ELSE 2) = Rate(s, isH265_)
  BY <1>1, RateOfIs
<1>3. CASE isH265_ = TRUE
  <2>1. Is265(s) /\ SpsBits(s, isH265_) = Sps265(s)
    BY <1>3 DEF Described, SpsBits
  <2>2. End >= 104 /\ Starts(bits, Sps265(s))
    BY <1>3, <2>1 DEF Readable, End
  <2>3. At(0, Sps265(s))
    <3> SUFFICES ASSUME NEW k \in 1..Len(Sps265(s)), 0 + k <= End PROVE bits[0 + k] = Sps265(s)[k]
      BY DEF At
    <3>1. 0 + k = k
      OBVIOUS
    <3> QED BY <2>2, <3>1 DEF Starts, End
  <2>4. /\ NotFaster(ParseH265Fps, RateOf(s, 1))
        /\ Len(Sps265(s)) <= End => ParseH265Fps = RateOf(s, 1)
    BY <2>1, <2>2, <2>3, Sps265Reads
  <2> QED BY <1>2, <1>3, <2>1, <2>4 DEF End
<1>4. CASE isH265_ = FALSE
  <2>1. Is264(s) /\ SpsBits(s, isH265_) = Sps264(s)
    BY <1>4 DEF Described, SpsBits
  <2>2. End >= 24 /\ Starts(bits, Sps264(s))
    BY <1>4, <2>1 DEF Readable, End
  <2>3. At(0, Sps264(s))
    <3> SUFFICES ASSUME NEW k \in 1..Len(Sps264(s)), 0 + k <= End PROVE bits[0 + k] = Sps264(s)[k]
      BY DEF At
    <3>1. 0 + k = k
      OBVIOUS
    <3> QED BY <2>2, <3>1 DEF Starts, End
  <2>4. /\ NotFaster(ParseH264Fps, RateOf(s, 2))
        /\ Len(Sps264(s)) <= End => ParseH264Fps = RateOf(s, 2)
    BY <2>1, <2>2, <2>3, Sps264Reads
  <2> QED BY <1>2, <1>4, <2>1, <2>4 DEF End
<1> QED BY <1>3, <1>4

LEMMA RateReadInit == RateInit /\ (\A f \in Files : Recorded(f)) => RateRead
<1> SUFFICES ASSUME RateInit, \A f \in Files : Recorded(f) PROVE RateRead
  OBVIOUS
<1>1. PICK f \in Files : /\ Load(f) /\ loading = "sps" /\ bits = <<>> /\ frameRate_ = DEFAULT_FPS
                         /\ written = [rate |-> f.rate, cut |-> f.cut]
  BY DEF RateInit
<1>2. buffer = f.bytes /\ isH265_ = f.isH265
  BY <1>1 DEF Load
<1>3. BitsOK
  BY <1>1, EmptySeq DEF BitsOK
<1>4. Without \/ \E s, a : Origin(s, a)
  BY <1>1, <1>2, <1>3, OriginOfFile
<1>5. \A s : Tracked(s)
  BY <1>1 DEF Tracked
<1> QED BY <1>1, <1>3, <1>4, <1>5 DEF RateRead

\* What the file has does not change, and neither do the bits and the rate
\* before the SPS is looked for and after the rate is read.
LEMMA OriginStays ==
    ASSUME UNCHANGED <<buffer, isH265_, written>>
    PROVE  /\ \A s, a : Origin(s, a) <=> Origin(s, a)'
           /\ Without <=> Without'
<1>1. \A s, a : Origin(s, a) <=> Origin(s, a)'
  BY DEF Origin, Lies, NoneWithin, Whole, Size
<1>2. Without <=> Without'
  BY DEF Without, NoneWithin, Size
<1> QED BY <1>1, <1>2

LEMMA RateReadStays ==
    ASSUME RateRead, UNCHANGED <<buffer, isH265_, written, loading, bits, frameRate_>>
    PROVE  RateRead'
<1>1. /\ \A s, a : Origin(s, a) <=> Origin(s, a)'
      /\ Without <=> Without'
  BY OriginStays
<1>2. \A s : Tracked(s) => Tracked(s)'
  BY DEF Tracked, Readable
<1>3. BitsOK'
  BY DEF RateRead, BitsOK
<1> QED BY <1>1, <1>2, <1>3 DEF RateRead

LEMMA FindSpsRateRead ==
    ASSUME IInv, Found, RateRead, FindSps
    PROVE  RateRead'
<1>1. /\ pc = "group" /\ loading = "sps" /\ frameRate_' = frameRate_ /\ frameRate_ = DEFAULT_FPS
      /\ UNCHANGED <<buffer, isH265_, written>> /\ BitsOK
  BY DEF FindSps, vars, RateRead
<1>2. /\ \A s, a : Origin(s, a) <=> Origin(s, a)'
      /\ Without <=> Without'
  BY <1>1, OriginStays
<1>3. \/ (\A n \in 1..Units : ~IsSps(n)) /\ loading' = "done" /\ bits' = bits
      \/ \E n \in 1..Units : IsSps(n) /\ (\A k \in 1..(n - 1) : ~IsSps(k)) /\ ReadsSps(n)
  BY DEF FindSps
<1>4. CASE Without
  <2>1. \A n \in 1..Units : ~IsSps(n)
    <3> SUFFICES ASSUME NEW n \in 1..Units PROVE ~IsSps(n)
      OBVIOUS
    <3>1. Size \in Nat /\ nalUnits_[n].last <= Size
      BY Typing DEF IInv
    <3>2. NoneWithin(Size)
      BY <1>4 DEF Without
    <3> QED BY <3>1, <3>2, NotAnSps
  <2>2. loading' = "done" /\ bits' = bits
    BY <1>3, <2>1
  <2>3. BitsOK'
    BY <1>1, <2>2 DEF BitsOK
  <2> QED BY <1>1, <1>2, <1>4, <2>2, <2>3 DEF RateRead
<1>5. ASSUME NEW s, NEW a, Origin(s, a) PROVE RateRead'
  <2> DEFINE h == isH265_
             x == SpsBytes(s, h)
             e == Escape(x)
  <2>1. h \in BOOLEAN
    BY DEF IInv, TypeOK
  <2>2. a \in Nat /\ Described(s, h) /\ Lies(a, e) /\ NoneWithin(a) /\ (~written.cut => Whole(s, a))
    BY <1>5 DEF Origin
  <2>3. x \in Octets /\ Len(x) >= (IF h THEN 15 ELSE 4) /\ SpsType(x[1], h) /\ x[Len(x)] # 0
    BY <1>1, <2>1, <2>2, SpsBytesAre
  <2>4. Len(x) \in Nat /\ Len(x) > 0
    <3> HIDE DEF x
    <3>1. Len(x) \in Nat
      BY <2>3, OctetsAre
    <3>2. Len(x) >= 4
      <4>1. CASE h
        BY <2>3, <3>1, <4>1
      <4>2. CASE ~h
        BY <2>3, <4>2
      <4> QED BY <4>1, <4>2
    <3> QED BY <3>1, <3>2
  <2>5. e \in Octets /\ Len(e) >= Len(x) /\ Distinct(e) /\ e[1] = x[1] /\ e[Len(e)] = x[Len(x)]
    <3> HIDE DEF x
    <3>1. Stands(x, Len(x), e)
      BY <2>3, EscapeStands
    <3> HIDE DEF e
    <3> QED BY <2>4, <3>1 DEF Stands
  <2>6. Len(e) > 0 /\ SpsType(e[1], h) /\ e[Len(e)] # 0
    <3> HIDE DEF e, x
    <3>1. Len(e) \in Nat
      BY <2>5, OctetsAre
    <3> QED BY <2>3, <2>4, <2>5, <3>1
  <2> HIDE DEF x
  <2>7. PICK n \in 1..Units :
            /\ IsSps(n) /\ \A k \in 1..(n - 1) : ~IsSps(k)
            /\ Payload4(nalUnits_[n].first) = a + 5 /\ a + 5 <= nalUnits_[n].last
            /\ nalUnits_[n].last \in 1..Size
            /\ (nalUnits_[n].last = Size \/ nalUnits_[n].last >= a + 4 + Len(e))
    <3> HIDE DEF e
    <3> QED BY <1>1, <2>2, <2>5, <2>6, SpsUnit
  <2>8. ReadsSps(n)
    <3>1. PICK m \in 1..Units : IsSps(m) /\ (\A k \in 1..(m - 1) : ~IsSps(k)) /\ ReadsSps(m)
      BY <1>3, <2>7
    <3>2. Units \in Nat
      BY Typing DEF IInv
    <3>3. ~(m < n)
      <4>1. m < n => m \in 1..(n - 1)
        BY <3>2
      <4> QED BY <2>7, <3>1, <4>1
    <3>4. ~(n < m)
      <4>1. n < m => n \in 1..(m - 1)
        BY <3>2
      <4> QED BY <2>7, <3>1, <4>1
    <3>5. m = n
      BY <3>2, <3>3, <3>4
    <3> QED BY <3>1, <3>5
  <2>9. \/ loading' = "done" /\ ~Whole(s, a)
        \/ /\ loading' = "rate" /\ Readable(s, bits')
           /\ Whole(s, a) => Len(SpsBits(s, isH265_)) <= Len(bits')
    BY <1>1, <2>2, <2>7, <2>8, SpsIsRead DEF x
  <2>10. Origin(s, a)'
    BY <1>2, <1>5
  <2>11. CASE loading' = "done" /\ ~Whole(s, a)
    <3>1. BitsOK'
      <4>1. bits' = bits
        BY <2>8, <2>11 DEF ReadsSps
      <4> QED BY <1>1, <4>1 DEF BitsOK
    <3>2. Tracked(s)'
      BY <1>1, <2>2, <2>11 DEF Tracked, NotFaster
    <3> QED BY <2>10, <2>11, <3>1, <3>2 DEF RateRead
  <2>12. CASE /\ loading' = "rate" /\ Readable(s, bits')
              /\ Whole(s, a) => Len(SpsBits(s, isH265_)) <= Len(bits')
    <3>1. BitsOK'
      BY <2>12 DEF Readable, BitsOK, Strings
    <3>2. Tracked(s)'
      BY <1>1, <2>2, <2>12 DEF Tracked, Readable
    <3> QED BY <2>10, <2>12, <3>1, <3>2 DEF RateRead
  <2> QED BY <2>9, <2>11, <2>12
<1> QED BY <1>4, <1>5 DEF RateRead

LEMMA ReadRateRateRead ==
    ASSUME IInv, RateRead, ReadRate
    PROVE  RateRead'
<1>1. /\ loading = "rate" /\ loading' = "done" /\ bits' = bits
      /\ frameRate_' = (IF isH265_ THEN ParseH265Fps ELSE ParseH264Fps)
      /\ UNCHANGED <<buffer, isH265_, written>> /\ BitsOK
  BY DEF ReadRate, vars, RateRead
<1>2. isH265_ \in BOOLEAN
  BY DEF IInv, TypeOK
<1>3. PICK s, a : Origin(s, a) /\ Tracked(s)
  BY <1>1 DEF RateRead
<1>4. /\ Described(s, isH265_) /\ Readable(s, bits) /\ written.rate = Rate(s, isH265_)
      /\ ~written.cut => Len(SpsBits(s, isH265_)) <= Len(bits)
  BY <1>1, <1>3 DEF Origin, Tracked
<1>5. /\ NotFaster(frameRate_', written.rate)
      /\ ~written.cut => frameRate_' = written.rate
  BY <1>1, <1>2, <1>4, SpsGivesRate
<1>6. Origin(s, a)'
  BY <1>1, <1>3, OriginStays
<1>7. Tracked(s)'
  BY <1>1, <1>5 DEF Tracked, NotFaster
<1>8. BitsOK'
  BY <1>1 DEF BitsOK
<1> QED BY <1>1, <1>6, <1>7, <1>8 DEF RateRead

LEMMA RateReadStep == IInv /\ Found /\ RateRead /\ [RateNext]_allVars => RateRead'
<1> SUFFICES ASSUME IInv, Found, RateRead, [RateNext]_allVars PROVE RateRead'
  OBVIOUS
<1>1. CASE UNCHANGED allVars
  <2>1. UNCHANGED <<buffer, isH265_, written, loading, bits, frameRate_>>
    BY <1>1 DEF allVars, vars, rateVars
  <2> QED BY <2>1, RateReadStays
<1>2. CASE (NextByte \/ StartCode \/ ParseEnds) /\ UNCHANGED rateVars
  <2>1. UNCHANGED <<buffer, isH265_, written, loading, bits, frameRate_>>
    BY <1>2 DEF NextByte, StartCode, ParseEnds, rateVars
  <2> QED BY <2>1, RateReadStays
<1>3. CASE FindSps
  BY <1>3, FindSpsRateRead
<1>4. CASE ReadRate
  BY <1>4, ReadRateRateRead
<1>5. CASE loading = "done" /\ (GroupNal \/ GroupEnds) /\ UNCHANGED rateVars
  <2>1. UNCHANGED <<buffer, isH265_, written, loading, bits, frameRate_>>
    BY <1>5 DEF GroupNal, GroupEnds, rateVars
  <2> QED BY <2>1, RateReadStays
<1>6. CASE Expires
  <2>1. UNCHANGED <<buffer, isH265_, written, loading, bits, frameRate_>>
    BY <1>6 DEF Expires, OnTimerRaw
  <2> QED BY <2>1, RateReadStays
<1> QED BY <1>1, <1>2, <1>3, <1>4, <1>5, <1>6 DEF RateNext

LEMMA RateReadHolds ==
    ASSUME \A f \in Files : Recorded(f)
    PROVE  RateSpec => []RateRead
<1>1. RateSpec => [](IInv /\ Found)
  BY Implements, Invariance, FoundHolds, PTL
<1>2. RateInit => RateRead
  BY RateReadInit
<1> QED BY <1>1, <1>2, RateReadStep, PTL DEF RateSpec

LEMMA LoadedRate ==
    ASSUME Paced, RateRead
    PROVE  FrameRateIsRead /\ CutIsNotFaster
<1>1. SUFFICES ASSUME Loaded PROVE /\ ~written.cut => frameRate_ = written.rate
                                   /\ written.cut => NotFaster(frameRate_, written.rate)
  BY DEF FrameRateIsRead, CutIsNotFaster, NotFaster
<1>2. loading = "done"
  BY <1>1 DEF Paced, Loaded
<1>3. CASE Without /\ frameRate_ = DEFAULT_FPS
  BY <1>3 DEF Without
<1>4. ASSUME NEW s, NEW a, Origin(s, a), Tracked(s)
      PROVE  /\ ~written.cut => frameRate_ = written.rate
             /\ written.cut => NotFaster(frameRate_, written.rate)
  BY <1>2, <1>4 DEF Tracked
<1> QED BY <1>3, <1>4 DEF RateRead

\* The frame rate that LoadFile reads is the one that the file's first SPS has,
\* the default if it has none or if there is no SPS: for all files with all
\* SPSs that an encoder may write, whatever there is before and behind them.
THEOREM FrameRateIsReadHolds ==
    ASSUME \A f \in Files : Recorded(f)
    PROVE  RateSpec => []FrameRateIsRead
<1>1. RateSpec => []IInv
  BY Implements, Invariance, PTL
<1>2. RateSpec => []Paced
  BY <1>1, PacedInit, PacedStep, PTL DEF RateSpec
<1> QED BY <1>2, RateReadHolds, LoadedRate, PTL

\* A file that ends within its first SPS, wherever, is played at the default
\* rate, or no faster than its SPS says.
THEOREM CutIsNotFasterHolds ==
    ASSUME \A f \in Files : Recorded(f)
    PROVE  RateSpec => []CutIsNotFaster
<1>1. RateSpec => []IInv
  BY Implements, Invariance, PTL
<1>2. RateSpec => []Paced
  BY <1>1, PacedInit, PacedStep, PTL DEF RateSpec
<1> QED BY <1>2, RateReadHolds, LoadedRate, PTL
=============================================================================
