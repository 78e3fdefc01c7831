----------------------------- MODULE FrameRate -----------------------------
(***************************************************************************)
(* The whole of NalParser::LoadFile and the pacing of raw bitstream mode:  *)
(* RawStream with the frame rate, which LoadFile reads from the first SPS  *)
(* between ParseNalUnits and GroupIntoAccessUnits and from which the       *)
(* server takes the interval of its timer and the timestamps it sends.     *)
(*                                                                         *)
(* BitstreamReader's byte and bit positions are one position in bits, the  *)
(* number of bits read.  SpsParser reads one element after another: the    *)
(* operators After... map the position where an element begins to the one  *)
(* behind it.  A double is a fraction; rounding is left out.               *)
(***************************************************************************)
EXTENDS RawStream, Repetition, FiniteSets

VARIABLES
    loading,     \* where LoadFile is: "sps", "rate", or "done" with the rate
    bits,        \* the SPS behind its header, emulation prevention removed
    frameRate_,
    stamp,       \* the timestamp sent last
    written      \* the rate the file's SPS has, and whether the file is cut in it

rateVars == <<loading, bits, frameRate_, stamp, written>>
allVars == <<vars, rateVars>>

Fps(num, den) == [num |-> num, den |-> den]
DEFAULT_FPS == Fps(25, 1)

----------------------------------------------------------------------------
(* BitstreamReader.  Behind the end every bit is 0 and the position stays. *)

End == Len(bits)
Bit(p) == IF p < End THEN bits[p + 1] ELSE 0
SkipBits(p, n) == IF p + n < End THEN p + n ELSE End

ReadBits(p, n) == Repeat([k \in Nat |-> [value \in Nat |-> 2 * value + Bit(p + k)]], 0, n)

\* The zeros before the first 1, or before the last bit.
Zeros(p) ==
    LET Stops(q) == Bit(q) = 1 \/ q + 1 >= End
    IN  CHOOSE n \in 0..End : Stops(p + n) /\ \A k \in 0..(n - 1) : ~Stops(p + k)

ReadUE(p) == Pow2(Zeros(p)) - 1 + ReadBits(p + Zeros(p) + 1, Zeros(p))
AfterUE(p) == SkipBits(p, 2 * Zeros(p) + 1)
AfterUEs(p, n) == Repeat([k \in Nat |-> [q \in Nat |-> AfterUE(q)]], p, n)

ReadSE(p) ==
    IF ReadUE(p) % 2 = 1 THEN (ReadUE(p) + 1) \div 2 ELSE -(ReadUE(p) \div 2)

\* A flag at p, and behind it the element that ends at q if the flag is set.
AfterOption(p, q) == IF Bit(p) = 1 THEN q ELSE SkipBits(p, 1)

----------------------------------------------------------------------------
(* ParseH264Fps.                                                           *)

HighProfiles == {100, 110, 122, 244, 44, 83, 86, 118, 128}

\* Faulty variant: every list has all its deltas.
AfterFullList(p, size) == AfterUEs(p, size)

\* The deltas of a list end with the one that makes the next scale 0.
NextScale(s) ==
    LET next == (s.last + ReadSE(s.pos) + 256) % 256
    IN  IF s.next = 0 THEN s
        ELSE [pos |-> AfterUE(s.pos), next |-> next, last |-> IF next = 0 THEN s.last ELSE next]

ScaleStates == [pos : Nat, next : 0..255, last : 0..255]

AfterScalingList(p, size) ==
    Repeat([k \in Nat |-> [s \in ScaleStates |-> NextScale(s)]],
           [pos |-> p, next |-> 8, last |-> 8], size).pos

AfterScalingLists(p, count) ==
    Repeat([k \in Nat |-> [q \in Nat |->
               AfterOption(q, AfterScalingList(q + 1, IF k < 6 THEN 16 ELSE 64))]],
           p, count)

AfterChroma(p) ==
    LET chroma_format_idc == ReadUE(p)
        depths == SkipBits(AfterUE(p), IF chroma_format_idc = 3 THEN 1 ELSE 0)
        matrix == SkipBits(AfterUEs(depths, 2), 1)
    IN  AfterOption(matrix,
            AfterScalingLists(matrix + 1, IF chroma_format_idc = 3 THEN 12 ELSE 8))

AfterPicOrder(p) ==
    LET type == ReadUE(p)
        cycle == AfterUEs(SkipBits(AfterUE(p), 1), 2)
    IN  IF type = 0 THEN AfterUEs(p, 2)
        ELSE IF type = 1 THEN AfterUEs(AfterUE(cycle), ReadUE(cycle))
        ELSE AfterUE(p)

\* Aspect ratio, overscan, video signal and chroma location, as in H.265.
AfterDescription(p) ==
    LET overscan == AfterOption(p, SkipBits(p + 1, IF ReadBits(p + 1, 8) = 255 THEN 40 ELSE 8))
        signal == AfterOption(overscan, SkipBits(overscan + 1, 1))
        location == AfterOption(signal, AfterOption(signal + 5, SkipBits(signal + 6, 24)))
    IN  AfterOption(location, AfterUEs(location + 1, 2))

\* Faulty variant: a scale of 0 is not noticed.
TimingUnchecked(p, ticks) ==
    LET units == ReadBits(p + 1, 32)
        scale == ReadBits(p + 33, 32)
    IN  IF Bit(p) = 0 \/ units = 0 THEN DEFAULT_FPS ELSE Fps(scale, ticks * units)

\* The timing information, if it is there: a frame lasts this many ticks.
Timing(p, ticks) ==
    LET units == ReadBits(p + 1, 32)
        scale == ReadBits(p + 33, 32)
    IN  IF Bit(p) = 0 \/ units = 0 \/ scale = 0 THEN DEFAULT_FPS
        ELSE Fps(scale, ticks * units)

\* Where vui_parameters_present_flag is.
Vui264 ==
    LET chroma == AfterUE(24)
        frameNum == IF ReadBits(0, 8) \in HighProfiles THEN AfterChroma(chroma) ELSE chroma
        refFrames == AfterPicOrder(AfterUE(frameNum))
        mbsOnly == AfterUEs(SkipBits(AfterUE(refFrames), 1), 2)
        cropping == SkipBits(mbsOnly, IF Bit(mbsOnly) = 1 THEN 2 ELSE 3)
    IN  AfterOption(cropping, AfterUEs(cropping + 1, 4))

ParseH264Fps ==
    IF Bit(Vui264) = 0 THEN DEFAULT_FPS ELSE Timing(AfterDescription(Vui264 + 1), 2)

----------------------------------------------------------------------------
(* ParseH265Fps.                                                           *)

\* profile_tier_level ends with what the flags of the sub-layers announce.
AfterProfile(subLayers) ==
    LET Announced(first) == {k \in 1..subLayers : Bit(first + 2 * (k - 1)) = 1}
    IN  IF subLayers = 0 THEN SkipBits(104, 0)
        ELSE SkipBits(120, 88 * Cardinality(Announced(104)) + 8 * Cardinality(Announced(105)))

AfterMatrix(p, sizeId) ==
    IF Bit(p) = 0 THEN AfterUE(SkipBits(p, 1))
    ELSE AfterUEs(p + 1, (IF sizeId > 1 THEN 1 ELSE 0) + (IF sizeId = 0 THEN 16 ELSE 64))

AfterPcm(p) == AfterOption(p, SkipBits(AfterUEs(SkipBits(p, 9), 2), 1))

\* n times a value and a flag.
AfterPictures(p, n) == Repeat([k \in Nat |-> [q \in Nat |-> SkipBits(AfterUE(q), 1)]], p, n)

\* A set predicted from another is taken to have 16 entries, with a second
\* flag after each that is 1.
AfterShortTermSet(p, k) ==
    LET predicted == AfterUE(SkipBits(p, 2))
        negative == IF k = 0 THEN p ELSE SkipBits(p, 1)
        pictures == AfterUEs(negative, 2)
    IN  IF k # 0 /\ Bit(p) = 1
        THEN Repeat([j \in Nat |-> [q \in Nat |-> AfterOption(q, SkipBits(q, 2))]], predicted, 16)
        ELSE AfterPictures(AfterPictures(pictures, ReadUE(negative)), ReadUE(AfterUE(negative)))

AfterShortTermSets(p) ==
    Repeat([k \in Nat |-> [q \in Nat |-> AfterShortTermSet(q, k)]], AfterUE(p), ReadUE(p))

\* The length of a picture's number is read from where its number is.
AfterLongTerm(p) ==
    AfterOption(p, Repeat([k \in Nat |-> [q \in Nat |-> SkipBits(AfterUE(q), ReadUE(q) + 5)]],
                          AfterUE(p + 1), ReadUE(p + 1)))

Vui265 ==
    LET subLayers == ReadBits(4, 3)
        chroma == AfterUE(AfterProfile(subLayers))
        size == SkipBits(AfterUE(chroma), IF ReadUE(chroma) = 3 THEN 1 ELSE 0)
        window == AfterUEs(size, 2)
        depths == AfterOption(window, AfterUEs(window + 1, 4))
        ordering == AfterUEs(depths, 3)
        blocks == AfterUEs(SkipBits(ordering, 1), 3 * (IF Bit(ordering) = 1 THEN subLayers + 1 ELSE 1))
        scaling == AfterUEs(blocks, 6)
        lists == Repeat([k \in Nat |-> [q \in Nat |-> AfterMatrix(q, k \div 6)]], scaling + 2, 20)
        tools == AfterOption(scaling, AfterOption(scaling + 1, lists))
        sets == AfterPcm(SkipBits(tools, 2))
    IN  SkipBits(AfterLongTerm(AfterShortTermSets(sets)), 2)

ParseH265Fps ==
    LET display == SkipBits(AfterDescription(Vui265 + 1), 3)
    IN  IF Bit(Vui265) = 0 THEN DEFAULT_FPS
        ELSE Timing(AfterOption(display, AfterUEs(display + 1, 4)), 1)

----------------------------------------------------------------------------
(* LoadFile.                                                               *)

RemoveEmulationPrevention(data) ==
    Repeat([k \in Nat |-> [rbsp \in Seq(Nat) |->
               IF k >= 2 /\ data[k + 1] = 3 /\ data[k] = 0 /\ data[k - 1] = 0 THEN rbsp
               ELSE Append(rbsp, data[k + 1])]],
           <<>>, Len(data))

BitsOf(bytes) ==
    [b \in 1..(8 * Len(bytes)) |->
        (bytes[((b - 1) \div 8) + 1] \div Pow2(7 - ((b - 1) % 8))) % 2]

IsSps(n) == TypeAt(n) = (IF isH265_ THEN 33 ELSE 7)

HeaderSize == IF isH265_ THEN 2 ELSE 1

\* The first SPS, unless it is too short to be one.
ReadsSps(n) ==
    LET nal == nalUnits_[n]
        offset == IF Is4ByteStart(nal.first) THEN 4 ELSE 3
        rbsp == RemoveEmulationPrevention(SubSeq(buffer, nal.first + offset, nal.last))
    IN  IF nal.first + offset + HeaderSize > nal.last \/ Len(rbsp) < (IF isH265_ THEN 15 ELSE 4)
        THEN loading' = "done" /\ UNCHANGED bits
        ELSE loading' = "rate" /\ bits' = BitsOf(SubSeq(rbsp, HeaderSize + 1, Len(rbsp)))

FindSps ==
    /\ pc = "group" /\ loading = "sps"
    /\ \/ /\ \A n \in 1..Units : ~IsSps(n)
          /\ loading' = "done" /\ UNCHANGED bits
       \/ \E n \in 1..Units :
             /\ IsSps(n) /\ \A k \in 1..(n - 1) : ~IsSps(k)
             /\ ReadsSps(n)
    /\ UNCHANGED <<vars, frameRate_, stamp, written>>

ReadRate ==
    /\ loading = "rate"
    /\ loading' = "done"
    /\ frameRate_' = IF isH265_ THEN ParseH265Fps ELSE ParseH264Fps
    /\ UNCHANGED <<vars, bits, stamp, written>>

----------------------------------------------------------------------------
(* The timer.                                                              *)

\* Faulty variant: the interval is rounded up.
TimerIntervalUp == ((1000 * frameRate_.den) \div frameRate_.num) + 1

\* Whole milliseconds.  Above 1000 frames a second it is 0: the timer is not
\* armed.
TimerInterval == (1000 * frameRate_.den) \div frameRate_.num

Expires ==
    /\ OnTimerRaw
    /\ TimerInterval > 0
    /\ stamp' = (auIndex * 1000 * frameRate_.den) \div frameRate_.num
    /\ UNCHANGED <<loading, bits, frameRate_, written>>

----------------------------------------------------------------------------
RateInit ==
    \E f \in Files :
        /\ Load(f)
        /\ loading = "sps" /\ bits = <<>> /\ frameRate_ = DEFAULT_FPS /\ stamp = 0
        /\ written = [rate |-> f.rate, cut |-> f.cut]

RateNext ==
    \/ (NextByte \/ StartCode \/ ParseEnds) /\ UNCHANGED rateVars
    \/ FindSps \/ ReadRate
    \/ loading = "done" /\ (GroupNal \/ GroupEnds) /\ UNCHANGED rateVars
    \/ Expires

RateSpec == RateInit /\ [][RateNext]_allVars

----------------------------------------------------------------------------
(* Properties.                                                             *)

Loaded == pc = "stream"

\* openspec/specs/fps-detection: the rate is the one the SPS has, and the
\* default if it has none, wherever the flags, lists and loops before the
\* timing information put it.  An H.265 SPS with predicted sets or long-term
\* pictures is not parsed by the standard and is not among the files.
FrameRateIsRead == Loaded /\ ~written.cut => frameRate_ = written.rate

\* A file that ends within its SPS is played at the default rate, or at one
\* that is not above the SPS's, however the elements behind its end are read.
CutIsNotFaster ==
    Loaded /\ written.cut =>
        \/ frameRate_ = DEFAULT_FPS
        \/ /\ frameRate_.num > 0
           /\ frameRate_.num * written.rate.den <= written.rate.num * frameRate_.den

\* The timer, which has whole milliseconds, is never behind the timestamps.
SentInTime == auIndex > 0 => stamp >= (auIndex - 1) * TimerInterval
=============================================================================
