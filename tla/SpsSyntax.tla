----------------------------- MODULE SpsSyntax -----------------------------
(***************************************************************************)
(* The reference that FrameRate is checked against: how an encoder writes  *)
(* a sequence parameter set (ITU-T H.264 7.3.2.1.1 and E.1.1, H.265        *)
(* 7.3.2.2 and E.2.1) into a NAL unit, the escape bytes included, whatever *)
(* the values of its elements.  An element whose value nothing depends on  *)
(* is given by its bits; what follows the timing information is "rest".    *)
(***************************************************************************)
EXTENDS Integers, Sequences, Repetition

\* v without its last n binary digits.
Halved(v, n) == Repeat([k \in Nat |-> [w \in Nat |-> w \div 2]], v, n)

\* Values of n bits.
Word(n) == {v \in Nat : Halved(v, n) = 0}
Bits(n) == [1..n -> {0, 1}]
Option(S) == {<<>>} \cup S
UpTo(n, S) == {s \in Seq(S) : Len(s) <= n}

Concat(parts) ==
    Repeat([k \in Nat |-> [s \in Seq({0, 1}) |-> s \o parts[k + 1]]], <<>>, Len(parts))

U(n, v) == [k \in 1..n |-> Halved(v, n - k) % 2]

\* n zeros and the n + 1 digits of v + 1.
Ue(v) ==
    LET n == CHOOSE n \in 0..v : Halved(v + 1, n) = 1
    IN  [k \in 1..n |-> 0] \o U(n + 1, v + 1)
UeValues == {v \in Nat : v + 1 \in Word(32)}
Ues(values) == Concat([k \in 1..Len(values) |-> Ue(values[k])])
Se(v) == Ue(IF v > 0 THEN 2 * v - 1 ELSE -2 * v)

Flag(b) == <<IF b THEN 1 ELSE 0>>
Optional(b, fields) == IF b THEN <<1>> \o fields ELSE <<0>>

----------------------------------------------------------------------------
(* Video usability information: which parts are there, and the timing, a   *)
(* number of units per tick and of ticks per second, or none.              *)

Vui == [aspect : BOOLEAN, ratio : Word(8), sar : Bits(32), overscan : Option(Bits(1)),
        signal : Option(Bits(4)), colour : Option(Bits(24)), location : Option([1..2 -> UeValues])]

Description(v) ==
    Optional(v.aspect, U(8, v.ratio) \o (IF v.ratio = 255 THEN v.sar ELSE <<>>))
    \o Optional(v.overscan # <<>>, v.overscan)
    \o Optional(v.signal # <<>>, v.signal \o Optional(v.colour # <<>>, v.colour))
    \o Optional(v.location # <<>>, Ues(v.location))

Timings == Option([1..2 -> Word(32)])

TimingInfo(timing) == Optional(timing # <<>>, U(32, timing[1]) \o U(32, timing[2]))

Windows == Option([1..4 -> UeValues])
WindowOf(window) == Optional(window # <<>>, Ues(window))

\* chroma_format_idc, and a flag if it is 3.
ChromaFormat(s) == Ue(s.chroma) \o (IF s.chroma = 3 THEN s.plane ELSE <<>>)

----------------------------------------------------------------------------
(* H.264.                                                                  *)

\* The delta from one scale to the next, modulo 256.
Delta(from, to) == ((to - from + 128) % 256) - 128

\* A list that is shorter than its size ends with a scale of 0.
ScalingList264(list, size) ==
    LET scales == IF Len(list.scales) < size THEN Append(list.scales, 0) ELSE list.scales
    IN  Optional(list.present,
            Concat([k \in 1..Len(scales) |-> Se(Delta(IF k = 1 THEN 8 ELSE scales[k - 1], scales[k]))]))

ListSize(k) == IF k <= 6 THEN 16 ELSE 64
ListCount(chroma) == IF chroma = 3 THEN 12 ELSE 8
ScalingLists(chroma) ==
    {lists \in [1..ListCount(chroma) -> [present : BOOLEAN, scales : Seq(1..255)]] :
        \A k \in 1..ListCount(chroma) : Len(lists[k].scales) <= ListSize(k)}

\* Profiles with the fields for a chroma format; those of subset SPSs are not
\* those of an SPS.
ChromaProfiles == {100, 110, 122, 244, 44, 83, 86, 118, 128}
SubsetProfiles == {134, 135, 138, 139}

HighFields(s) ==
    Concat(<<ChromaFormat(s), Ues(s.depths), s.bypass,
             Optional(s.lists # <<>>,
                 Concat([k \in 1..Len(s.lists) |-> ScalingList264(s.lists[k], ListSize(k))]))>>)

PicOrder(s) ==
    Ue(s.order)
    \o (IF s.order = 0 THEN Ue(s.maxOrder)
        ELSE IF s.order = 1
        THEN Concat(<<s.zero, Ues(s.offsets), Ue(Len(s.cycle)), Ues(s.cycle)>>)
        ELSE <<>>)

Sps264(s) ==
    Concat(<<U(8, s.profile), s.level, Ue(s.id),
             IF s.profile \in ChromaProfiles THEN HighFields(s) ELSE <<>>,
             Ue(s.frameNum), PicOrder(s), Ue(s.refFrames), s.gaps, Ues(s.size),
             Flag(s.progressive), IF s.progressive THEN <<>> ELSE s.adaptive, s.direct,
             WindowOf(s.window),
             Optional(s.vui, Description(s.description) \o TimingInfo(s.timing)), s.rest>>)

Is264(s) ==
    /\ s.header \in {<<b>> : b \in {b \in 0..127 : b % 32 = 7}}
    /\ s.profile \in Word(8) \ SubsetProfiles /\ s.level \in Bits(16) /\ s.id \in UeValues
    /\ s.chroma \in 0..3 /\ s.plane \in Bits(1)
    /\ s.depths \in [1..2 -> UeValues] /\ s.bypass \in Bits(1)
    /\ s.lists \in Option(ScalingLists(s.chroma))
    /\ s.frameNum \in UeValues
    /\ s.order \in 0..2 /\ s.maxOrder \in UeValues /\ s.zero \in Bits(1)
    /\ s.offsets \in [1..2 -> UeValues] /\ s.cycle \in UpTo(255, UeValues)
    /\ s.refFrames \in UeValues /\ s.gaps \in Bits(1) /\ s.size \in [1..2 -> UeValues]
    /\ s.progressive \in BOOLEAN /\ s.adaptive \in Bits(1) /\ s.direct \in Bits(1)
    /\ s.window \in Windows
    /\ s.vui \in BOOLEAN /\ s.description \in Vui /\ s.timing \in Timings
    /\ s.rest \in Seq({0, 1})

----------------------------------------------------------------------------
(* H.265.                                                                  *)

\* A layer's profile and level, each if it is there.
Layers == [profile : Option(Bits(88)), level : Option(Bits(8))]

SubLayers(layers) ==
    LET n == Len(layers)
    IN  IF n = 0 THEN <<>>
        ELSE Concat([k \in 1..n |-> Flag(layers[k].profile # <<>>) \o Flag(layers[k].level # <<>>)])
             \o [k \in 1..(2 * (8 - n)) |-> 0]
             \o Concat([k \in 1..n |-> layers[k].profile \o layers[k].level])

\* A predicted matrix has the distance to the one it is predicted from.
Coefficients(sizeId) == (IF sizeId > 1 THEN 1 ELSE 0) + (IF sizeId = 0 THEN 16 ELSE 64)
Matrices ==
    {m \in [1..20 -> [predicted : BOOLEAN, values : Seq(UeValues)]] :
        \A k \in 1..20 :
            Len(m[k].values) = IF m[k].predicted THEN 1 ELSE Coefficients((k - 1) \div 6)}
Matrix(m) == Flag(~m.predicted) \o Ues(m.values)

\* The pictures of a set are the distance to the one before and whether the
\* current one uses it.  No set is predicted from another.
Pictures == [delta : UeValues, used : Bits(1)]
PictureSets == [negative : UpTo(16, Pictures), positive : UpTo(16, Pictures)]
PicturesOf(pictures) == Concat([k \in 1..Len(pictures) |-> Ue(pictures[k].delta) \o pictures[k].used])
ShortTermSet(set, k) ==
    (IF k = 1 THEN <<>> ELSE <<0>>) \o Ue(Len(set.negative)) \o Ue(Len(set.positive))
    \o PicturesOf(set.negative) \o PicturesOf(set.positive)

Pcm == [depths : Bits(8), sizes : [1..2 -> UeValues], filter : Bits(1)]

Sps265(s) ==
    Concat(<<s.id, U(3, Len(s.layers)), s.profile, SubLayers(s.layers),
             Ue(s.setId), ChromaFormat(s), Ues(s.size), WindowOf(s.window), Ues(s.depths),
             Flag(s.everyLayer), Ues(s.buffering), Ues(s.blocks),
             Optional(s.scaling,
                 Optional(s.matrices # <<>>,
                     Concat([k \in 1..Len(s.matrices) |-> Matrix(s.matrices[k])]))),
             s.tools, Optional(s.coded, Concat(<<s.pcm.depths, Ues(s.pcm.sizes), s.pcm.filter>>)),
             Ue(Len(s.sets)), Concat([k \in 1..Len(s.sets) |-> ShortTermSet(s.sets[k], k)]),
             <<0>>, s.motion,
             Optional(s.vui, Concat(<<Description(s.description), s.fields,
                                      WindowOf(s.display), TimingInfo(s.timing)>>)),
             s.rest>>)

Is265(s) ==
    /\ s.header \in {66, 67} \X (1..255)
    /\ s.id \in Bits(4) /\ s.layers \in UpTo(6, Layers) /\ s.profile \in Bits(97)
    /\ s.setId \in UeValues /\ s.chroma \in 0..3 /\ s.plane \in Bits(1)
    /\ s.size \in [1..2 -> UeValues] /\ s.window \in Windows /\ s.depths \in [1..3 -> UeValues]
    /\ s.everyLayer \in BOOLEAN
    /\ s.buffering \in [1..(3 * (IF s.everyLayer THEN Len(s.layers) + 1 ELSE 1)) -> UeValues]
    /\ s.blocks \in [1..6 -> UeValues]
    /\ s.scaling \in BOOLEAN /\ s.matrices \in Option(Matrices)
    /\ s.tools \in Bits(2) /\ s.coded \in BOOLEAN /\ s.pcm \in Pcm
    /\ s.sets \in UpTo(64, PictureSets) /\ s.motion \in Bits(2)
    /\ s.vui \in BOOLEAN /\ s.description \in Vui /\ s.timing \in Timings
    /\ s.fields \in Bits(3) /\ s.display \in Windows
    /\ s.rest \in Seq({0, 1})

----------------------------------------------------------------------------
(* NAL units.                                                              *)

\* A 1, and zeros up to a whole number of bytes.
Padded(data) ==
    LET stopped == data \o <<1>>
    IN  stopped \o [k \in 1..((-Len(stopped)) % 8) |-> 0]

ToBytes(data) ==
    LET padded == Padded(data)
    IN  [b \in 1..(Len(padded) \div 8) |->
            LET v(k) == padded[8 * (b - 1) + k]
            IN  128 * v(1) + 64 * v(2) + 32 * v(3) + 16 * v(4) + 8 * v(5) + 4 * v(6) + 2 * v(7) + v(8)]

\* A 3 goes between two zeros and a byte of at most 3.
Escape(bytes) ==
    Repeat([k \in Nat |-> [e \in Seq(Nat) |->
               LET n == Len(e)
               IN  IF n >= 2 /\ e[n] = 0 /\ e[n - 1] = 0 /\ bytes[k + 1] <= 3
                   THEN e \o <<3, bytes[k + 1]>> ELSE Append(e, bytes[k + 1])]],
           <<>>, Len(bytes))

SpsNal(s, isH265) ==
    <<0, 0, 0, 1>> \o Escape(s.header \o ToBytes(IF isH265 THEN Sps265(s) ELSE Sps264(s)))

\* Frames per second; a frame of H.264 lasts two ticks.
Rate(s, isH265) ==
    IF ~s.vui \/ s.timing = <<>> \/ s.timing[1] = 0 \/ s.timing[2] = 0
    THEN [num |-> 25, den |-> 1]
    ELSE [num |-> s.timing[2], den |-> s.timing[1] * (IF isH265 THEN 1 ELSE 2)]

----------------------------------------------------------------------------
(* Files.                                                                  *)

Described(s, isH265) == IF isH265 THEN Is265(s) ELSE Is264(s)

\* The type that the first byte of a NAL unit gives it.
SpsType(byte, isH265) == IF isH265 THEN (byte \div 2) % 64 = 33 ELSE byte % 32 = 7

WithoutSps(bytes, isH265) ==
    \A q \in 1..(Len(bytes) - 3) :
        bytes[q] = 0 /\ bytes[q + 1] = 0 /\ bytes[q + 2] = 1 => ~SpsType(bytes[q + 3], isH265)

\* The file f has no SPS, or its first one has f.rate and whatever before and
\* behind it; or f ends within its first one.
Recorded(f) ==
    \/ WithoutSps(f.bytes, f.isH265) /\ f.rate = [num |-> 25, den |-> 1] /\ ~f.cut
    \/ \E s : \E a, b \in Seq(0..255) :
          /\ Described(s, f.isH265) /\ f.rate = Rate(s, f.isH265) /\ WithoutSps(a, f.isH265)
          /\ LET nal == SpsNal(s, f.isH265)
             IN  \/ f.bytes = a \o nal \o b /\ ~f.cut
                 \/ \E n \in 5..Len(nal) : f.bytes = a \o SubSeq(nal, 1, n) /\ f.cut
=============================================================================
