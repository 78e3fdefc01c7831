---------------------------- MODULE MCRawStream ----------------------------
(* Instances of FrameRate for TLC.  Files without an SPS: every short file *)
(* over three bytes, and files of up to four NAL units with either start   *)
(* code, with a delimiter, another parameter set, slices of two kinds, no  *)
(* header, or trailing zeros.  Files with one that is only a header.       *)
(* Files with one: each way through the syntax before the timing           *)
(* information with all of what follows, and the other way round, and one  *)
(* of each codec cut anywhere.                                             *)
EXTENDS FrameRate, SpsSyntax

File(bytes, isH265, rate, cut) ==
    [bytes |-> bytes, isH265 |-> isH265, rate |-> rate, cut |-> cut]

Zero == {0, 1, 9}
Short == UNION {[1..n -> Zero] : n \in 0..7}

Code == {<<0, 0, 1>>, <<0, 0, 0, 1>>}
Nal(bodies) == {c \o b : c \in Code, b \in bodies}
Structured(bodies) == {p \o a \o b \o c : p \in {<<>>, <<9>>}, a, b, c \in Nal(bodies)}
Behind(sps, bodies) ==
    {<<0, 0, 0, 1>> \o sps \o a \o b \o c : a, b, c \in {<<0, 0, 1>> \o d : d \in bodies}}

Bodies264 == {<<>>, <<9>>, <<8>>, <<5>>, <<1, 0>>}
Bodies265 == {<<>>, <<70>>, <<68>>, <<38>>, <<2, 0>>}

NoSps ==
    {File(f, FALSE, DEFAULT_FPS, FALSE) : f \in Short \cup Structured(Bodies264)}
    \cup {File(f, TRUE, DEFAULT_FPS, FALSE) : f \in Structured(Bodies265)}

HeaderOnly ==
    {File(f, FALSE, DEFAULT_FPS, FALSE) : f \in Behind(<<7>>, Bodies264)}
    \cup {File(f, TRUE, DEFAULT_FPS, FALSE) : f \in Behind(<<66>>, Bodies265) \cup Behind(<<66, 1>>, Bodies265)}

Rich == [aspect |-> TRUE, ratio |-> 255, sar |-> U(16, 4) \o U(16, 3), overscan |-> <<1>>,
         signal |-> U(4, 11), colour |-> U(24, 65793), location |-> <<1, 2>>]
Plain == [Rich EXCEPT !.aspect = FALSE, !.overscan = <<>>, !.signal = <<>>, !.location = <<>>]

Base264 ==
    [header |-> <<103>>, profile |-> 100, level |-> U(16, 31), id |-> 0,
     chroma |-> 1, plane |-> <<0>>, depths |-> <<0, 0>>, bypass |-> <<0>>, lists |-> <<>>,
     frameNum |-> 5, order |-> 0, maxOrder |-> 4, zero |-> <<0>>, offsets |-> <<2, 3>>,
     cycle |-> <<0, 9, 10>>, refFrames |-> 1, gaps |-> <<0>>, size |-> <<21, 17>>,
     progressive |-> TRUE, adaptive |-> <<0>>, direct |-> <<1>>, window |-> <<>>,
     vui |-> TRUE, description |-> Plain, timing |-> <<1, 60>>, rest |-> <<1, 0, 0, 0>>]
Base265 ==
    [header |-> <<66, 1>>, id |-> U(4, 0), layers |-> <<>>, profile |-> <<1>> \o U(8, 1) \o U(30, 402653184) \o U(50, 0) \o U(8, 93),
     setId |-> 0, chroma |-> 1, plane |-> <<0>>, size |-> <<352, 288>>, window |-> <<>>,
     depths |-> <<0, 0, 4>>, everyLayer |-> TRUE, buffering |-> <<1, 2, 3>>,
     blocks |-> <<0, 3, 0, 3, 0, 0>>, scaling |-> FALSE, matrices |-> <<>>, tools |-> <<1, 1>>,
     coded |-> FALSE, pcm |-> [depths |-> U(8, 119), sizes |-> <<0, 2>>, filter |-> <<1>>],
     sets |-> <<>>, motion |-> <<1, 1>>,
     vui |-> TRUE, description |-> Plain, timing |-> <<1, 30>>, fields |-> U(3, 0),
     display |-> <<>>, rest |-> U(4, 0)]

\* Absent, with all its scales, ended by the second delta, "use the default".
Lists(chroma) ==
    [k \in 1..ListCount(chroma) |->
        [present |-> k % 4 # 0,
         scales |-> IF k % 4 = 1 THEN [j \in 1..ListSize(k) |-> 8]
                    ELSE IF k % 4 = 2 THEN <<128>> ELSE <<>>]]

\* Every third matrix is predicted.
Given ==
    [k \in 1..20 |->
        [predicted |-> k % 3 = 0,
         values |-> IF k % 3 = 0 THEN <<1>>
                    ELSE [j \in 1..Coefficients((k - 1) \div 6) |-> j % 2]]]

LayersOf(n) ==
    [k \in 1..n |-> [profile |-> IF k % 2 = 1 THEN U(31, 1) \o U(30, 1) \o U(27, 0) ELSE <<>>,
                     level |-> U(8, 93)]]

TwoSets ==
    LET picture == [delta |-> 0, used |-> <<1>>]
    IN  << [negative |-> <<picture>>, positive |-> << [picture EXCEPT !.delta = 2] >>],
           [negative |-> <<picture, picture>>, positive |-> <<picture>>] >>

WithLayers(s, n, every) ==
    [s EXCEPT !.layers = LayersOf(n), !.everyLayer = every,
              !.buffering = [k \in 1..(3 * (IF every THEN n + 1 ELSE 1)) |-> k]]

Before264 ==
    {[Base264 EXCEPT !.profile = p[1], !.chroma = p[2],
                     !.lists = IF l THEN Lists(p[2]) ELSE <<>>, !.order = o,
                     !.progressive = g, !.window = w, !.description = Rich] :
        p \in {<<66, 1>>, <<100, 1>>, <<100, 3>>}, l, g \in BOOLEAN, o \in 0..2,
        w \in {<<>>, <<1, 2, 3, 4>>}}
Before265 ==
    {[WithLayers(Base265, n, o) EXCEPT !.chroma = c, !.window = w, !.display = w,
                 !.scaling = l # "none", !.matrices = IF l = "given" THEN Given ELSE <<>>,
                 !.coded = p, !.sets = r] :
        n \in 0..2, c \in {1, 3}, w \in {<<>>, <<1, 2, 3, 4>>}, o, p \in BOOLEAN,
        l \in {"none", "default", "given"}, r \in {<<>>, TwoSets}}

Descriptions ==
    {[aspect |-> a > 0, ratio |-> a, sar |-> Rich.sar, overscan |-> o, signal |-> s[1],
      colour |-> s[2], location |-> l] :
        a \in {0, 1, 255}, o \in {<<>>, <<1>>}, l \in {<<>>, <<1, 2>>},
        s \in {<< <<>>, <<>> >>, <<Rich.signal, <<>> >>, <<Rich.signal, Rich.colour>>}}
After(base) ==
    {[base EXCEPT !.vui = v, !.description = d, !.timing = t] :
        v \in BOOLEAN, d \in Descriptions,
        t \in {<<>>, <<1, 60>>, <<1001, 60000>>, <<1, 2100>>, <<0, 50>>}}

All264 == Before264 \cup After(Base264)
All265 == Before265 \cup After(Base265)
Cut264 == [Base264 EXCEPT !.lists = Lists(1), !.window = <<1, 2, 3, 4>>, !.timing = <<1, 59>>]
Other264 == [Base264 EXCEPT !.timing = <<1, 100>>]
Cut265 == [WithLayers(Base265, 1, TRUE) EXCEPT !.coded = TRUE, !.sets = TwoSets, !.timing = <<1, 59>>]

Slice(isH265) == IF isH265 THEN <<0, 0, 1, 38, 1>> ELSE <<0, 0, 1, 101>>

Delimiter(isH265) == <<0, 0, 0, 1>> \o (IF isH265 THEN <<70, 1>> ELSE <<9>>)

\* A delimiter first, and an SPS of another rate behind the slice.
WithSps(s, isH265, other) ==
    File(Delimiter(isH265) \o SpsNal(s, isH265) \o Slice(isH265) \o other, isH265, Rate(s, isH265), FALSE)

Cut(s, isH265) ==
    LET nal == SpsNal(s, isH265)
    IN  {File(SubSeq(nal, 1, n), isH265, Rate(s, isH265), TRUE) : n \in 5..Len(nal)}

RawFiles ==
    NoSps \cup HeaderOnly
    \cup {WithSps(s, FALSE, <<>>) : s \in All264} \cup {WithSps(s, TRUE, <<>>) : s \in All265}
    \cup {WithSps(Other264, FALSE, SpsNal(Base264, FALSE))}
    \cup Cut(Cut264, FALSE) \cup Cut(Cut265, TRUE)

\* The files are Recorded, as the theorems have them, except those whose SPS is
\* only a header.
ASSUME Described264 == \A s \in All264 \cup {Cut264, Other264} : Is264(s)
ASSUME Described265 == \A s \in All265 \cup {Cut265} : Is265(s)
ASSUME Without ==
    /\ \A f \in NoSps : WithoutSps(f.bytes, f.isH265)
    /\ \A h \in BOOLEAN : WithoutSps(Delimiter(h), h) /\ WithoutSps(<<>>, h)
============================================================================
