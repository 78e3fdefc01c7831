----------------------------- MODULE RawStream -----------------------------
(***************************************************************************)
(* Raw bitstream mode: NalParser cuts the file into NAL units at the start *)
(* codes and groups them into access units, and OnTimerRaw sends a         *)
(* connection one access unit an expiration, over and over.                *)
(*                                                                         *)
(* A NAL unit is a range of the buffer and an access unit a range of NAL   *)
(* units, first to last, as the code copies consecutive bytes and units.   *)
(* Positions start at 1.                                                   *)
(***************************************************************************)
EXTENDS Integers, Sequences

CONSTANTS
    Files,       \* what LoadFile is given: the bytes of a file, and its codec
    MaxUnits     \* bound: access units sent to the connection

ASSUME FilesAssumption ==
    \A f \in Files : f.bytes \in Seq(0..255) /\ f.isH265 \in BOOLEAN
ASSUME MaxUnitsAssumption == MaxUnits \in Nat

VARIABLES
    buffer,      \* the file
    isH265_,     \* its codec, as the command line says
    pc,          \* "parse": ParseNalUnits, "group": GroupIntoAccessUnits, "stream"
    i,           \* the position in the buffer
    start,       \* where the NAL unit at hand begins (0: none found yet)
    nalUnits_,
    currentAU,   \* the NAL units of the access unit at hand
    accessUnits_,
    auIndex,     \* access units sent to the connection
    sent         \* the payload sent last, a range of the buffer, and its type

parseVars == <<i, start, nalUnits_>>
groupVars == <<currentAU, accessUnits_>>
streamVars == <<auIndex, sent>>
vars == <<buffer, isH265_, pc, parseVars, groupVars, streamVars>>

Size == Len(buffer)
Units == Len(nalUnits_)
Bytes(first, last) == [first |-> first, last |-> last]

\* LoadFile starts on the file f.
Load(f) ==
    /\ buffer = f.bytes /\ isH265_ = f.isH265
    /\ pc = "parse"
    /\ i = 1 /\ start = 0 /\ nalUnits_ = <<>>
    /\ currentAU = Bytes(1, 0) /\ accessUnits_ = <<>>
    /\ auIndex = 0 /\ sent = [bytes |-> Bytes(0, 0), type |-> "none"]

Init == \E f \in Files : Load(f)

----------------------------------------------------------------------------
(* ParseNalUnits.                                                          *)

Is4ByteStart(p) ==
    buffer[p] = 0 /\ buffer[p + 1] = 0 /\ buffer[p + 2] = 0 /\ buffer[p + 3] = 1
Is3ByteStart(p) ==
    /\ ~Is4ByteStart(p) /\ p > 1
    /\ buffer[p] = 0 /\ buffer[p + 1] = 0 /\ buffer[p + 2] = 1

Scanning == pc = "parse" /\ i <= Size - 3

NextByte ==
    /\ Scanning /\ ~Is4ByteStart(i) /\ ~Is3ByteStart(i)
    /\ i' = i + 1
    /\ UNCHANGED <<buffer, isH265_, pc, start, nalUnits_, groupVars, streamVars>>

\* Faulty variant: what precedes the first start code is a NAL unit too.
StartCodeAlwaysEnds ==
    /\ Scanning /\ (Is4ByteStart(i) \/ Is3ByteStart(i))
    /\ nalUnits_' = Append(nalUnits_, Bytes(start, i - 1))
    /\ start' = i
    /\ i' = IF Is4ByteStart(i) THEN i + 4 ELSE i + 3
    /\ UNCHANGED <<buffer, isH265_, pc, groupVars, streamVars>>

\* Faulty variant: four bytes are skipped for either start code.
StartCodeSkipsFour ==
    /\ Scanning /\ (Is4ByteStart(i) \/ Is3ByteStart(i))
    /\ nalUnits_' = IF start = 0 THEN nalUnits_ ELSE Append(nalUnits_, Bytes(start, i - 1))
    /\ start' = i
    /\ i' = i + 4
    /\ UNCHANGED <<buffer, isH265_, pc, groupVars, streamVars>>

StartCode ==
    /\ Scanning /\ (Is4ByteStart(i) \/ Is3ByteStart(i))
    /\ nalUnits_' = IF start = 0 THEN nalUnits_ ELSE Append(nalUnits_, Bytes(start, i - 1))
    /\ start' = i
    /\ i' = IF Is4ByteStart(i) THEN i + 4 ELSE i + 3
    /\ UNCHANGED <<buffer, isH265_, pc, groupVars, streamVars>>

\* Faulty variant: the last NAL unit is forgotten.
ParseEndsAtOnce ==
    /\ pc = "parse" /\ ~Scanning
    /\ pc' = "group"
    /\ UNCHANGED <<buffer, isH265_, parseVars, groupVars, streamVars>>

\* The last NAL unit reaches to the end of the file.
ParseEnds ==
    /\ pc = "parse" /\ ~Scanning
    /\ pc' = "group"
    /\ nalUnits_' = IF start = 0 THEN nalUnits_ ELSE Append(nalUnits_, Bytes(start, Size))
    /\ UNCHANGED <<buffer, isH265_, i, start, groupVars, streamVars>>

----------------------------------------------------------------------------
(* GroupIntoAccessUnits.                                                   *)

Invalid == 255

\* Behind a start code of 4 or 3 bytes, if the unit has a byte there.
GetNalType(nal) ==
    LET offset == IF Is4ByteStart(nal.first) THEN 4 ELSE 3
        byte == buffer[nal.first + offset]
    IN  IF nal.first + offset > nal.last THEN Invalid
        ELSE IF isH265_ THEN (byte \div 2) % 64 ELSE byte % 32

TypeAt(n) == GetNalType(nalUnits_[n])
IsDelimiter(type) == type = (IF isH265_ THEN 35 ELSE 9)
IsSlice(type) == IF isH265_ THEN type <= 31 ELSE type \in {1, 5}

\* Faulty variant: only the NAL unit before is looked at.
LastIsSlice(au) == au.first <= au.last /\ IsSlice(TypeAt(au.last))

HasSlice(au) == \E n \in au.first..au.last : IsSlice(TypeAt(n))

IsNewAU(n) ==
    \/ IsDelimiter(TypeAt(n))
    \/ IsSlice(TypeAt(n)) /\ HasSlice(currentAU)

\* currentAU.nalUnits is empty before the first NAL unit only.
GroupNal ==
    /\ pc = "group" /\ currentAU.last < Units
    /\ LET n == currentAU.last + 1 IN
       IF IsNewAU(n) /\ n > currentAU.first
       THEN /\ accessUnits_' = Append(accessUnits_, currentAU)
            /\ currentAU' = Bytes(n, n)
       ELSE /\ currentAU' = [currentAU EXCEPT !.last = n]
            /\ UNCHANGED accessUnits_
    /\ UNCHANGED <<buffer, isH265_, pc, parseVars, streamVars>>

GroupEnds ==
    /\ pc = "group" /\ currentAU.last = Units
    /\ pc' = "stream"
    /\ accessUnits_' = IF Units = 0 THEN <<>> ELSE Append(accessUnits_, currentAU)
    /\ UNCHANGED <<buffer, isH265_, parseVars, currentAU, streamVars>>

----------------------------------------------------------------------------
(* OnTimerRaw.                                                             *)

Known(type) ==
    IF isH265_ THEN
        IF type = 32 THEN "VPS"
        ELSE IF type \in {33, 34} THEN "SPS_PPS"
        ELSE IF type \in {19, 20} THEN "IDR"
        ELSE IF type \in 16..23 THEN "I_FRAME"
        ELSE IF type \in 0..15 THEN "P_FRAME" ELSE "none"
    ELSE
        IF type \in {7, 8} THEN "SPS_PPS"
        ELSE IF type = 5 THEN "IDR"
        ELSE IF type = 1 THEN "P_FRAME" ELSE "none"

\* Faulty variant: only the first NAL unit is looked at.
FrameTypeOfFirst(au) ==
    IF Known(TypeAt(au.first)) = "none" THEN "P_FRAME" ELSE Known(TypeAt(au.first))

\* The first NAL unit with a known type decides.
DetectFrameType(au) ==
    LET known == {n \in au.first..au.last : Known(TypeAt(n)) # "none"}
    IN  IF known = {} THEN "P_FRAME"
        ELSE Known(TypeAt(CHOOSE n \in known : \A m \in known : n <= m))

\* The payload is every byte of the unit's NAL units, start codes included.
OnTimerRaw ==
    /\ pc = "stream" /\ accessUnits_ # <<>> /\ auIndex < MaxUnits
    /\ LET au == accessUnits_[(auIndex % Len(accessUnits_)) + 1] IN
       sent' = [bytes |-> Bytes(nalUnits_[au.first].first, nalUnits_[au.last].last),
                type  |-> DetectFrameType(au)]
    /\ auIndex' = auIndex + 1
    /\ UNCHANGED <<buffer, isH265_, pc, parseVars, groupVars>>

----------------------------------------------------------------------------
Next == NextByte \/ StartCode \/ ParseEnds \/ GroupNal \/ GroupEnds \/ OnTimerRaw

Spec == Init /\ [][Next]_vars

----------------------------------------------------------------------------
(* Properties.                                                             *)

Ranges(first, last) == [first : first, last : last]

Buffers == {f.bytes : f \in Files}

\* The type invariant.
TypeOK ==
    /\ buffer \in Buffers /\ isH265_ \in BOOLEAN
    /\ pc \in {"parse", "group", "stream"}
    /\ i \in Nat \ {0} /\ start \in Nat
    /\ nalUnits_ \in Seq(Ranges(1..Size, 1..Size))
    /\ currentAU \in Ranges(1..Units, 1..Units) \cup {Bytes(1, 0)}
    /\ accessUnits_ \in Seq(Ranges(1..Units, 1..Units))
    /\ auIndex \in 0..MaxUnits
    /\ sent.bytes \in Ranges(1..Size, 1..Size) \cup {Bytes(0, 0)}
    /\ sent.type \in {"none", "VPS", "SPS_PPS", "IDR", "I_FRAME", "P_FRAME"}

\* The definition of the format: a NAL unit begins at 00 00 01, or at the zero
\* before it.  The code does not take one of three bytes that is the first or
\* the last of the file.
Begins ==
    {IF buffer[p - 1] = 0 THEN p - 1 ELSE p :
        p \in {q \in 2..(Size - 2) :
                  /\ buffer[q] = 0 /\ buffer[q + 1] = 0 /\ buffer[q + 2] = 1
                  /\ q = Size - 2 => buffer[q - 1] = 0}}

\* ParseNalUnits finds each start code once, whatever it skips.
StartCodesAreNals ==
    pc # "parse" =>
        /\ {nalUnits_[n].first : n \in 1..Units} = Begins
        /\ \A m, n \in 1..Units : nalUnits_[m].first = nalUnits_[n].first => m = n

\* No access unit has slices of two pictures.
OneSlicePerUnit ==
    pc = "stream" =>
        \A a \in 1..Len(accessUnits_) :
            LET au == accessUnits_[a]
            IN  \A n, m \in au.first..au.last :
                    IsSlice(TypeAt(n)) /\ IsSlice(TypeAt(m)) => n = m

\* A connection receives the bytes of the file from the first start code to
\* the end, each once and in order, and then the same again.
PlaysTheFile ==
    [][auIndex' # auIndex =>
          sent'.bytes.first = IF sent.bytes.last \in {0, Size} THEN nalUnits_[1].first
                              ELSE sent.bytes.last + 1]_vars

\* An access unit with an instantaneous refresh is not announced as a P frame.
IsRefresh(type) == type \in (IF isH265_ THEN {19, 20} ELSE {5})
RefreshIsNotP ==
    [][auIndex' # auIndex /\ sent'.type = "P_FRAME" =>
          \A n \in 1..Units :
              nalUnits_[n].first \in sent'.bytes.first..sent'.bytes.last
                  => ~IsRefresh(TypeAt(n))]_vars
============================================================================
