------------------------ MODULE MediaPlayback_proofs ------------------------
(***************************************************************************)
(* Proofs about MediaPlayback, for every file and every delay.  What the   *)
(* server's clock says differs from the time by what the expirations have  *)
(* cost (Counted), no packet is sent before its time (SentOnTime), and the *)
(* audio clock never runs ahead of the server's in the first pass          *)
(* (ClockIsBehind), because it starts with a packet that was sent.         *)
(***************************************************************************)
EXTENDS MediaPlayback, WellFoundedInduction, TLAPS

(* The file.                                                               *)

PacketType == [type : {"audio", "video"}, ptsMs : Nat, durMs : Nat]

LEMMA PacketCountType == PacketCount \in Nat /\ PacketCount > 0
BY PacketsAssumption DEF PacketCount

LEMMA PacketIs ==
    ASSUME NEW k \in Nat
    PROVE  /\ k % PacketCount \in 0..(PacketCount - 1)
           /\ Packet(k) \in PacketType /\ Packet(k).ptsMs \in Nat /\ Packet(k).durMs \in Nat
           /\ Packets[1].ptsMs \in Nat /\ Packet(k).ptsMs >= Packets[1].ptsMs
<1>1. k % PacketCount \in 0..(PacketCount - 1)
  BY PacketCountType
<1>2. (k % PacketCount) + 1 \in 1..Len(Packets) /\ 1 \in 1..Len(Packets)
  BY <1>1, PacketCountType DEF PacketCount
<1>3. \A i \in 1..Len(Packets) : Packets[i] \in PacketType /\ Packets[1].ptsMs <= Packets[i].ptsMs
  <2>1. Packets \in Seq(PacketType)
    BY PacketsAssumption DEF PacketType
  <2>2. \A i \in 1..Len(Packets) : Packets[i] \in PacketType /\ i \in Nat /\ 1 <= i
    BY <2>1
  <2> QED BY <1>2, <2>2, PacketsAssumption
<1>4. Packet(k) = Packets[(k % PacketCount) + 1]
  BY DEF Packet
<1>5. Packets[1].ptsMs \in Nat /\ Packet(k).ptsMs \in Nat /\ Packet(k).durMs \in Nat
  BY <1>2, <1>3, <1>4 DEF PacketType
<1> QED BY <1>1, <1>2, <1>3, <1>4, <1>5

LEMMA LoopDurationIs == LoopDuration \in Nat /\ LoopDuration > 0
<1>1. Packets[PacketCount].ptsMs \in Nat /\ Packets[1].ptsMs \in Nat
  <2>1. Packets \in Seq(PacketType) /\ PacketCount \in 1..Len(Packets) /\ 1 \in 1..Len(Packets)
    BY PacketsAssumption, PacketCountType DEF PacketCount, PacketType
  <2>2. Packets[PacketCount] \in PacketType /\ Packets[1] \in PacketType
    BY <2>1
  <2> QED BY <2>2 DEF PacketType
<1> QED BY <1>1 DEF LoopDuration

\* The effective time of a packet is at least the number of passes before it.
LEMMA EffectiveIs ==
    ASSUME NEW k \in Nat
    PROVE  Effective(k) \in Nat /\ Effective(k) >= k \div PacketCount
<1> DEFINE q == k \div PacketCount
           d == Packet(k).ptsMs - Packets[1].ptsMs
<1>1. q \in Nat
  BY PacketCountType
<1>2. d \in Nat
  BY PacketIs
<1>3. Effective(k) = d + q * LoopDuration
  BY DEF Effective
<1> HIDE DEF q, d
<1>4. q * LoopDuration \in Nat /\ q * LoopDuration >= q
  <2>1. q * (LoopDuration - 1) >= 0
    BY <1>1, LoopDurationIs
  <2>2. q * (LoopDuration - 1) = q * LoopDuration - q
    BY <1>1, LoopDurationIs
  <2> QED BY <1>1, <2>1, <2>2, LoopDurationIs
<1> QED BY <1>1, <1>2, <1>3, <1>4 DEF q

\* In the first pass it is the time since the first packet.
LEMMA EffectiveFirst ==
    ASSUME NEW k \in Nat
    PROVE  /\ Effective(k) >= Packet(k).ptsMs - Packets[1].ptsMs
           /\ k < PacketCount => Effective(k) = Packet(k).ptsMs - Packets[1].ptsMs
<1> DEFINE q == k \div PacketCount
           d == Packet(k).ptsMs - Packets[1].ptsMs
<1>1. q \in Nat /\ (k < PacketCount => q = 0)
  BY PacketCountType
<1>2. d \in Nat
  BY PacketIs
<1>3. Effective(k) = d + q * LoopDuration
  BY DEF Effective
<1> HIDE DEF q, d
<1>4. q * LoopDuration \in Nat /\ (q = 0 => q * LoopDuration = 0)
  BY <1>1, LoopDurationIs
<1> QED BY <1>1, <1>2, <1>3, <1>4 DEF d

\* After enough passes every time has come.
LEMMA PassesCount ==
    ASSUME NEW from \in Nat, NEW t \in Nat
    PROVE  /\ from + PacketCount * (t + 1) \in Nat
           /\ from + PacketCount * (t + 1) >= from
           /\ Effective(from + PacketCount * (t + 1)) > t
<1> DEFINE k == from + PacketCount * (t + 1)
           q == k \div PacketCount
<1>1. PacketCount * (t + 1) \in Nat
  BY PacketCountType
<1>2. k \in Nat /\ k >= from
  BY <1>1
<1>3. k < PacketCount * q + PacketCount /\ q \in Nat
  BY <1>2, PacketCountType
<1>4. k >= PacketCount * t + PacketCount
  BY PacketCountType
<1>5. Effective(k) >= q /\ Effective(k) \in Nat
  BY <1>2, EffectiveIs
<1> HIDE DEF k, q
<1>6. q > t
  <2>1. SUFFICES ASSUME q <= t PROVE FALSE
    BY <1>3
  <2>2. PacketCount * (t - q) >= 0
    BY <1>3, <2>1, PacketCountType
  <2>3. PacketCount * (t - q) = PacketCount * t - PacketCount * q
    BY <1>3, PacketCountType
  <2>4. PacketCount * t \in Nat /\ PacketCount * q \in Nat
    BY <1>3, PacketCountType
  <2> QED BY <1>2, <1>3, <1>4, <2>2, <2>3, <2>4, PacketCountType
<1> QED BY <1>1, <1>2, <1>3, <1>5, <1>6 DEF k

\* The sending loop ends, at the first packet whose time has not come.
LEMMA StopsIs ==
    ASSUME NEW from \in Nat, NEW t \in Nat
    PROVE  /\ Stops(from, t) \in Nat /\ Stops(from, t) >= from
           /\ Effective(Stops(from, t)) > t
           /\ \A j \in from..(Stops(from, t) - 1) : Effective(j) <= t
<1> DEFINE end == from + PacketCount * (t + 1)
           later == {k \in Nat : k >= from /\ Effective(k) > t}
           less == {p \in Nat \X Nat : p[1] < p[2]}
<1>1. end \in later /\ end \in Nat
  BY PassesCount
<1>2. IsWellFoundedOn(less, Nat)
  BY NatLessThanWellFounded DEF OpToRel
<1>3. PICK n \in later : \A m \in later : ~ (<<m, n>> \in less)
  BY <1>1, <1>2, WFMin
<1>4. n \in Nat /\ n >= from /\ Effective(n) > t
  OBVIOUS
<1>5. \A m \in later : m \in Nat /\ n <= m
  <2>1. SUFFICES ASSUME NEW m \in later PROVE m \in Nat /\ n <= m
    OBVIOUS
  <2>2. m \in Nat /\ (<<m, n>> \in less <=> m < n)
    BY <1>4
  <2> QED BY <1>3, <1>4, <2>2
<1>6. n \in from..end
  BY <1>1, <1>4, <1>5
<1>7. \A j \in from..(n - 1) : Effective(j) <= t
  <2>1. SUFFICES ASSUME NEW j \in from..(n - 1) PROVE Effective(j) <= t
    OBVIOUS
  <2>2. j \in Nat /\ j >= from /\ ~(n <= j)
    BY <1>4
  <2>3. j \notin later
    BY <1>5, <2>2
  <2> QED BY <2>2, <2>3, EffectiveIs
<1>8. \E k \in from..end : Effective(k) > t /\ \A j \in from..(k - 1) : Effective(j) <= t
  BY <1>4, <1>6, <1>7
<1>9. /\ Stops(from, t) \in from..end
      /\ Effective(Stops(from, t)) > t /\ \A j \in from..(Stops(from, t) - 1) : Effective(j) <= t
  BY <1>8 DEF Stops
<1> QED BY <1>1, <1>9

----------------------------------------------------------------------------
(* The invariant.                                                          *)

\* What the server's clock has missed is what stall has counted.
Counted == now = conn.playbackTimeMs + stall + (IF due THEN Interval ELSE 0)

\* What is on its way was sent when its time had come.
SentOnTime == \A i \in DOMAIN link : Effective(link[i].k) <= now

\* The audio clock started no earlier than its base was due in the file.
ClockIsBehind ==
    /\ started <= now
    /\ player.basePts >= 0 =>
          /\ started = -1 => player.baseTime = 0
          /\ player.basePts - Packets[1].ptsMs <= IF started = -1 THEN now ELSE started + player.baseTime

\* The schedule ends behind the frame scheduled last.
ScheduleGrows ==
    heard.k # -1 =>
        \/ gone
        \/ /\ player.basePts >= 0
           /\ player.nextPlayTime >= heard.start + Packet(heard.k).durMs

\* The timer of the pending frame expires when the clock reaches it.
TimerMeetsClock ==
    sync.pending # -1 => Active /\ sync.deadline = now + Ahead(Packet(sync.pending))

Shape == Counted /\ SentOnTime /\ Paced /\ ClockIsBehind /\ ScheduleGrows /\ TimerMeetsClock

\* The inductive invariant.
IInv == TypeOK /\ Shape

\* What a queue of any elements holds.
LEMMA QueueOf ==
    ASSUME NEW T, NEW s \in Seq(T)
    PROVE  /\ \A i \in DOMAIN s : s[i] \in T
           /\ s # <<>> => /\ Tail(s) \in Seq(T) /\ Head(s) = s[1] /\ 1 \in DOMAIN s
                          /\ \A i \in DOMAIN Tail(s) : i + 1 \in DOMAIN s /\ Tail(s)[i] = s[i + 1]
           /\ <<>> \in Seq(T)
OBVIOUS

LEMMA InitInvariant == Init => IInv
<1> SUFFICES ASSUME Init PROVE IInv
  OBVIOUS
<1>1. TypeOK
  <2>1. link \in Seq([k : Nat, at : Nat])
    BY QueueOf DEF Init
  <2>2. conn \in [packetIndex : Nat, playbackTimeMs : Nat]
    BY DEF Init
  <2>3. heard \in [k : Index, start : Nat] /\ shown \in [rendered : Index, skipped : Index]
    BY DEF Init, Index
  <2> QED BY <2>1, <2>2, <2>3 DEF Init, TypeOK, Index
<1>2. Effective(0) \in Nat
  BY EffectiveIs
<1>3. Paced
  BY <1>2 DEF Init, Paced, Interval
<1>4. Counted /\ SentOnTime /\ ClockIsBehind /\ ScheduleGrows /\ TimerMeetsClock
  BY DEF Init, Counted, SentOnTime, ClockIsBehind, ScheduleGrows, TimerMeetsClock, NoAudio, NoPending
<1> QED BY <1>1, <1>3, <1>4 DEF IInv, Shape

----------------------------------------------------------------------------
(* The server.                                                             *)

LEMMA Types ==
    ASSUME TypeOK
    PROVE  /\ now \in Nat /\ stall \in Nat /\ due \in BOOLEAN /\ gone \in BOOLEAN
           /\ conn.packetIndex \in Nat /\ conn.playbackTimeMs \in Nat
           /\ started \in Int /\ started >= -1
           /\ player.basePts \in Int /\ player.baseTime \in Nat /\ player.nextPlayTime \in Nat
           /\ sync.pending \in Int /\ sync.deadline \in Nat
           /\ sync.pending # -1 => sync.pending \in Nat
           /\ heard.k \in Int /\ heard.start \in Nat /\ (heard.k # -1 => heard.k \in Nat)
BY DEF TypeOK, Index, NoAudio, NoPending

LEMMA LinkTypes ==
    ASSUME TypeOK
    PROVE  /\ \A i \in DOMAIN link : link[i].k \in Nat /\ link[i].at \in Nat
           /\ \A m \in Arriving :
                 /\ m \in [k : Nat, at : Nat] /\ m.k \in Nat /\ m = link[1] /\ 1 \in DOMAIN link
                 /\ Tail(link) \in Seq([k : Nat, at : Nat]) /\ ~gone
           /\ link # <<>> => \A i \in DOMAIN Tail(link) : i + 1 \in DOMAIN link /\ Tail(link)[i] = link[i + 1]
<1>1. link \in Seq([k : Nat, at : Nat])
  BY DEF TypeOK
<1>2. \A i \in DOMAIN link : link[i] \in [k : Nat, at : Nat]
  BY <1>1, QueueOf
<1>3. link # <<>> => /\ Tail(link) \in Seq([k : Nat, at : Nat]) /\ Head(link) = link[1] /\ 1 \in DOMAIN link
                     /\ \A i \in DOMAIN Tail(link) : i + 1 \in DOMAIN link /\ Tail(link)[i] = link[i + 1]
  BY <1>1, QueueOf
<1>4. \A m \in [k : Nat, at : Nat] : m.k \in Nat /\ m.at \in Nat
  OBVIOUS
<1> QED BY <1>2, <1>3, <1>4 DEF Arriving

LEMMA TickStep ==
    ASSUME IInv, Tick
    PROVE  IInv'
<1>1. /\ now' = now + Interval /\ due' = TRUE /\ stall' = IF due THEN stall + Interval ELSE stall
      /\ UNCHANGED <<conn, link, started, player, sync, heard, shown, gone>>
  BY DEF Tick, pageVars
<1>2. TypeOK
  BY DEF IInv
<1>3. TypeOK'
  BY <1>1, <1>2, Types DEF TypeOK, Interval
<1>4. Counted' /\ Paced'
  BY <1>1, <1>2, Types, EffectiveIs DEF IInv, Shape, Counted, Paced, Interval
<1>5. SentOnTime'
  <2>1. \A i \in DOMAIN link : Effective(link[i].k) <= now /\ Effective(link[i].k) \in Nat
    BY <1>2, LinkTypes, EffectiveIs DEF IInv, Shape, SentOnTime
  <2>2. \A i \in DOMAIN link : Effective(link[i].k) <= now + Interval
    BY <1>2, <2>1, Types DEF Interval
  <2> QED BY <1>1, <2>2 DEF SentOnTime
<1>6. ClockIsBehind' /\ ScheduleGrows'
  BY <1>1, <1>2, Types, PacketIs DEF IInv, Shape, ClockIsBehind, ScheduleGrows, Interval
<1>7. TimerMeetsClock'
  <2>1. sync.pending # -1 => Packet(sync.pending).ptsMs \in Nat
    BY <1>2, Types, PacketIs
  <2> QED BY <1>1, <1>2, <2>1, Types
          DEF IInv, Shape, TimerMeetsClock, Active, Ahead, Clock, currentTime, Interval
<1> QED BY <1>3, <1>4, <1>5, <1>6, <1>7 DEF IInv, Shape

LEMMA OnTimerStep ==
    ASSUME IInv, OnTimer
    PROVE  IInv'
<1> DEFINE k == conn.packetIndex
           t == conn.playbackTimeMs
           n == Stops(k, t)
           more == [i \in 1..(n - k) |-> [k |-> k + i - 1, at |-> now]]
<1>1. TypeOK
  BY DEF IInv
<1>2. /\ due /\ due' = FALSE /\ conn' = [packetIndex |-> n, playbackTimeMs |-> t + Interval]
      /\ link' = link \o more /\ UNCHANGED <<now, stall, started, player, sync, heard, shown, gone>>
  BY DEF OnTimer, pageVars
<1>3. k \in Nat /\ t \in Nat /\ now \in Nat /\ stall \in Nat
  BY <1>1, Types
<1>4. n \in Nat /\ n >= k /\ Effective(n) > t /\ \A j \in k..(n - 1) : Effective(j) <= t
  BY <1>3, StopsIs
<1>5. now = t + stall + Interval
  BY <1>2 DEF IInv, Shape, Counted
<1> HIDE DEF k, t, n
<1>6. more \in Seq([k : Nat, at : Nat]) /\ Len(more) = n - k
      /\ \A i \in 1..(n - k) : more[i].k = k + i - 1 /\ k + i - 1 \in k..(n - 1)
  BY <1>3, <1>4
<1>7. link \in Seq([k : Nat, at : Nat])
  BY <1>1 DEF TypeOK
<1> HIDE DEF more
<1>8. link' \in Seq([k : Nat, at : Nat])
  BY <1>2, <1>6, <1>7
<1>9. TypeOK'
  <2>1. conn' \in [packetIndex : Nat, playbackTimeMs : Nat]
    BY <1>2, <1>3, <1>4 DEF Interval
  <2> QED BY <1>1, <1>2, <1>8, <2>1 DEF TypeOK
<1>10. Counted' /\ Paced'
  <2>1. Counted'
    BY <1>2, <1>3, <1>5 DEF Counted, Interval
  <2>2. Effective(n) \in Nat
    BY <1>4, EffectiveIs
  <2>3. Effective(n) + Interval + stall > now
    BY <1>3, <1>4, <1>5, <2>2 DEF Interval
  <2>4. n > 0 => Effective(n - 1) < now
    <3>1. CASE n = k
      BY <1>2, <3>1 DEF IInv, Shape, Paced, k
    <3>2. CASE n > k
      <4>1. n - 1 \in k..(n - 1) /\ n - 1 \in Nat
        BY <1>3, <1>4, <3>2
      <4> QED BY <1>3, <1>4, <1>5, <4>1, EffectiveIs DEF Interval
    <3> QED BY <1>3, <1>4, <3>1, <3>2
  <2>5. conn'.packetIndex = n
    BY <1>2
  <2> QED BY <1>2, <2>1, <2>3, <2>4, <2>5 DEF Paced
<1>11. SentOnTime'
  <2>1. \A i \in DOMAIN link' : Effective(link'[i].k) <= now
    <3>1. SUFFICES ASSUME NEW i \in DOMAIN link' PROVE Effective(link'[i].k) <= now
      OBVIOUS
    <3>2. \/ i \in DOMAIN link /\ link'[i] = link[i]
          \/ i - Len(link) \in 1..(n - k) /\ link'[i] = more[i - Len(link)]
      BY <1>2, <1>6, <1>7
    <3>3. CASE i \in DOMAIN link /\ link'[i] = link[i]
      BY <3>3 DEF IInv, Shape, SentOnTime
    <3>4. CASE i - Len(link) \in 1..(n - k) /\ link'[i] = more[i - Len(link)]
      <4>1. link'[i].k \in k..(n - 1)
        BY <1>6, <3>4
      <4>2. Effective(link'[i].k) <= t /\ Effective(link'[i].k) \in Nat
        BY <1>3, <1>4, <4>1, EffectiveIs
      <4> QED BY <1>3, <1>5, <4>2 DEF Interval
    <3> QED BY <3>2, <3>3, <3>4
  <2> QED BY <1>2, <2>1 DEF SentOnTime
<1>12. ClockIsBehind' /\ ScheduleGrows' /\ TimerMeetsClock'
  BY <1>2 DEF IInv, Shape, ClockIsBehind, ScheduleGrows, TimerMeetsClock, Active, Ahead, Clock, currentTime
<1> QED BY <1>9, <1>10, <1>11, <1>12 DEF IInv, Shape

----------------------------------------------------------------------------
(* The page.                                                               *)

\* A page's step that leaves the server alone and takes at most one packet.
LEMMA PageKeeps ==
    ASSUME IInv, UNCHANGED <<now, serverVars>>,
           \/ UNCHANGED link
           \/ link' = <<>>
           \/ Arriving # {} /\ link' = Tail(link)
    PROVE  /\ link' \in Seq([k : Nat, at : Nat])
           /\ Counted' /\ SentOnTime' /\ Paced'
<1>1. TypeOK
  BY DEF IInv
<1>2. link \in Seq([k : Nat, at : Nat])
  BY <1>1 DEF TypeOK
<1>3. link' \in Seq([k : Nat, at : Nat])
  BY <1>2, QueueOf DEF Arriving
<1>4. \A i \in DOMAIN link' : \E j \in DOMAIN link : link'[i] = link[j]
  <2>1. CASE UNCHANGED link
    BY <2>1
  <2>2. CASE link' = <<>>
    BY <2>2
  <2>3. CASE Arriving # {} /\ link' = Tail(link)
    BY <1>1, <2>3, LinkTypes DEF Arriving
  <2> QED BY <2>1, <2>2, <2>3
<1>5. SentOnTime'
  BY <1>4 DEF IInv, Shape, SentOnTime
<1>6. Counted' /\ Paced'
  BY DEF IInv, Shape, Counted, Paced, serverVars
<1> QED BY <1>3, <1>5, <1>6

\* What an arriving packet is, and that its time has come.
LEMMA ArrivingIs ==
    ASSUME IInv, NEW m \in Arriving
    PROVE  /\ m.k \in Nat /\ ~gone /\ Effective(m.k) <= now
           /\ Packet(m.k).ptsMs \in Nat /\ Packet(m.k).durMs \in Nat /\ Packets[1].ptsMs \in Nat
           /\ Packet(m.k).ptsMs - Packets[1].ptsMs <= now
<1>1. m.k \in Nat /\ ~gone /\ m = link[1] /\ 1 \in DOMAIN link
  BY LinkTypes DEF IInv
<1>2. Effective(m.k) <= now
  BY <1>1 DEF IInv, Shape, SentOnTime
<1>3. now \in Nat
  BY Types DEF IInv
<1> QED BY <1>1, <1>2, <1>3, PacketIs, EffectiveIs, EffectiveFirst

\* Where a frame is put in the schedule.
LEMMA PlayTimeIs ==
    ASSUME IInv, NEW m \in Arriving
    PROVE  LET p == Packet(m.k) IN
           /\ currentTime \in Nat /\ currentTime = IF started = -1 THEN 0 ELSE now - started
           /\ PlayTime(p) \in Nat /\ PlayTime(p) >= currentTime
           /\ player.basePts >= 0 => /\ Based(p) = player /\ PlayTime(p) >= player.nextPlayTime
           /\ player.basePts < 0 => Based(p).basePts = p.ptsMs /\ Based(p).baseTime = currentTime
           /\ Based(p) \in [basePts : Nat, baseTime : Nat, nextPlayTime : Nat]
<1> DEFINE p == Packet(m.k)
<1>1. currentTime \in Nat
  BY Types DEF IInv, Shape, ClockIsBehind, currentTime
<1>2. p.ptsMs \in Nat
  BY ArrivingIs
<1>3. player.basePts >= 0 => player \in [basePts : Nat, baseTime : Nat, nextPlayTime : Nat]
  BY DEF IInv, TypeOK, NoAudio
<1> HIDE DEF p
<1>4. Based(p) \in [basePts : Nat, baseTime : Nat, nextPlayTime : Nat]
  BY <1>1, <1>2, <1>3 DEF Based
<1>5. Based(p).nextPlayTime \in Nat
  BY <1>4
<1>6. PlayTime(p) \in Nat /\ PlayTime(p) >= currentTime /\ PlayTime(p) >= Based(p).nextPlayTime
  BY <1>1, <1>5 DEF PlayTime
<1>7. player.basePts >= 0 => Based(p) = player
  BY DEF Based
<1>8. player.basePts < 0 => Based(p).basePts = p.ptsMs /\ Based(p).baseTime = currentTime
  <2>1. player.basePts \in Int
    BY Types DEF IInv
  <2> QED BY <2>1 DEF Based
<1> QED BY <1>1, <1>4, <1>6, <1>7, <1>8 DEF currentTime, p

LEMMA PlayFrameStep ==
    ASSUME IInv, PlayFrame
    PROVE  IInv'
<1>1. PICK m \in Arriving :
         /\ link' = Tail(link) /\ UNCHANGED <<now, serverVars, started, sync, shown, gone>>
         /\ player' = [Based(Packet(m.k)) EXCEPT !.nextPlayTime = PlayTime(Packet(m.k)) + Packet(m.k).durMs]
         /\ heard' = [k |-> m.k, start |-> PlayTime(Packet(m.k))]
  BY DEF PlayFrame
<1> DEFINE p == Packet(m.k)
<1>2. link' \in Seq([k : Nat, at : Nat]) /\ Counted' /\ SentOnTime' /\ Paced'
  BY <1>1, PageKeeps
<1>3. /\ m.k \in Nat /\ p.ptsMs \in Nat /\ p.durMs \in Nat /\ Packets[1].ptsMs \in Nat
      /\ p.ptsMs - Packets[1].ptsMs <= now
  BY ArrivingIs
<1>4. /\ PlayTime(p) \in Nat /\ currentTime \in Nat
      /\ Based(p) \in [basePts : Nat, baseTime : Nat, nextPlayTime : Nat]
  BY PlayTimeIs
<1>5. /\ player' \in [basePts : Nat, baseTime : Nat, nextPlayTime : Nat]
      /\ player'.basePts = Based(p).basePts /\ player'.baseTime = Based(p).baseTime
      /\ player'.nextPlayTime = PlayTime(p) + p.durMs /\ player'.basePts >= 0
  BY <1>1, <1>3, <1>4
<1>6. TypeOK'
  <2>1. heard' \in [k : Index, start : Nat]
    BY <1>1, <1>3, <1>4 DEF Index
  <2> QED BY <1>1, <1>2, <1>5, <2>1 DEF IInv, TypeOK, serverVars
<1>7. ClockIsBehind'
  <2>1. player.basePts \in Int /\ now \in Nat /\ started \in Int
    BY Types DEF IInv
  <2>2. CASE player.basePts >= 0
    <3>1. player'.basePts = player.basePts /\ player'.baseTime = player.baseTime
      BY <1>5, <2>2, PlayTimeIs
    <3> QED BY <1>1, <2>2, <3>1 DEF IInv, Shape, ClockIsBehind
  <2>3. CASE player.basePts < 0
    <3>1. player'.basePts = p.ptsMs /\ player'.baseTime = IF started = -1 THEN 0 ELSE now - started
      BY <1>5, <2>3, PlayTimeIs
    <3>2. started + (now - started) = now
      BY <2>1
    <3> QED BY <1>1, <1>3, <3>1, <3>2 DEF IInv, Shape, ClockIsBehind
  <2> QED BY <2>1, <2>2, <2>3
<1>8. ScheduleGrows'
  <2>1. heard'.start = PlayTime(p) /\ heard'.k = m.k
    BY <1>1
  <2>2. player'.nextPlayTime >= PlayTime(p) + p.durMs
    BY <1>3, <1>4, <1>5
  <2> QED BY <1>5, <2>1, <2>2 DEF ScheduleGrows
<1>9. TimerMeetsClock'
  <2>1. CASE sync.pending = -1
    BY <1>1, <2>1 DEF TimerMeetsClock
  <2>2. CASE sync.pending # -1
    <3>1. Active /\ player'.basePts = player.basePts /\ player'.baseTime = player.baseTime
      BY <1>5, <2>2, PlayTimeIs DEF IInv, Shape, TimerMeetsClock, Active
    <3> QED BY <1>1, <2>2, <3>1 DEF IInv, Shape, TimerMeetsClock, Active, Ahead, Clock, currentTime
  <2> QED BY <2>1, <2>2
<1> QED BY <1>2, <1>6, <1>7, <1>8, <1>9 DEF IInv, Shape

LEMMA AudioStartsStep ==
    ASSUME IInv, AudioStarts
    PROVE  IInv'
<1>1. started = -1 /\ started' = now /\ UNCHANGED <<now, serverVars, link, player, sync, heard, shown, gone>>
  BY DEF AudioStarts
<1>2. link' \in Seq([k : Nat, at : Nat]) /\ Counted' /\ SentOnTime' /\ Paced'
  BY <1>1, PageKeeps
<1>3. TypeOK' /\ now \in Nat
  BY <1>1 DEF IInv, TypeOK, serverVars, Index
<1>4. ClockIsBehind'
  BY <1>1, <1>3 DEF IInv, Shape, ClockIsBehind
<1>5. ScheduleGrows'
  BY <1>1 DEF IInv, Shape, ScheduleGrows
<1>6. TimerMeetsClock'
  BY <1>1 DEF IInv, Shape, TimerMeetsClock, Active
<1> QED BY <1>2, <1>3, <1>4, <1>5, <1>6 DEF IInv, Shape

\* Rendering and skipping move no clock, and neither does a missing frame.
LEMMA ShowStep ==
    ASSUME IInv, Render \/ Skip \/ NoFrame
    PROVE  IInv'
<1>1. /\ Arriving # {} /\ link' = Tail(link) /\ UNCHANGED <<now, serverVars, started, player, sync, heard, gone>>
      /\ \/ UNCHANGED shown
         \/ \E m \in Arriving : shown' \in {[shown EXCEPT !.rendered = m.k], [shown EXCEPT !.skipped = m.k]}
  BY DEF Render, Skip, NoFrame, pageVars
<1>2. link' \in Seq([k : Nat, at : Nat]) /\ Counted' /\ SentOnTime' /\ Paced'
  BY <1>1, PageKeeps
<1>3. shown' \in [rendered : Index, skipped : Index]
  <2>1. \A m \in Arriving : m.k \in Nat
    BY LinkTypes DEF IInv
  <2>2. shown \in [rendered : Index, skipped : Index]
    BY DEF IInv, TypeOK
  <2> QED BY <1>1, <2>1, <2>2 DEF Index
<1>4. TypeOK'
  BY <1>1, <1>2, <1>3 DEF IInv, TypeOK, serverVars
<1>5. ClockIsBehind' /\ ScheduleGrows' /\ TimerMeetsClock'
  BY <1>1 DEF IInv, Shape, ClockIsBehind, ScheduleGrows, TimerMeetsClock, Active, Ahead, Clock, currentTime
<1> QED BY <1>2, <1>4, <1>5 DEF IInv, Shape

LEMMA DelayStep ==
    ASSUME IInv, Delay
    PROVE  IInv'
<1>1. PICK m \in Arriving :
         /\ Delays(Packet(m.k)) /\ link' = Tail(link)
         /\ sync' = [pending |-> m.k, deadline |-> now + Ahead(Packet(m.k))]
         /\ UNCHANGED <<now, serverVars, started, player, heard, shown, gone>>
  BY DEF Delay
<1>2. link' \in Seq([k : Nat, at : Nat]) /\ Counted' /\ SentOnTime' /\ Paced'
  BY <1>1, PageKeeps
<1>3. m.k \in Nat /\ Packet(m.k).ptsMs \in Nat
  BY ArrivingIs
<1>4. Active /\ Ahead(Packet(m.k)) \in Int /\ Ahead(Packet(m.k)) > 30 /\ now \in Nat
  <2>1. Active /\ Ahead(Packet(m.k)) > 30
    BY <1>1 DEF Delays, SYNC_AHEAD_THRESHOLD_MS
  <2>2. /\ now \in Nat /\ started \in Int /\ player.basePts \in Int /\ player.baseTime \in Nat
    BY Types DEF IInv
  <2>3. Clock \in Int
    BY <2>2 DEF Clock, currentTime
  <2> QED BY <1>3, <2>1, <2>2, <2>3 DEF Ahead
<1>5. sync' \in [pending : Nat, deadline : Nat]
  BY <1>1, <1>3, <1>4
<1>6. TypeOK'
  BY <1>1, <1>2, <1>5 DEF IInv, TypeOK, serverVars
<1>7. ClockIsBehind' /\ ScheduleGrows'
  BY <1>1 DEF IInv, Shape, ClockIsBehind, ScheduleGrows
<1>8. TimerMeetsClock'
  BY <1>1, <1>4 DEF TimerMeetsClock, Active, Ahead, Clock, currentTime
<1> QED BY <1>2, <1>6, <1>7, <1>8 DEF IInv, Shape

LEMMA DelayTimerStep ==
    ASSUME IInv, DelayTimer
    PROVE  IInv'
<1>1. /\ sync.pending # -1 /\ sync' = NoPending /\ shown' = [shown EXCEPT !.rendered = sync.pending]
      /\ UNCHANGED <<now, serverVars, link, started, player, heard, gone>>
  BY DEF DelayTimer
<1>2. link' \in Seq([k : Nat, at : Nat]) /\ Counted' /\ SentOnTime' /\ Paced'
  BY <1>1, PageKeeps
<1>3. shown' \in [rendered : Index, skipped : Index]
  BY <1>1, Types DEF IInv, TypeOK, Index
<1>4. TypeOK'
  BY <1>1, <1>2, <1>3 DEF IInv, TypeOK, serverVars
<1>5. ClockIsBehind' /\ ScheduleGrows' /\ TimerMeetsClock'
  BY <1>1 DEF IInv, Shape, ClockIsBehind, ScheduleGrows, TimerMeetsClock, NoPending
<1> QED BY <1>2, <1>4, <1>5 DEF IInv, Shape

LEMMA DestroyStep ==
    ASSUME IInv, Destroy
    PROVE  IInv'
<1>1. /\ gone' = TRUE /\ player' = NoAudio /\ sync' = NoPending /\ link' = <<>>
      /\ UNCHANGED <<now, serverVars, started, heard, shown>>
  BY DEF Destroy
<1>2. link' \in Seq([k : Nat, at : Nat]) /\ Counted' /\ SentOnTime' /\ Paced'
  BY <1>1, PageKeeps
<1>3. TypeOK'
  BY <1>1, <1>2 DEF IInv, TypeOK, serverVars
<1>4. ClockIsBehind' /\ ScheduleGrows' /\ TimerMeetsClock'
  BY <1>1 DEF IInv, Shape, ClockIsBehind, ScheduleGrows, TimerMeetsClock, NoPending, NoAudio
<1> QED BY <1>2, <1>3, <1>4 DEF IInv, Shape

LEMMA IInvStep == IInv /\ [Next]_vars => IInv'
<1> SUFFICES ASSUME IInv, [Next]_vars PROVE IInv'
  OBVIOUS
<1>1. CASE UNCHANGED vars
  BY <1>1 DEF IInv, Shape, TypeOK, Counted, SentOnTime, Paced, ClockIsBehind, ScheduleGrows, TimerMeetsClock,
              Active, Ahead, Clock, currentTime, vars, serverVars, pageVars
<1>2. CASE Next
  BY <1>2, TickStep, OnTimerStep, AudioStartsStep, PlayFrameStep, ShowStep, DelayStep, DelayTimerStep,
     DestroyStep DEF Next
<1> QED BY <1>1, <1>2

\* Server, link, audio schedule and pending picture share one clock, through
\* late timers, slow links, a context that starts late and disconnect().
THEOREM Invariance == Spec => []IInv
BY InitInvariant, IInvStep, PTL DEF Spec

----------------------------------------------------------------------------
(* What follows from it.                                                   *)

\* Every time and number stays within its type; no delay is negative.
THEOREM TypeCorrect == Spec => []TypeOK
BY Invariance, PTL DEF IInv

\* OnTimerMp4 sends no packet before its time, and none later than an interval
\* and the lost expirations, over any number of passes through any file.
THEOREM PacedHolds == Spec => []Paced
<1>1. IInv => Paced
  BY DEF IInv, Shape
<1> QED BY <1>1, Invariance, PTL

\* AudioPlayer schedules each frame behind the one before, never in the past.
THEOREM AudioIsSequentialHolds == Spec => AudioIsSequential
<1>1. IInv /\ [Next]_vars
        => [heard' # heard =>
              /\ heard'.start >= currentTime
              /\ heard.k # -1 => heard'.start >= heard.start + Packet(heard.k).durMs]_vars
  <2> SUFFICES ASSUME IInv, Next, heard' # heard
               PROVE  /\ heard'.start >= currentTime
                      /\ heard.k # -1 => heard'.start >= heard.start + Packet(heard.k).durMs
    BY DEF vars, pageVars
  <2>1. PlayFrame
    BY DEF Next, Tick, OnTimer, AudioStarts, Render, Skip, Delay, DelayTimer, NoFrame, Destroy, pageVars
  <2>2. PICK m \in Arriving : heard' = [k |-> m.k, start |-> PlayTime(Packet(m.k))]
    BY <2>1 DEF PlayFrame
  <2>3. heard'.start = PlayTime(Packet(m.k)) /\ heard'.start \in Nat /\ heard'.start >= currentTime
    BY <2>2, PlayTimeIs
  <2>4. ASSUME heard.k # -1 PROVE heard'.start >= heard.start + Packet(heard.k).durMs
    <3>1. player.basePts >= 0 /\ player.nextPlayTime >= heard.start + Packet(heard.k).durMs
      BY <2>4, ArrivingIs DEF IInv, Shape, ScheduleGrows
    <3>2. heard'.start >= player.nextPlayTime
      BY <2>3, <3>1, PlayTimeIs
    <3>3. heard.start \in Nat /\ Packet(heard.k).durMs \in Nat /\ player.nextPlayTime \in Nat
      BY <2>4, Types, PacketIs DEF IInv
    <3> QED BY <2>3, <3>1, <3>2, <3>3
  <2> QED BY <2>3, <2>4
<1> QED BY <1>1, Invariance, PTL DEF Spec, AudioIsSequential

\* AVSync shows no frame more than 30 ms early, nor does a timer it has set.
THEOREM NotShownEarlyHolds == Spec => NotShownEarly
<1>1. IInv /\ [Next]_vars
        => [shown'.rendered # shown.rendered /\ Active
              => Ahead(Packet(shown'.rendered)) <= SYNC_AHEAD_THRESHOLD_MS]_vars
  <2> SUFFICES ASSUME IInv, Next, shown'.rendered # shown.rendered, Active
               PROVE  Ahead(Packet(shown'.rendered)) <= SYNC_AHEAD_THRESHOLD_MS
    BY DEF vars, pageVars
  <2>1. shown \in [rendered : Index, skipped : Index]
    BY DEF IInv, TypeOK
  <2>2. Render \/ DelayTimer
    <3>1. ~Skip
      BY <2>1 DEF Skip
    <3> QED BY <3>1 DEF Next, Tick, OnTimer, AudioStarts, PlayFrame, Delay, NoFrame, Destroy, pageVars
  <2>3. \A k \in Nat : Ahead(Packet(k)) \in Int
    BY Types, PacketIs DEF IInv, Ahead, Clock, currentTime
  <2>4. CASE Render
    <3>1. PICK m \in Arriving : ~Delays(Packet(m.k)) /\ shown' = [shown EXCEPT !.rendered = m.k]
      BY <2>4 DEF Render
    <3>2. shown'.rendered = m.k /\ m.k \in Nat
      BY <2>1, <3>1, ArrivingIs
    <3> QED BY <2>3, <3>1, <3>2 DEF Delays, SYNC_AHEAD_THRESHOLD_MS
  <2>5. CASE DelayTimer
    <3>1. sync.pending # -1 /\ now >= sync.deadline /\ shown'.rendered = sync.pending
      BY <2>1, <2>5 DEF DelayTimer
    <3>2. sync.deadline = now + Ahead(Packet(sync.pending)) /\ sync.pending \in Nat /\ now \in Nat
      BY <3>1, Types DEF IInv, Shape, TimerMeetsClock
    <3> QED BY <2>3, <3>1, <3>2 DEF SYNC_AHEAD_THRESHOLD_MS
  <2> QED BY <2>2, <2>4, <2>5
<1> QED BY <1>1, Invariance, PTL DEF Spec, NotShownEarly

\* In the first pass AVSync skips no frame that comes within 60 ms of its time,
\* whichever audio frame set the clock and whenever the context began to run.
THEOREM FirstPassSkipsOnlyLateHolds == Spec => FirstPassSkipsOnlyLate
<1>1. IInv /\ [Next]_vars
        => [shown'.skipped # shown.skipped /\ shown'.skipped < PacketCount
              => SkipsOnlyLate(shown'.skipped)]_vars
  <2> SUFFICES ASSUME IInv, Next, shown'.skipped # shown.skipped, shown'.skipped < PacketCount
               PROVE  SkipsOnlyLate(shown'.skipped)
    BY DEF vars, pageVars
  <2>1. shown \in [rendered : Index, skipped : Index]
    BY DEF IInv, TypeOK
  <2>2. Skip
    <3>1. ~Render /\ ~DelayTimer
      BY <2>1 DEF Render, DelayTimer
    <3> QED BY <3>1 DEF Next, Tick, OnTimer, AudioStarts, PlayFrame, Delay, NoFrame, Destroy, pageVars
  <2>3. PICK m \in Arriving : Skips(Packet(m.k)) /\ shown' = [shown EXCEPT !.skipped = m.k]
    BY <2>2 DEF Skip
  <2>4. shown'.skipped = m.k /\ m.k \in Nat
    BY <2>1, <2>3, ArrivingIs
  <2>5. /\ Packet(m.k).ptsMs \in Nat /\ Packets[1].ptsMs \in Nat
        /\ Effective(m.k) = Packet(m.k).ptsMs - Packets[1].ptsMs
    BY <2>4, ArrivingIs, EffectiveFirst
  <2>6. /\ now \in Nat /\ started \in Int /\ started # -1
        /\ player.basePts \in Int /\ player.basePts >= 0 /\ player.baseTime \in Nat
    BY <2>3, Types DEF IInv, Skips, Active
  <2>7. Clock = now - started - player.baseTime + player.basePts
    BY <2>6 DEF Clock, currentTime
  <2>8. player.basePts - Packets[1].ptsMs <= started + player.baseTime
    BY <2>6 DEF IInv, Shape, ClockIsBehind
  <2>9. Packet(m.k).ptsMs - Clock < -60
    BY <2>3 DEF Skips, Ahead, SYNC_BEHIND_THRESHOLD_MS
  <2> QED BY <2>4, <2>5, <2>6, <2>7, <2>8, <2>9 DEF SkipsOnlyLate, SYNC_BEHIND_THRESHOLD_MS
<1> QED BY <1>1, Invariance, PTL DEF Spec, FirstPassSkipsOnlyLate

============================================================================
