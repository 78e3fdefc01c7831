--------------------------- MODULE MediaPlayback ---------------------------
(***************************************************************************)
(* Time in MP4 mode, from the server's timer to the screen: OnTimerMp4     *)
(* paces the packets of the file and starts again at its end, the link     *)
(* and the decoder delay them, AudioPlayer schedules the audio, and AVSync *)
(* shows, delays or skips the video by the audio clock.                    *)
(*                                                                         *)
(* Times are milliseconds; now moves by the 10 ms of the server's timer.   *)
(* Packet k of a connection counts on over all passes through the file.    *)
(* The decoder gives one frame a packet, or none.                          *)
(***************************************************************************)
EXTENDS Integers, Sequences, FiniteSets

CONSTANTS
    Packets,      \* the file: records [type, ptsMs, durMs], sorted by ptsMs
    MaxTime,      \* bound: the behaviour ends here
    MaxStall,     \* bound: how far the server's loop falls behind, in all
    MaxDelay,     \* bound: from sending a packet to its frame, apart from order
    MaxLate,      \* bound: how late a timer of the page may be
    MayDrop       \* bound: whether the decoder may give no frame

ASSUME PacketsAssumption ==
    /\ Packets \in Seq([type : {"audio", "video"}, ptsMs : Nat, durMs : Nat])
    /\ Packets # <<>>
    /\ \A i, j \in 1..Len(Packets) : i <= j => Packets[i].ptsMs <= Packets[j].ptsMs
ASSUME BoundsAssumption ==
    /\ MaxTime \in Nat /\ MaxStall \in Nat /\ MaxDelay \in Nat /\ MaxLate \in Nat
    /\ MayDrop \in BOOLEAN

Interval == 10
SYNC_AHEAD_THRESHOLD_MS == 30
SYNC_BEHIND_THRESHOLD_MS == 60

VARIABLES
    now,         \* wall clock
    due,         \* the timer has expired since it was last read
    stall,       \* time lost to expirations that were read together
    conn,        \* packetIndex and playbackTimeMs of the connection
    link,        \* packets on their way: [k, at]
    started,     \* when the AudioContext began to run (-1: it is suspended)
    player,      \* AudioPlayer: basePts (-1: no audio yet), baseTime, nextPlayTime
    sync,        \* AVSync: the pending frame (-1: none) and its timer
    heard,       \* the audio frame scheduled last: [k, start]
    shown,       \* the frames rendered or skipped last
    gone         \* disconnect() was called

serverVars == <<due, stall, conn>>
pageVars == <<started, player, sync, heard, shown, gone>>
vars == <<now, serverVars, link, pageVars>>

NoAudio == [basePts |-> -1, baseTime |-> 0, nextPlayTime |-> 0]
NoPending == [pending |-> -1, deadline |-> 0]

Init ==
    /\ now = 0 /\ due = FALSE /\ stall = 0
    /\ conn = [packetIndex |-> 0, playbackTimeMs |-> 0]
    /\ link = <<>>
    /\ started \in {-1, 0}
    /\ player = NoAudio /\ sync = NoPending
    /\ heard = [k |-> -1, start |-> 0]
    /\ shown = [rendered |-> -1, skipped |-> -1]
    /\ gone = FALSE

----------------------------------------------------------------------------
(* The file, played over and over.                                         *)

PacketCount == Len(Packets)
Packet(k) == Packets[(k % PacketCount) + 1]

LoopDuration ==
    LET d == Packets[PacketCount].ptsMs - Packets[1].ptsMs IN IF d > 0 THEN d ELSE 1

\* effectivePtsMs
Effective(k) ==
    Packet(k).ptsMs - Packets[1].ptsMs + (k \div PacketCount) * LoopDuration

\* Where the sending loop stops: Effective(k) is at least k \div PacketCount.
Stops(from, t) ==
    CHOOSE k \in from..(from + PacketCount * (t + 1)) :
        Effective(k) > t /\ \A j \in from..(k - 1) : Effective(j) <= t

----------------------------------------------------------------------------
(* The server.                                                             *)

\* Time passes, unless something that is bounded would be too late.
Tick ==
    /\ now < MaxTime
    /\ due => stall < MaxStall
    /\ link # <<>> => now < Head(link).at + MaxDelay
    /\ sync.pending # -1 => now < sync.deadline + MaxLate
    /\ now' = now + Interval
    /\ due' = TRUE
    /\ stall' = IF due THEN stall + Interval ELSE stall
    /\ UNCHANGED <<conn, link, pageVars>>

\* Faulty variant: one packet per expiration.
OnTimerOnePacket ==
    /\ due
    /\ due' = FALSE
    /\ LET k == conn.packetIndex
           n == IF Effective(k) <= conn.playbackTimeMs THEN k + 1 ELSE k
       IN  /\ conn' = [packetIndex |-> n, playbackTimeMs |-> conn.playbackTimeMs + Interval]
           /\ link' = link \o [i \in 1..(n - k) |-> [k |-> k, at |-> now]]
    /\ UNCHANGED <<now, stall, pageVars>>

\* OnTimer, OnTimerMp4: every packet whose time has come.
OnTimer ==
    /\ due
    /\ due' = FALSE
    /\ LET k == conn.packetIndex
           n == Stops(k, conn.playbackTimeMs)
       IN  /\ conn' = [packetIndex |-> n, playbackTimeMs |-> conn.playbackTimeMs + Interval]
           /\ link' = link \o [i \in 1..(n - k) |-> [k |-> k + i - 1, at |-> now]]
    /\ UNCHANGED <<now, stall, pageVars>>

----------------------------------------------------------------------------
(* AudioPlayer.                                                            *)

currentTime == IF started = -1 THEN 0 ELSE now - started
Clock == currentTime - player.baseTime + player.basePts
Active == started # -1 /\ player.basePts >= 0

\* The browser lets the context run.
AudioStarts ==
    /\ started = -1
    /\ started' = now
    /\ UNCHANGED <<now, serverVars, link, player, sync, heard, shown, gone>>

\* The base is set by the first frame; nothing is scheduled in the past.
Based(p) ==
    IF player.basePts >= 0 THEN player
    ELSE [basePts |-> p.ptsMs, baseTime |-> currentTime, nextPlayTime |-> currentTime]

\* Faulty variant: frames are played as they come.
PlayTimeAtOnce(p) == currentTime

PlayTime(p) ==
    IF Based(p).nextPlayTime < currentTime THEN currentTime ELSE Based(p).nextPlayTime

Arriving == IF link = <<>> \/ gone THEN {} ELSE {Head(link)}

PlayFrame ==
    \E m \in Arriving :
        LET p == Packet(m.k) IN
        /\ p.type = "audio"
        /\ link' = Tail(link)
        /\ player' = [Based(p) EXCEPT !.nextPlayTime = PlayTime(p) + p.durMs]
        /\ heard' = [k |-> m.k, start |-> PlayTime(p)]
        /\ UNCHANGED <<now, serverVars, started, sync, shown, gone>>

----------------------------------------------------------------------------
(* AVSync.                                                                 *)

Ahead(p) == p.ptsMs - Clock

\* Faulty variant: the thresholds are mixed up.
SkipsSoon(p) == Active /\ Ahead(p) < -SYNC_AHEAD_THRESHOLD_MS

Delays(p) == Active /\ Ahead(p) > SYNC_AHEAD_THRESHOLD_MS
Skips(p) == Active /\ Ahead(p) < -SYNC_BEHIND_THRESHOLD_MS

Render ==
    \E m \in Arriving :
        LET p == Packet(m.k) IN
        /\ p.type = "video" /\ ~Delays(p) /\ ~Skips(p)
        /\ link' = Tail(link)
        /\ shown' = [shown EXCEPT !.rendered = m.k]
        /\ UNCHANGED <<now, serverVars, started, player, sync, heard, gone>>

Skip ==
    \E m \in Arriving :
        LET p == Packet(m.k) IN
        /\ p.type = "video" /\ Skips(p)
        /\ link' = Tail(link)
        /\ shown' = [shown EXCEPT !.skipped = m.k]
        /\ UNCHANGED <<now, serverVars, started, player, sync, heard, gone>>

\* Faulty variant: the timer of the frame that is replaced still runs.
DelayKeepsTimer ==
    \E m \in Arriving :
        LET p == Packet(m.k) IN
        /\ p.type = "video" /\ Delays(p)
        /\ link' = Tail(link)
        /\ sync' = [pending |-> m.k,
                    deadline |-> IF sync.pending # -1 THEN sync.deadline ELSE now + Ahead(p)]
        /\ UNCHANGED <<now, serverVars, started, player, heard, shown, gone>>

\* scheduleDelayedRender: the frame replaces the one that is pending.
Delay ==
    \E m \in Arriving :
        LET p == Packet(m.k) IN
        /\ p.type = "video" /\ Delays(p)
        /\ link' = Tail(link)
        /\ sync' = [pending |-> m.k, deadline |-> now + Ahead(p)]
        /\ UNCHANGED <<now, serverVars, started, player, heard, shown, gone>>

DelayTimer ==
    /\ sync.pending # -1 /\ now >= sync.deadline
    /\ shown' = [shown EXCEPT !.rendered = sync.pending]
    /\ sync' = NoPending
    /\ UNCHANGED <<now, serverVars, link, started, player, heard, gone>>

\* The decoder has no frame for the packet.
NoFrame ==
    /\ MayDrop /\ Arriving # {}
    /\ link' = Tail(link)
    /\ UNCHANGED <<now, serverVars, pageVars>>

\* Faulty variant: the player forgets its base but not its schedule.
DestroyKeepsSchedule ==
    /\ ~gone
    /\ gone' = TRUE
    /\ player' = [player EXCEPT !.basePts = -1] /\ sync' = NoPending /\ link' = <<>>
    /\ UNCHANGED <<now, serverVars, started, heard, shown>>

\* StreamInstance.disconnect destroys both.
Destroy ==
    /\ ~gone
    /\ gone' = TRUE
    /\ player' = NoAudio /\ sync' = NoPending /\ link' = <<>>
    /\ UNCHANGED <<now, serverVars, started, heard, shown>>

----------------------------------------------------------------------------
Next ==
    \/ Tick \/ OnTimer \/ AudioStarts \/ PlayFrame \/ Render \/ Skip \/ Delay \/ DelayTimer
    \/ NoFrame \/ Destroy

Spec == Init /\ [][Next]_vars

----------------------------------------------------------------------------
(* Properties.                                                             *)

Index == Nat \cup {-1}

\* The type invariant.
TypeOK ==
    /\ now \in Nat /\ due \in BOOLEAN /\ stall \in Nat
    /\ conn \in [packetIndex : Nat, playbackTimeMs : Nat]
    /\ link \in Seq([k : Nat, at : Nat])
    /\ started \in Index /\ gone \in BOOLEAN
    /\ player \in {NoAudio} \cup [basePts : Nat, baseTime : Nat, nextPlayTime : Nat]
    /\ sync \in {NoPending} \cup [pending : Nat, deadline : Nat]
    /\ heard \in [k : Index, start : Nat]
    /\ shown \in [rendered : Index, skipped : Index]

\* No packet is sent before its time, over any number of passes through the
\* file, and none later than one timer interval and what expirations read
\* together have cost.
Paced ==
    /\ conn.packetIndex > 0 => Effective(conn.packetIndex - 1) < now
    /\ ~due => Effective(conn.packetIndex) + Interval + stall > now

\* Audio is scheduled without overlap and never in the past.
AudioIsSequential ==
    [][heard' # heard =>
          heard'.start >= currentTime /\
          (heard.k # -1 => heard'.start >= heard.start + Packet(heard.k).durMs)]_vars

\* A frame is shown at most 30 ms before the audio clock reaches it, also one
\* that was delayed and whose timer was set again meanwhile.
NotShownEarly ==
    [][shown'.rendered # shown.rendered /\ Active
          => Ahead(Packet(shown'.rendered)) <= SYNC_AHEAD_THRESHOLD_MS]_vars

\* In the first pass a frame is skipped only when it comes more than 60 ms
\* after its time.
SkipsOnlyLate(k) == now - Effective(k) > SYNC_BEHIND_THRESHOLD_MS
FirstPassSkipsOnlyLate ==
    [][shown'.skipped # shown.skipped /\ shown'.skipped < PacketCount
          => SkipsOnlyLate(shown'.skipped)]_vars

\* openspec mp4-demux: playback is cyclic, and the time stamps serve the
\* client to synchronize.  So should the passes that follow the first.
OnlyLateIsSkipped ==
    [][shown'.skipped # shown.skipped => SkipsOnlyLate(shown'.skipped)]_vars

\* openspec audio-playback: a frame that is ahead of the audio is delayed
\* until the audio clock catches up: it is not dropped for the next one.
DelayedIsShown ==
    [][sync.pending # -1 /\ sync'.pending # sync.pending /\ ~gone'
          => shown'.rendered = sync.pending]_vars
============================================================================
