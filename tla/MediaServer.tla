---------------------------- MODULE MediaServer ----------------------------
(***************************************************************************)
(* The single-threaded media server: one epoll loop (TcpServer), a table   *)
(* of TLS sessions keyed by descriptor (TlsServer), a table of WebSocket   *)
(* connections keyed by descriptor (ConnectionManager) and the negotiation *)
(* state machine of VideoServer.  Peers and the kernel act between any two *)
(* steps of the loop, the loop itself is one thread whose position is pc.  *)
(*                                                                         *)
(* Abstractions.  A TLS record carries one token of Record, TCP cuts the   *)
(* byte stream anywhere between records (RecvChunk) and a record may hold  *)
(* several frames (SslRead).  A partial flight, request or frame only      *)
(* lengthens a buffer, so it is a stutter.  Packet contents, statistics    *)
(* and logging are left out.                                               *)
(***************************************************************************)
EXTENDS Integers, Sequences, FiniteSets

CONSTANTS
    Client,     \* the TCP connections peers open, each value is used once
    None,       \* "no connection"
    FD,         \* the descriptors the kernel can hand to accept()
    serverFd,   \* the listening descriptor
    timerFd,    \* the timer descriptor
    Sent,       \* bound: the records peers send in this instance
    MaxSends,   \* bound: how many of them a peer sends
    MaySlow,    \* bound: the peers that may stop reading, once each
    MayStop     \* bound: whether the operator may stop the server

FrameKind == {"accept", "reject", "text", "ping", "close"}
Record == FrameKind \cup {"finished", "upgrade", "badRequest", "notify"}

ASSUME NoneAssumption == None \notin Client
ASSUME FDAssumption == FD \subseteq Nat /\ serverFd \notin FD /\ timerFd \notin FD
ASSUME PeerAssumption ==
    Sent \subseteq Record /\ MaxSends \in Nat /\ MaySlow \subseteq Client /\ MayStop \in BOOLEAN

VARIABLES
    peer,       \* the remote ends and their kernel sockets
    backlog,    \* connections completed by the kernel and not yet accepted
    sock,       \* the connection each client descriptor refers to
    armed,      \* epoll's ready list of client descriptors (EPOLLET edges)
    timerDue,   \* the timer descriptor is readable
    gRunning,   \* cleared by the signal handler
    batch,      \* events returned by epoll_wait and not yet dispatched
    pc,         \* where the event loop is
    cur,        \* the descriptor of the callback in progress
    visit,      \* connections OnTimer's loop has still to visit
    timeouts,   \* negotiationTimeouts collected by OnTimer
    tls,        \* TlsServer::tlsConnections_
    conn        \* ConnectionManager::connections_

kernelVars == <<peer, backlog, sock, armed, timerDue, gRunning>>
loopVars == <<batch, pc, cur, visit, timeouts>>
tableVars == <<tls, conn>>
vars == <<kernelVars, loopVars, tableVars>>

Event == [fd : FD \cup {serverFd, timerFd}, err : BOOLEAN]

ConnState ==
    {"HANDSHAKING_WS", "CONNECTED", "NEGOTIATING", "STREAMING", "CLOSING"}

\* An absent key of the two tables.  owner identifies the TCP connection an
\* entry was created for (the id AddConnection draws), late says that more
\* than five seconds have passed since negotiateOfferTime.
NoSession == [state |-> "none", buf |-> <<>>]
NoEntry == [state |-> "none", owner |-> None, late |-> FALSE, buf |-> <<>>]

NewPeer == [phase |-> "idle", inq |-> <<>>, sent |-> 0, side |-> "open",
            window |-> "open"]
ClosedPeer == [phase |-> "closed", inq |-> <<>>, sent |-> 0, side |-> "open",
               window |-> "open"]

Init ==
    /\ peer = [c \in Client |-> NewPeer]
    /\ backlog = <<>>
    /\ sock = [f \in FD |-> None]
    /\ armed = {}
    /\ timerDue = FALSE
    /\ gRunning = TRUE
    /\ batch = {}
    /\ pc = "loop"
    /\ cur = serverFd
    /\ visit = {}
    /\ timeouts = {}
    /\ tls = [f \in FD |-> NoSession]
    /\ conn = [f \in FD |-> NoEntry]

----------------------------------------------------------------------------
(* The peers and the kernel.                                               *)

\* The records a peer may send after n others: it finishes its TLS
\* handshake, asks for the upgrade, then sends frames.  "notify" stands for
\* every input on which mbedtls gives up (close_notify, a bad record).
Say(n) ==
    Sent \cap
      CASE n = 0 -> {"finished", "notify"}
        [] n = 1 -> {"upgrade", "badRequest", "notify"}
        [] OTHER -> FrameKind \cup {"notify"}

\* An arrival puts the descriptor of c, when accepted, on the ready list.
Edge(c) == armed' = armed \cup {f \in FD : sock[f] = c}

Reachable(c) == peer[c].phase \in {"backlog", "open"} /\ peer[c].side # "rst"

Connect(c) ==
    /\ peer[c].phase = "idle"
    /\ pc \notin {"stopped", "crashed"}
    /\ peer' = [peer EXCEPT ![c].phase = "backlog"]
    /\ backlog' = Append(backlog, c)
    /\ UNCHANGED <<sock, armed, timerDue, gRunning, loopVars, tableVars>>

Send(c) ==
    /\ Reachable(c) /\ peer[c].side = "open" /\ peer[c].sent < MaxSends
    /\ \E r \in Say(peer[c].sent) :
          peer' = [peer EXCEPT ![c].inq = Append(@, r), ![c].sent = @ + 1]
    /\ Edge(c)
    /\ UNCHANGED <<backlog, sock, timerDue, gRunning, loopVars, tableVars>>

\* The peer closes its side (FIN) or aborts (RST, reported as EPOLLERR).
CloseWrite(c) ==
    /\ Reachable(c) /\ peer[c].side = "open"
    /\ peer' = [peer EXCEPT ![c].side = "fin"]
    /\ Edge(c)
    /\ UNCHANGED <<backlog, sock, timerDue, gRunning, loopVars, tableVars>>

Reset(c) ==
    /\ Reachable(c)
    /\ peer' = [peer EXCEPT ![c].side = "rst"]
    /\ Edge(c)
    /\ UNCHANGED <<backlog, sock, timerDue, gRunning, loopVars, tableVars>>

\* The peer stops reading until its receive window and the server's send
\* buffer are full, which takes a media stream, and resumes.
\* Bound: once per peer.
StopReading(c) ==
    /\ c \in MaySlow /\ Reachable(c) /\ peer[c].window = "open"
    /\ \E f \in FD : sock[f] = c /\ conn[f].state = "STREAMING"
    /\ peer' = [peer EXCEPT ![c].window = "full"]
    /\ UNCHANGED <<backlog, sock, armed, timerDue, gRunning, loopVars, tableVars>>

Resume(c) ==
    /\ peer[c].window = "full"
    /\ peer' = [peer EXCEPT ![c].window = "drained"]
    /\ UNCHANGED <<backlog, sock, armed, timerDue, gRunning, loopVars, tableVars>>

TimerExpires ==
    /\ ~timerDue /\ pc \notin {"stopped", "crashed"}
    /\ timerDue' = TRUE
    /\ UNCHANGED <<peer, backlog, sock, armed, gRunning, loopVars, tableVars>>

\* More than five seconds have passed since the media-offer on f.
OfferAges(f) ==
    /\ conn[f].state = "NEGOTIATING" /\ ~conn[f].late
    /\ pc \notin {"stopped", "crashed"}
    /\ conn' = [conn EXCEPT ![f].late = TRUE]
    /\ UNCHANGED <<kernelVars, loopVars, tls>>

SignalHandler ==
    /\ MayStop /\ gRunning /\ pc \notin {"stopped", "crashed"}
    /\ gRunning' = FALSE
    /\ UNCHANGED <<peer, backlog, sock, armed, timerDue, loopVars, tableVars>>

----------------------------------------------------------------------------
(* Helpers shared by the callbacks.                                        *)

\* SendData returns: the peer reads, or the write fails (-1, ignored by
\* every caller), or no session exists.  Otherwise the loop spins in it.
CanSend(f) ==
    tls[f].state = "established" /\ sock[f] # None =>
        peer[sock[f]].window # "full" \/ peer[sock[f]].side = "rst"

\* epoll DEL, session erased and freed, close(fd).
ReleaseSocket(f) ==
    /\ sock' = [sock EXCEPT ![f] = None]
    /\ peer' = [c \in Client |->
                  IF sock[f] = c THEN ClosedPeer ELSE peer[c]]
    /\ armed' = armed \ {f}
    /\ tls' = [tls EXCEPT ![f] = NoSession]

\* Faulty variant: the disconnect is never passed on.
SilentRemoveClient(f) == ReleaseSocket(f) /\ conn' = conn

\* TcpServer::RemoveClient: OnTcpDisconnect passes the disconnect on to
\* ConnectionManager only if it finds a session with a finished handshake.
RemoveClient(f) ==
    /\ ReleaseSocket(f)
    /\ conn' = IF tls[f].state = "established"
               THEN [conn EXCEPT ![f] = NoEntry]
               ELSE conn

\* TlsServer::CloseConnection erases the session before RemoveClient runs,
\* so OnTcpDisconnect finds none and the entry stays in the table.
TlsCloseConnection(f, state) ==
    /\ ReleaseSocket(f)
    /\ conn' = [conn EXCEPT ![f].state = state]

----------------------------------------------------------------------------
(* TcpServer::ProcessEvents.                                               *)

ClientError(f) == sock[f] # None /\ peer[sock[f]].side = "rst"

ReadyEvents ==
    {e \in Event :
        \/ e.fd \in armed /\ e.err = ClientError(e.fd)
        \/ e.fd = serverFd /\ backlog # <<>> /\ ~e.err
        \/ e.fd = timerFd /\ timerDue /\ ~e.err}

\* epoll_wait with something to report (a timeout returns 0: a stutter).
\* The order of a batch is the kernel's, so dispatch picks any event of it.
EpollWait ==
    /\ pc = "loop" /\ batch = {} /\ gRunning
    /\ ReadyEvents # {}
    /\ batch' = ReadyEvents
    /\ armed' = {}
    /\ UNCHANGED <<peer, backlog, sock, timerDue, gRunning,
                   pc, cur, visit, timeouts, tableVars>>

DispatchListener ==
    \E e \in batch :
        /\ pc = "loop" /\ e.fd = serverFd
        /\ batch' = batch \ {e}
        /\ pc' = "accept"
        /\ UNCHANGED <<kernelVars, cur, visit, timeouts, tableVars>>

\* OnTimer starts: timer_.Read() rearms the descriptor and drops the count.
DispatchTimer ==
    \E e \in batch :
        /\ pc = "loop" /\ e.fd = timerFd
        /\ batch' = batch \ {e}
        /\ pc' = "timer"
        /\ timerDue' = FALSE
        /\ visit' = {f \in FD : conn[f].state # "none"}
        /\ UNCHANGED <<peer, backlog, sock, armed, gRunning, cur, timeouts, tableVars>>

\* EPOLLERR | EPOLLHUP: whatever the descriptor refers to now is removed.
DispatchError ==
    \E e \in batch :
        /\ pc = "loop" /\ e.fd \in FD /\ e.err
        /\ batch' = batch \ {e}
        /\ RemoveClient(e.fd)
        /\ UNCHANGED <<backlog, timerDue, gRunning, pc, cur, visit, timeouts>>

\* Faulty variant: the timer descriptor is not told from the clients'.
DispatchTimerAsInput ==
    \E e \in batch :
        /\ pc = "loop" /\ e.fd # serverFd /\ ~e.err
        /\ batch' = batch \ {e}
        /\ pc' = "recv"
        /\ cur' = e.fd
        /\ UNCHANGED <<kernelVars, visit, timeouts, tableVars>>

DispatchInput ==
    \E e \in batch :
        /\ pc = "loop" /\ e.fd \in FD /\ ~e.err
        /\ batch' = batch \ {e}
        /\ pc' = "recv"
        /\ cur' = e.fd
        /\ UNCHANGED <<kernelVars, visit, timeouts, tableVars>>

----------------------------------------------------------------------------
(* TcpServer::AcceptConnection with TlsServer::OnTcpConnect.               *)

\* accept() returns the lowest free descriptor.
LowestFree(f) == sock[f] = None /\ \A g \in FD : sock[g] = None => f <= g

\* EAGAIN, or no descriptor left (EMFILE): the loop breaks.
AcceptDone ==
    /\ pc = "accept"
    /\ backlog = <<>> \/ \A f \in FD : sock[f] # None
    /\ pc' = "loop"
    /\ UNCHANGED <<kernelVars, batch, cur, visit, timeouts, tableVars>>

\* A registered socket that already holds input is ready at once.
Accept ==
    /\ pc = "accept" /\ backlog # <<>>
    /\ \E f \in FD : LET c == Head(backlog) IN
          /\ LowestFree(f)
          /\ sock' = [sock EXCEPT ![f] = c]
          /\ peer' = [peer EXCEPT ![c].phase = "open"]
          /\ armed' = IF peer[c].inq # <<>> \/ peer[c].side # "open"
                      THEN armed \cup {f} ELSE armed
          /\ tls' = [tls EXCEPT ![f] = [state |-> "handshaking", buf |-> <<>>]]
    /\ backlog' = Tail(backlog)
    /\ UNCHANGED <<timerDue, gRunning, loopVars, conn>>

\* mbedtls_ssl_setup fails: the connection is closed again at once.
AcceptFails ==
    /\ pc = "accept" /\ backlog # <<>>
    /\ \E f \in FD : sock[f] = None
    /\ peer' = [peer EXCEPT ![Head(backlog)] = ClosedPeer]
    /\ backlog' = Tail(backlog)
    /\ UNCHANGED <<sock, armed, timerDue, gRunning, loopVars, tableVars>>

----------------------------------------------------------------------------
(* TcpServer::HandleClientData with TlsServer::OnTcpData.                  *)

\* Input of the connection behind cur that recv() can return.
Unread == IF sock[cur] = None THEN <<>> ELSE peer[sock[cur]].inq
Ended == sock[cur] # None /\ peer[sock[cur]].side # "open"

\* recv() returns the first n records.
TakeInput(n) ==
    peer' = [peer EXCEPT ![sock[cur]].inq = SubSeq(@, n + 1, Len(@))]

\* Faulty variant: an entry left under the descriptor is kept.
RecvFinishedKeepsEntry ==
    /\ pc = "recv" /\ tls[cur].state = "handshaking"
    /\ \E n \in 1..Len(Unread) :
          /\ Head(Unread) = "finished"
          /\ TakeInput(n)
          /\ tls' = [tls EXCEPT ![cur] =
                       [state |-> "established", buf |-> SubSeq(Unread, 2, n)]]
    /\ conn' = IF conn[cur].state # "none" THEN conn
               ELSE [conn EXCEPT ![cur] =
                       [state |-> "HANDSHAKING_WS", owner |-> sock[cur],
                        late |-> FALSE, buf |-> <<>>]]
    /\ UNCHANGED <<backlog, sock, armed, timerDue, gRunning, loopVars>>

\* mbedtls_ssl_handshake on the input: it completes, and what follows the
\* peer's Finished stays in recvBuf, AddConnection fills the table entry ...
RecvFinished ==
    /\ pc = "recv" /\ tls[cur].state = "handshaking"
    /\ \E n \in 1..Len(Unread) :
          /\ Head(Unread) = "finished"
          /\ TakeInput(n)
          /\ tls' = [tls EXCEPT ![cur] =
                       [state |-> "established", buf |-> SubSeq(Unread, 2, n)]]
    /\ conn' = [conn EXCEPT ![cur] =
                  [state |-> "HANDSHAKING_WS", owner |-> sock[cur],
                   late |-> FALSE, buf |-> <<>>]]
    /\ UNCHANGED <<backlog, sock, armed, timerDue, gRunning, loopVars>>

\* ... or it fails, and the connection is closed.
RecvBadHandshake ==
    /\ pc = "recv" /\ tls[cur].state = "handshaking"
    /\ Unread # <<>> /\ Head(Unread) # "finished"
    /\ RemoveClient(cur)
    /\ UNCHANGED <<backlog, timerDue, gRunning, loopVars>>

RecvChunk ==
    /\ pc = "recv" /\ tls[cur].state = "established"
    /\ \E n \in 1..Len(Unread) :
          /\ TakeInput(n)
          /\ tls' = [tls EXCEPT ![cur].buf = @ \o SubSeq(Unread, 1, n)]
    /\ pc' = "ssl"
    /\ UNCHANGED <<backlog, sock, armed, timerDue, gRunning,
                   batch, cur, visit, timeouts, conn>>

\* Faulty variant: an orderly end of the stream is taken for EAGAIN.
RecvEndIgnored ==
    /\ pc = "recv" /\ Unread = <<>>
    /\ Ended \/ sock[cur] = None
    /\ pc' = "loop"
    /\ cur' = serverFd
    /\ UNCHANGED <<kernelVars, batch, visit, timeouts, tableVars>>

\* recv() returns 0 or an error: ECONNRESET, or EBADF when an earlier
\* callback of this call closed the descriptor (RemoveClient finds nothing).
RecvEnd ==
    /\ pc = "recv" /\ Unread = <<>>
    /\ Ended \/ sock[cur] = None
    /\ RemoveClient(cur)
    /\ pc' = "loop"
    /\ cur' = serverFd
    /\ UNCHANGED <<backlog, timerDue, gRunning, batch, visit, timeouts>>

\* EAGAIN.
RecvAgain ==
    /\ pc = "recv" /\ Unread = <<>> /\ ~Ended /\ sock[cur] # None
    /\ pc' = "loop"
    /\ cur' = serverFd
    /\ UNCHANGED <<kernelVars, batch, visit, timeouts, tableVars>>

----------------------------------------------------------------------------
(* The mbedtls_ssl_read loop of OnTcpData.  Once a callback has closed the *)
(* connection the loop's iterator refers to a freed session: the read may  *)
(* report an error, report nothing to read, or crash the process.          *)

SslDangling == pc = "ssl" /\ tls[cur].state = "none"

\* The next record of a live session is one of kinds.
NextRecord(kinds) ==
    /\ pc = "ssl" /\ tls[cur].state = "established"
    /\ tls[cur].buf # <<>> /\ Head(tls[cur].buf) \in kinds

DanglingReadFails ==
    /\ SslDangling
    /\ RemoveClient(cur)
    /\ pc' = "recv"
    /\ UNCHANGED <<backlog, timerDue, gRunning, batch, cur, visit, timeouts>>

DanglingWantRead ==
    /\ SslDangling
    /\ pc' = "recv"
    /\ UNCHANGED <<kernelVars, batch, cur, visit, timeouts, tableVars>>

DanglingCrash ==
    /\ SslDangling
    /\ pc' = "crashed"
    /\ UNCHANGED <<kernelVars, batch, cur, visit, timeouts, tableVars>>

\* Faulty variant: one recv() per edge.
SslWantReadOnce ==
    /\ pc = "ssl" /\ tls[cur].state = "established" /\ tls[cur].buf = <<>>
    /\ pc' = "loop"
    /\ cur' = serverFd
    /\ UNCHANGED <<kernelVars, batch, visit, timeouts, tableVars>>

SslWantRead ==
    /\ pc = "ssl" /\ tls[cur].state = "established" /\ tls[cur].buf = <<>>
    /\ pc' = "recv"
    /\ UNCHANGED <<kernelVars, batch, cur, visit, timeouts, tableVars>>

SslReadFails ==
    /\ NextRecord({"notify"})
    /\ RemoveClient(cur)
    /\ pc' = "recv"
    /\ UNCHANGED <<backlog, timerDue, gRunning, batch, cur, visit, timeouts>>

\* A record is decrypted: HandleHandshake answers a good request with the
\* upgrade response and the media-offer, and forgets what it has buffered.
Upgrade ==
    /\ NextRecord({"upgrade"})
    /\ conn[cur].state = "HANDSHAKING_WS" /\ conn[cur].buf = <<>>
    /\ CanSend(cur)
    /\ tls' = [tls EXCEPT ![cur].buf = Tail(@)]
    /\ conn' = [conn EXCEPT ![cur].state = "NEGOTIATING"]
    /\ UNCHANGED <<kernelVars, loopVars>>

RejectRequest ==
    /\ NextRecord({"badRequest", "upgrade"})
    /\ Head(tls[cur].buf) = "upgrade" => conn[cur].buf # <<>>
    /\ conn[cur].state = "HANDSHAKING_WS"
    /\ TlsCloseConnection(cur, "HANDSHAKING_WS")
    /\ UNCHANGED <<backlog, timerDue, gRunning, loopVars>>

\* HandleData appends a record of n frames, and parses them if negotiating
\* or streaming.  In any other state they only stay in recvBuffer.
FrameRecord ==
    /\ NextRecord(FrameKind)
    /\ \E n \in 1..Len(tls[cur].buf) :
          /\ \A i \in 1..n : tls[cur].buf[i] \in FrameKind
          /\ tls' = [tls EXCEPT ![cur].buf = SubSeq(@, n + 1, Len(@))]
          /\ conn' = [conn EXCEPT ![cur].buf = @ \o SubSeq(tls[cur].buf, 1, n)]
    /\ pc' = IF conn[cur].state \in {"NEGOTIATING", "STREAMING"} THEN "frames" ELSE pc
    /\ UNCHANGED <<kernelVars, batch, cur, visit, timeouts>>

----------------------------------------------------------------------------
(* VideoServer::HandleWebSocketFrame, one frame of recvBuffer a step, on   *)
(* the Connection pointer its caller looked up.                            *)

NextFrame(kinds) ==
    /\ pc = "frames" /\ conn[cur].buf # <<>>
    /\ Head(conn[cur].buf) \in kinds

FramesDone ==
    /\ pc = "frames" /\ conn[cur].buf = <<>>
    /\ pc' = "ssl"
    /\ UNCHANGED <<kernelVars, batch, cur, visit, timeouts, tableVars>>

AcceptAnswer ==
    /\ NextFrame({"accept"}) /\ conn[cur].state = "NEGOTIATING"
    /\ conn' = [conn EXCEPT ![cur].state = "STREAMING", ![cur].buf = Tail(@)]
    /\ UNCHANGED <<kernelVars, loopVars, tls>>

\* Faulty variant: closing erases the entry under the caller's pointer.
RejectAnswerErases ==
    /\ NextFrame({"reject"}) /\ conn[cur].state = "NEGOTIATING"
    /\ CanSend(cur)
    /\ ReleaseSocket(cur)
    /\ conn' = [conn EXCEPT ![cur] = NoEntry]
    /\ UNCHANGED <<backlog, timerDue, gRunning, loopVars>>

\* The loop goes on with the frames that follow the rejection.
RejectAnswer ==
    /\ NextFrame({"reject"}) /\ conn[cur].state = "NEGOTIATING"
    /\ CanSend(cur)
    /\ ReleaseSocket(cur)
    /\ conn' = [conn EXCEPT ![cur].state = "CLOSING", ![cur].buf = Tail(@)]
    /\ UNCHANGED <<backlog, timerDue, gRunning, loopVars>>

\* Text outside negotiation, text that is no answer, and binary frames.
IgnoreFrame ==
    /\ \/ NextFrame({"text"})
       \/ NextFrame({"accept", "reject"}) /\ conn[cur].state # "NEGOTIATING"
    /\ conn' = [conn EXCEPT ![cur].buf = Tail(@)]
    /\ UNCHANGED <<kernelVars, loopVars, tls>>

Pong ==
    /\ NextFrame({"ping"}) /\ CanSend(cur)
    /\ conn' = [conn EXCEPT ![cur].buf = Tail(@)]
    /\ UNCHANGED <<kernelVars, loopVars, tls>>

CloseFrame ==
    /\ NextFrame({"close"})
    /\ ReleaseSocket(cur)
    /\ conn' = [conn EXCEPT ![cur].state = "CLOSING", ![cur].buf = Tail(@)]
    /\ pc' = "ssl"
    /\ UNCHANGED <<backlog, timerDue, gRunning, batch, cur, visit, timeouts>>

----------------------------------------------------------------------------
(* VideoServer::OnTimer.  unordered_map order: the loop visits any next.   *)

\* Faulty variant: the age of the offer is not looked at.
NeverTimedOut(f) == FALSE

TimedOut(f) == conn[f].state = "NEGOTIATING" /\ conn[f].late

TimerTimeout ==
    \E f \in visit :
        /\ pc = "timer" /\ TimedOut(f) /\ CanSend(f)
        /\ conn' = [conn EXCEPT ![f].state = "CLOSING"]
        /\ timeouts' = timeouts \cup {f}
        /\ visit' = visit \ {f}
        /\ UNCHANGED <<kernelVars, batch, pc, cur, tls>>

\* STREAMING connections are sent the packets that are due.
TimerStream ==
    \E f \in visit :
        /\ pc = "timer" /\ conn[f].state = "STREAMING" /\ CanSend(f)
        /\ visit' = visit \ {f}
        /\ UNCHANGED <<kernelVars, batch, pc, cur, timeouts, tableVars>>

TimerSkip ==
    \E f \in visit :
        /\ pc = "timer" /\ ~TimedOut(f) /\ conn[f].state # "STREAMING"
        /\ visit' = visit \ {f}
        /\ UNCHANGED <<kernelVars, batch, pc, cur, timeouts, tableVars>>

TimerClose ==
    \E f \in timeouts :
        /\ pc = "timer" /\ visit = {}
        /\ timeouts' = timeouts \ {f}
        /\ TlsCloseConnection(f, "CLOSING")
        /\ UNCHANGED <<backlog, timerDue, gRunning, batch, pc, cur, visit>>

TimerDone ==
    /\ pc = "timer" /\ visit = {} /\ timeouts = {}
    /\ pc' = "loop"
    /\ UNCHANGED <<kernelVars, batch, cur, visit, timeouts, tableVars>>

----------------------------------------------------------------------------
(* VideoServer::Shutdown: a close frame to every entry, TlsServer::Stop,   *)
(* and the process exits.                                                  *)
Shutdown ==
    /\ pc = "loop" /\ batch = {} /\ ~gRunning
    /\ \A f \in FD : conn[f].state # "none" => CanSend(f)
    /\ pc' = "stopped"
    /\ peer' = [c \in Client |-> ClosedPeer]
    /\ backlog' = <<>>
    /\ sock' = [f \in FD |-> None]
    /\ armed' = {}
    /\ tls' = [f \in FD |-> NoSession]
    /\ conn' = [f \in FD |-> NoEntry]
    /\ UNCHANGED <<timerDue, gRunning, batch, cur, visit, timeouts>>

\* The process is gone: nothing more happens on this side.
Gone == pc \in {"stopped", "crashed"} /\ UNCHANGED vars

----------------------------------------------------------------------------
Events == EpollWait \/ DispatchListener \/ DispatchTimer \/ DispatchError \/ DispatchInput
Accepts == AcceptDone \/ Accept \/ AcceptFails
Receives == RecvFinished \/ RecvBadHandshake \/ RecvChunk \/ RecvEnd \/ RecvAgain
SslReads ==
    \/ DanglingReadFails \/ DanglingWantRead \/ DanglingCrash
    \/ SslWantRead \/ SslReadFails \/ Upgrade \/ RejectRequest \/ FrameRecord
FrameLoop ==
    FramesDone \/ AcceptAnswer \/ RejectAnswer \/ IgnoreFrame \/ Pong \/ CloseFrame
OnTimer == TimerTimeout \/ TimerStream \/ TimerSkip \/ TimerClose \/ TimerDone

Server == Events \/ Accepts \/ Receives \/ SslReads \/ FrameLoop \/ OnTimer \/ Shutdown

Peers ==
    \E c \in Client :
        Connect(c) \/ Send(c) \/ CloseWrite(c) \/ Reset(c) \/ StopReading(c) \/ Resume(c)

Time == TimerExpires \/ SignalHandler \/ \E f \in FD : OfferAges(f)

Next == Server \/ Peers \/ Time \/ Gone

Spec == Init /\ [][Next]_vars

\* The loop runs whenever it can, the timer keeps ticking and time passes.
\* Nothing is assumed of the peers.
Fairness ==
    /\ WF_vars(Server) /\ WF_vars(TimerExpires)
    /\ \A f \in FD : WF_vars(OfferAges(f))

FairSpec == Spec /\ Fairness

\* In addition a peer that has stopped reading resumes some day.
ReadingSpec == FairSpec /\ \A c \in Client : WF_vars(Resume(c))

----------------------------------------------------------------------------
(* Properties.                                                             *)

Peer == [phase : {"idle", "backlog", "open", "closed"}, inq : Seq(Record), sent : Nat,
         side : {"open", "fin", "rst"}, window : {"open", "full", "drained"}]
Session == [state : {"none", "handshaking", "established"}, buf : Seq(Record)]
Entry == [state : ConnState \cup {"none"}, owner : Client \cup {None},
          late : BOOLEAN, buf : Seq(Record)]
Place == {"loop", "accept", "recv", "ssl", "frames", "timer", "stopped", "crashed"}
InCallback == pc \in {"recv", "ssl", "frames"}

\* The type invariant: every variable keeps its shape, and the callbacks on
\* a client (HandleClientData down to HandleWebSocketFrame) have one.
TypeOK ==
    /\ peer \in [Client -> Peer]
    /\ backlog \in Seq(Client)
    /\ sock \in [FD -> Client \cup {None}]
    /\ armed \subseteq FD
    /\ timerDue \in BOOLEAN
    /\ gRunning \in BOOLEAN
    /\ batch \subseteq Event
    /\ pc \in Place
    /\ cur \in FD \cup {serverFd}
    /\ visit \subseteq FD
    /\ timeouts \subseteq FD
    /\ tls \in [FD -> Session]
    /\ conn \in [FD -> Entry]
    /\ InCallback => cur \in FD

\* A connection the server negotiates with or streams to has an established
\* TLS session on a descriptor that still refers to the peer the entry was
\* made for.  Closed connections leave entries behind (TlsCloseConnection)
\* and descriptors are reused: no such entry may ever reach these states.
MediaOnLiveSession ==
    \A f \in FD : conn[f].state \in {"NEGOTIATING", "STREAMING"} =>
        tls[f].state = "established" /\ sock[f] # None /\ sock[f] = conn[f].owner

Running == pc \notin {"stopped", "crashed"}
HasInput(f) ==
    sock[f] # None /\ (peer[sock[f]].inq # <<>> \/ peer[sock[f]].side # "open")
AccountedFor(f) ==
    f \in armed \/ (InCallback /\ cur = f) \/ \E e \in batch : e.fd = f

\* Clients are watched edge-triggered (EPOLLIN | EPOLLET): input, FIN or
\* RST a connection has not been told of has an edge, a pending event or
\* the running callback to account for it.  Otherwise it waits forever.
EdgeKept == Running => \A f \in FD : HasInput(f) => AccountedFor(f)

\* The Connection pointer HandleWebSocketFrame holds across its callbacks,
\* and the entries OnTimer's loop is still to visit or to close, are in the
\* table when they are used, although callbacks close connections.
NoDanglingEntry ==
    /\ pc = "frames" => conn[cur].state # "none"
    /\ \A f \in visit \cup timeouts : conn[f].state # "none"

\* The inductive invariant behind both: the three tables keyed by descriptor
\* agree, and OnTimer leaves nothing behind for the next call.
TablesAgree ==
    \A f \in FD :
        /\ sock[f] = None <=> tls[f].state = "none"
        /\ tls[f].state = "established" =>
             conn[f].state # "none" /\ conn[f].owner = sock[f]
        /\ conn[f].state \in {"NEGOTIATING", "STREAMING"} =>
             tls[f].state = "established"

TimerIdle == pc # "timer" => visit = {} /\ timeouts = {}

IInv == TypeOK /\ TablesAgree /\ TimerIdle /\ NoDanglingEntry

\* Every connection goes through the states of connection.h in their order,
\* whatever happens to the others and to the descriptors.
life ==
    [c \in Client |->
        IF peer[c].phase = "closed" THEN "gone"
        ELSE IF peer[c].phase # "open" THEN "absent"
        ELSE LET f == CHOOSE g \in FD : sock[g] = c
             IN IF tls[f].state = "handshaking" THEN "HANDSHAKING_TLS"
                ELSE conn[f].state]

Lifecycle == INSTANCE ConnectionLifecycle
LifecycleSpec == Lifecycle!Spec

\* A connection that is offered media is accepted, refused, timed out or
\* gone some day (OnTimer's five seconds), as long as the process lives.
NegotiationEnds ==
    \A f \in FD : Running /\ conn[f].state = "NEGOTIATING"
                    ~> ~Running \/ conn[f].state # "NEGOTIATING"

\* A peer that closed or reset its connection is removed some day.
PeerGoneIsReaped ==
    \A c \in Client :
        Running /\ peer[c].phase = "open" /\ peer[c].side # "open"
            ~> ~Running \/ peer[c].phase = "closed"

\* openspec/specs/tls-transport: what arrives on a socket is decrypted and
\* passed to onData.  Between two events no session keeps unread input.
DecryptedIsDelivered ==
    pc = "loop" => \A f \in FD : tls[f].state = "established" => tls[f].buf = <<>>

\* media-negotiation/design.md: the timeout closes a connection so that it
\* does not leak.  Between two events every entry has its connection.
EntriesAreOpenConnections ==
    pc = "loop" => \A f \in FD :
        conn[f].state # "none" => sock[f] # None
============================================================================
