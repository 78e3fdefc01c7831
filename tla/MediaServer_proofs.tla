------------------------- MODULE MediaServer_proofs -------------------------
(* Theorems about MediaServer, for every set of clients and descriptors. *)
EXTENDS MediaServer, TLAPS, SequenceTheorems

USE DEF Running

(***************************************************************************)
(* Type correctness.                                                       *)
(***************************************************************************)
LEMMA ReleaseSocketType ==
    ASSUME TypeOK, NEW f \in FD, ReleaseSocket(f)
    PROVE  /\ peer' \in [Client -> Peer]
           /\ sock' \in [FD -> Client \cup {None}]
           /\ armed' \subseteq FD
           /\ tls' \in [FD -> Session]
<1>1. ClosedPeer \in Peer
  BY EmptySeq DEF ClosedPeer, Peer
<1>2. NoSession \in Session
  BY EmptySeq DEF NoSession, Session
<1> QED  BY <1>1, <1>2 DEF TypeOK, ReleaseSocket

LEMMA RemoveClientType ==
    ASSUME TypeOK, NEW f \in FD, RemoveClient(f)
    PROVE  conn' \in [FD -> Entry]
<1>1. NoEntry \in Entry
  BY EmptySeq DEF NoEntry, Entry
<1> QED  BY <1>1 DEF TypeOK, RemoveClient

LEMMA InitType == Init => TypeOK
<1> SUFFICES ASSUME Init PROVE TypeOK
  OBVIOUS
<1>1. NewPeer \in Peer
  BY EmptySeq DEF NewPeer, Peer
<1>2. NoSession \in Session
  BY EmptySeq DEF NoSession, Session
<1>3. NoEntry \in Entry
  BY EmptySeq DEF NoEntry, Entry
<1>4. backlog \in Seq(Client)
  BY EmptySeq DEF Init
<1> QED  BY <1>1, <1>2, <1>3, <1>4 DEF Init, TypeOK, Place, InCallback

LEMMA PeersType ==
    ASSUME TypeOK, Peers
    PROVE  TypeOK'
<1>1. PICK c \in Client :
        Connect(c) \/ Send(c) \/ CloseWrite(c) \/ Reset(c) \/ StopReading(c) \/ Resume(c)
  BY DEF Peers
<1>2. /\ UNCHANGED <<sock, timerDue, gRunning, loopVars, tableVars>>
      /\ backlog' \in {backlog, Append(backlog, c)}
      /\ armed' = armed \/ Edge(c)
  BY <1>1 DEF Connect, Send, CloseWrite, Reset, StopReading, Resume
<1>3. peer \in [Client -> Peer] /\ peer[c] \in Peer
  BY DEF TypeOK
<1>4. \E p \in Peer : peer' = [peer EXCEPT ![c] = p]
  <2>1. CASE Connect(c)
    <3>1. [peer[c] EXCEPT !.phase = "backlog"] \in Peer
      BY <1>3 DEF Peer
    <3> QED  BY <2>1, <3>1 DEF Connect
  <2>2. CASE Send(c)
    <3>1. PICK r \in Say(peer[c].sent) :
            peer' = [peer EXCEPT ![c].inq = Append(@, r), ![c].sent = @ + 1]
      BY <2>2 DEF Send
    <3>2. r \in Record
      BY <3>1, PeerAssumption DEF Say
    <3>3. Append(peer[c].inq, r) \in Seq(Record) /\ peer[c].sent + 1 \in Nat
      BY <1>3, <3>2, AppendProperties DEF Peer
    <3>4. [peer[c] EXCEPT !.inq = Append(@, r), !.sent = @ + 1] \in Peer
      BY <1>3, <3>3 DEF Peer
    <3> QED  BY <3>1, <3>4
  <2>3. CASE CloseWrite(c)
    <3>1. [peer[c] EXCEPT !.side = "fin"] \in Peer
      BY <1>3 DEF Peer
    <3> QED  BY <2>3, <3>1 DEF CloseWrite
  <2>4. CASE Reset(c)
    <3>1. [peer[c] EXCEPT !.side = "rst"] \in Peer
      BY <1>3 DEF Peer
    <3> QED  BY <2>4, <3>1 DEF Reset
  <2>5. CASE StopReading(c)
    <3>1. [peer[c] EXCEPT !.window = "full"] \in Peer
      BY <1>3 DEF Peer
    <3> QED  BY <2>5, <3>1 DEF StopReading
  <2>6. CASE Resume(c)
    <3>1. [peer[c] EXCEPT !.window = "drained"] \in Peer
      BY <1>3 DEF Peer
    <3> QED  BY <2>6, <3>1 DEF Resume
  <2> QED  BY <1>1, <2>1, <2>2, <2>3, <2>4, <2>5, <2>6
<1>5. peer' \in [Client -> Peer]
  BY <1>3, <1>4
<1>6. backlog' \in Seq(Client)
  BY <1>2, AppendProperties DEF TypeOK
<1>7. armed' \subseteq FD
  BY <1>2 DEF TypeOK, Edge
<1> QED  BY <1>2, <1>5, <1>6, <1>7 DEF TypeOK, loopVars, tableVars, InCallback

LEMMA TimeType ==
    ASSUME TypeOK, Time
    PROVE  TypeOK'
<1> USE DEF TypeOK, Entry, kernelVars, loopVars, tableVars, Place, InCallback
<1>1. CASE TimerExpires
  BY <1>1 DEF TimerExpires
<1>2. CASE SignalHandler
  BY <1>2 DEF SignalHandler
<1>3. CASE \E f \in FD : OfferAges(f)
  <2>1. PICK f \in FD : OfferAges(f)
    BY <1>3
  <2>2. [conn[f] EXCEPT !.late = TRUE] \in Entry
    OBVIOUS
  <2>3. conn' \in [FD -> Entry]
    BY <2>1, <2>2 DEF OfferAges
  <2> QED  BY <2>1, <2>3 DEF OfferAges
<1> QED  BY <1>1, <1>2, <1>3 DEF Time

LEMMA EventsType ==
    ASSUME TypeOK, Events
    PROVE  TypeOK'
<1> USE DEF TypeOK, kernelVars, loopVars, tableVars, Place, InCallback
<1>1. CASE EpollWait
  BY <1>1 DEF EpollWait, ReadyEvents
<1>2. CASE DispatchListener
  BY <1>2 DEF DispatchListener
<1>3. CASE DispatchTimer
  BY <1>3 DEF DispatchTimer
<1>4. CASE DispatchError
  <2>1. PICK e \in batch : e.fd \in FD /\ RemoveClient(e.fd)
    BY <1>4 DEF DispatchError
  <2> QED  BY <1>4, <2>1, ReleaseSocketType, RemoveClientType DEF DispatchError, RemoveClient
<1>5. CASE DispatchInput
  BY <1>5 DEF DispatchInput
<1> QED  BY <1>1, <1>2, <1>3, <1>4, <1>5 DEF Events

LEMMA AcceptsType ==
    ASSUME TypeOK, Accepts
    PROVE  TypeOK'
<1> USE DEF TypeOK, kernelVars, loopVars, tableVars, Place, InCallback
<1>1. CASE AcceptDone
  BY <1>1 DEF AcceptDone
<1>2. CASE Accept
  <2>1. Head(backlog) \in Client /\ Tail(backlog) \in Seq(Client)
    BY <1>2, HeadTailProperties DEF Accept
  <2>2. [state |-> "handshaking", buf |-> <<>>] \in Session
    BY DEF Session
  <2>3. peer' \in [Client -> Peer]
    <3>1. [peer[Head(backlog)] EXCEPT !.phase = "open"] \in Peer
      BY <2>1 DEF Peer
    <3> QED  BY <1>2, <2>1, <3>1 DEF Accept
  <2> QED  BY <1>2, <2>1, <2>2, <2>3 DEF Accept
<1>3. CASE AcceptFails
  <2>1. Head(backlog) \in Client /\ Tail(backlog) \in Seq(Client)
    BY <1>3, HeadTailProperties DEF AcceptFails
  <2>2. ClosedPeer \in Peer
    BY EmptySeq DEF ClosedPeer, Peer
  <2> QED  BY <1>3, <2>1, <2>2 DEF AcceptFails
<1> QED  BY <1>1, <1>2, <1>3 DEF Accepts

LEMMA UnreadType ==
    ASSUME TypeOK, cur \in FD
    PROVE  /\ Unread \in Seq(Record)
           /\ Unread # <<>> => sock[cur] \in Client /\ Unread = peer[sock[cur]].inq
<1>1. CASE sock[cur] = None
  BY <1>1, EmptySeq DEF Unread
<1>2. CASE sock[cur] # None
  <2>1. sock[cur] \in Client
    BY <1>2 DEF TypeOK
  <2> QED  BY <1>2, <2>1 DEF Unread, TypeOK, Peer
<1> QED  BY <1>1, <1>2

LEMMA TakeInputType ==
    ASSUME TypeOK, cur \in FD, NEW n \in 1..Len(Unread), TakeInput(n)
    PROVE  peer' \in [Client -> Peer]
<1>1. Unread \in Seq(Record) /\ sock[cur] \in Client /\ Unread = peer[sock[cur]].inq
  BY UnreadType, EmptySeq
<1>2. SubSeq(Unread, n + 1, Len(Unread)) \in Seq(Record)
  BY <1>1, SubSeqProperties
<1>3. [peer[sock[cur]] EXCEPT !.inq = SubSeq(Unread, n + 1, Len(Unread))] \in Peer
  <2>1. peer[sock[cur]] \in Peer
    BY <1>1 DEF TypeOK
  <2> HIDE DEF Unread
  <2> QED  BY <1>2, <2>1 DEF Peer
<1>4. peer' = [peer EXCEPT ![sock[cur]] =
                 [peer[sock[cur]] EXCEPT !.inq = SubSeq(Unread, n + 1, Len(Unread))]]
  BY <1>1 DEF TakeInput
<1> QED  BY <1>1, <1>3, <1>4 DEF TypeOK

LEMMA ReceivesType ==
    ASSUME TypeOK, Receives
    PROVE  TypeOK'
<1> USE DEF kernelVars, loopVars, tableVars
<1> cur \in FD /\ pc = "recv"
  BY DEF TypeOK, InCallback, Receives, RecvFinished, RecvBadHandshake, RecvChunk,
         RecvEnd, RecvAgain
<1>1. CASE RecvFinished
  <2>1. PICK n \in 1..Len(Unread) :
          /\ TakeInput(n)
          /\ tls' = [tls EXCEPT ![cur] =
                       [state |-> "established", buf |-> SubSeq(Unread, 2, n)]]
    BY <1>1 DEF RecvFinished
  <2>2. Unread \in Seq(Record) /\ Unread # <<>> /\ sock[cur] \in Client
    BY UnreadType, EmptySeq
  <2>3. SubSeq(Unread, 2, n) \in Seq(Record)
    BY <2>2, SubSeqProperties
  <2>4. tls' \in [FD -> Session]
    BY <2>1, <2>3 DEF TypeOK, Session
  <2>5. conn' \in [FD -> Entry]
    BY <1>1, <2>2, EmptySeq DEF RecvFinished, TypeOK, Entry, ConnState
  <2>6. peer' \in [Client -> Peer]
    BY <2>1, TakeInputType
  <2> QED  BY <1>1, <2>4, <2>5, <2>6 DEF RecvFinished, TypeOK, InCallback
<1>2. CASE RecvBadHandshake
  BY <1>2, ReleaseSocketType, RemoveClientType
     DEF RecvBadHandshake, RemoveClient, TypeOK, InCallback
<1>3. CASE RecvChunk
  <2>1. PICK n \in 1..Len(Unread) :
          /\ TakeInput(n)
          /\ tls' = [tls EXCEPT ![cur].buf = @ \o SubSeq(Unread, 1, n)]
    BY <1>3 DEF RecvChunk
  <2>2. SubSeq(Unread, 1, n) \in Seq(Record)
    BY UnreadType, SubSeqProperties
  <2>3. tls[cur].buf \o SubSeq(Unread, 1, n) \in Seq(Record)
    BY <2>2, ConcatProperties DEF TypeOK, Session
  <2>4. tls' \in [FD -> Session]
    BY <2>1, <2>3 DEF TypeOK, Session
  <2>5. peer' \in [Client -> Peer]
    BY <2>1, TakeInputType
  <2> QED  BY <1>3, <2>4, <2>5 DEF RecvChunk, TypeOK, InCallback, Place
<1>4. CASE RecvEnd
  BY <1>4, ReleaseSocketType, RemoveClientType
     DEF RecvEnd, RemoveClient, TypeOK, InCallback, Place
<1>5. CASE RecvAgain
  BY <1>5 DEF RecvAgain, TypeOK, InCallback, Place
<1> QED  BY <1>1, <1>2, <1>3, <1>4, <1>5 DEF Receives

LEMMA SslReadsType ==
    ASSUME TypeOK, SslReads
    PROVE  TypeOK'
<1> USE DEF kernelVars, loopVars, tableVars
<1> cur \in FD /\ pc = "ssl"
  BY DEF TypeOK, InCallback, SslReads, DanglingReadFails, DanglingWantRead,
         DanglingCrash, SslDangling, SslWantRead, SslReadFails, Upgrade,
         RejectRequest, FrameRecord, NextRecord
<1>1. CASE DanglingReadFails
  BY <1>1, ReleaseSocketType, RemoveClientType
     DEF DanglingReadFails, RemoveClient, TypeOK, InCallback, Place
<1>2. CASE DanglingWantRead
  BY <1>2 DEF DanglingWantRead, TypeOK, InCallback, Place
<1>3. CASE DanglingCrash
  BY <1>3 DEF DanglingCrash, TypeOK, InCallback, Place
<1>4. CASE SslWantRead
  BY <1>4 DEF SslWantRead, TypeOK, InCallback, Place
<1>5. CASE SslReadFails
  BY <1>5, ReleaseSocketType, RemoveClientType
     DEF SslReadFails, RemoveClient, TypeOK, InCallback, Place
<1>6. CASE Upgrade
  <2>1. tls' \in [FD -> Session]
    <3>1. Tail(tls[cur].buf) \in Seq(Record)
      BY <1>6, HeadTailProperties DEF Upgrade, NextRecord, TypeOK, Session
    <3> QED  BY <1>6, <3>1 DEF Upgrade, TypeOK, Session
  <2>2. conn' \in [FD -> Entry]
    BY <1>6 DEF Upgrade, TypeOK, Entry, ConnState
  <2> QED  BY <1>6, <2>1, <2>2 DEF Upgrade, TypeOK, InCallback, Place
<1>7. CASE RejectRequest
  <2>1. conn' \in [FD -> Entry]
    BY <1>7 DEF RejectRequest, TlsCloseConnection, TypeOK, Entry, ConnState
  <2> QED  BY <1>7, <2>1, ReleaseSocketType
           DEF RejectRequest, TlsCloseConnection, TypeOK, InCallback, Place
<1>8. CASE FrameRecord
  <2>1. PICK n \in 1..Len(tls[cur].buf) :
          /\ tls' = [tls EXCEPT ![cur].buf = SubSeq(@, n + 1, Len(@))]
          /\ conn' = [conn EXCEPT ![cur].buf = @ \o SubSeq(tls[cur].buf, 1, n)]
    BY <1>8 DEF FrameRecord
  <2>2. tls[cur].buf \in Seq(Record) /\ conn[cur].buf \in Seq(Record)
    BY DEF TypeOK, Session, Entry
  <2>3. /\ SubSeq(tls[cur].buf, n + 1, Len(tls[cur].buf)) \in Seq(Record)
        /\ SubSeq(tls[cur].buf, 1, n) \in Seq(Record)
    BY <2>2, SubSeqProperties
  <2>4. conn[cur].buf \o SubSeq(tls[cur].buf, 1, n) \in Seq(Record)
    BY <2>2, <2>3, ConcatProperties
  <2>5. tls' \in [FD -> Session]
    BY <2>1, <2>3 DEF TypeOK, Session
  <2>6. conn' \in [FD -> Entry]
    BY <2>1, <2>4 DEF TypeOK, Entry
  <2> QED  BY <1>8, <2>5, <2>6 DEF FrameRecord, TypeOK, InCallback, Place
<1> QED  BY <1>1, <1>2, <1>3, <1>4, <1>5, <1>6, <1>7, <1>8 DEF SslReads

LEMMA FrameLoopType ==
    ASSUME TypeOK, FrameLoop
    PROVE  TypeOK'
<1> USE DEF kernelVars, loopVars, tableVars
<1> cur \in FD /\ pc = "frames"
  BY DEF TypeOK, InCallback, FrameLoop, FramesDone, AcceptAnswer, RejectAnswer,
         IgnoreFrame, Pong, CloseFrame, NextFrame
<1>0. conn \in [FD -> Entry] /\ conn[cur] \in Entry
  BY DEF TypeOK
<1>e. ASSUME conn[cur].buf # <<>>
      PROVE  /\ [conn[cur] EXCEPT !.buf = Tail(@)] \in Entry
             /\ \A s \in ConnState :
                  [conn[cur] EXCEPT !.state = s, !.buf = Tail(@)] \in Entry
  <2>1. Tail(conn[cur].buf) \in Seq(Record)
    BY <1>0, <1>e, HeadTailProperties DEF Entry
  <2> QED  BY <1>0, <2>1 DEF Entry
<1>s. {"STREAMING", "CLOSING"} \subseteq ConnState
  BY DEF ConnState
<1>1. CASE FramesDone
  BY <1>1 DEF FramesDone, TypeOK, InCallback, Place
<1>2. CASE AcceptAnswer
  <2>0. [conn[cur] EXCEPT !.state = "STREAMING", !.buf = Tail(@)] \in Entry
    BY <1>e, <1>s, <1>2 DEF AcceptAnswer, NextFrame
  <2>1. conn' \in [FD -> Entry]
    BY <1>0, <1>2, <2>0 DEF AcceptAnswer
  <2>2. UNCHANGED <<kernelVars, loopVars, tls>>
    BY <1>2 DEF AcceptAnswer
  <2> QED  BY <2>1, <2>2 DEF TypeOK, InCallback
<1>3. CASE RejectAnswer
  <2>0. [conn[cur] EXCEPT !.state = "CLOSING", !.buf = Tail(@)] \in Entry
    BY <1>e, <1>s, <1>3 DEF RejectAnswer, NextFrame
  <2>1. conn' \in [FD -> Entry]
    BY <1>0, <1>3, <2>0 DEF RejectAnswer
  <2> QED  BY <1>3, <2>1, ReleaseSocketType DEF RejectAnswer, TypeOK, InCallback
<1>4. CASE IgnoreFrame \/ Pong
  <2>0. [conn[cur] EXCEPT !.buf = Tail(@)] \in Entry
    BY <1>e, <1>4 DEF IgnoreFrame, Pong, NextFrame
  <2>1. conn' \in [FD -> Entry]
    BY <1>0, <1>4, <2>0 DEF IgnoreFrame, Pong
  <2>2. UNCHANGED <<kernelVars, loopVars, tls>>
    BY <1>4 DEF IgnoreFrame, Pong
  <2> QED  BY <2>1, <2>2 DEF TypeOK, InCallback
<1>5. CASE CloseFrame
  <2>0. [conn[cur] EXCEPT !.state = "CLOSING", !.buf = Tail(@)] \in Entry
    BY <1>e, <1>s, <1>5 DEF CloseFrame, NextFrame
  <2>1. conn' \in [FD -> Entry]
    BY <1>0, <1>5, <2>0 DEF CloseFrame
  <2> QED  BY <1>5, <2>1, ReleaseSocketType DEF CloseFrame, TypeOK, InCallback, Place
<1> QED  BY <1>1, <1>2, <1>3, <1>4, <1>5 DEF FrameLoop

LEMMA OnTimerType ==
    ASSUME TypeOK, OnTimer
    PROVE  TypeOK'
<1> USE DEF kernelVars, loopVars, tableVars
<1>1. CASE TimerTimeout
  <2>1. PICK f \in FD : conn' = [conn EXCEPT ![f].state = "CLOSING"]
    BY <1>1 DEF TimerTimeout, TypeOK
  <2>2. conn' \in [FD -> Entry]
    BY <2>1 DEF TypeOK, Entry, ConnState
  <2> QED  BY <1>1, <2>2 DEF TimerTimeout, TypeOK, InCallback
<1>2. CASE TimerStream \/ TimerSkip \/ TimerDone
  BY <1>2 DEF TimerStream, TimerSkip, TimerDone, TypeOK, InCallback, Place
<1>3. CASE TimerClose
  <2>1. PICK f \in timeouts : TlsCloseConnection(f, "CLOSING") /\ timeouts' = timeouts \ {f}
    BY <1>3 DEF TimerClose
  <2>2. f \in FD
    BY <2>1 DEF TypeOK
  <2>3. conn' \in [FD -> Entry]
    BY <2>1, <2>2 DEF TlsCloseConnection, TypeOK, Entry, ConnState
  <2> QED  BY <1>3, <2>1, <2>2, <2>3, ReleaseSocketType
           DEF TimerClose, TlsCloseConnection, TypeOK, InCallback
<1> QED  BY <1>1, <1>2, <1>3 DEF OnTimer

LEMMA ShutdownType ==
    ASSUME TypeOK, Shutdown
    PROVE  TypeOK'
<1>1. /\ ClosedPeer \in Peer /\ NoSession \in Session /\ NoEntry \in Entry
      /\ <<>> \in Seq(Client)
  BY EmptySeq DEF ClosedPeer, Peer, NoSession, Session, NoEntry, Entry
<1> QED  BY <1>1 DEF Shutdown, TypeOK, Place, InCallback

\* Every variable keeps its type in every reachable state.
THEOREM TypeCorrect == Spec => []TypeOK
<1>1. TypeOK /\ [Next]_vars => TypeOK'
  <2> SUFFICES ASSUME TypeOK, [Next]_vars PROVE TypeOK'
    OBVIOUS
  <2>1. CASE UNCHANGED vars
    BY <2>1 DEF vars, kernelVars, loopVars, tableVars, TypeOK, InCallback
  <2> QED
    BY <2>1, EventsType, AcceptsType, ReceivesType, SslReadsType, FrameLoopType,
       OnTimerType, ShutdownType, PeersType, TimeType
       DEF Next, Server, Gone
<1> QED  BY <1>1, InitType, PTL DEF Spec

(***************************************************************************)
(* The tables keyed by descriptor agree, so media only goes to live        *)
(* sessions and no callback holds a pointer to an erased entry.            *)
(***************************************************************************)

\* Closing f leaves the tables in agreement if its entry is erased or not in
\* a media state afterwards, and the entries of others are left alone.
LEMMA ReleaseAgrees ==
    ASSUME TypeOK, TablesAgree, NEW f \in FD, ReleaseSocket(f),
           \A g \in FD \ {f} : conn'[g] = conn[g],
           conn'[f].state \notin {"NEGOTIATING", "STREAMING"}
    PROVE  TablesAgree'
<1> SUFFICES ASSUME NEW g \in FD
             PROVE  /\ sock'[g] = None <=> tls'[g].state = "none"
                    /\ tls'[g].state = "established" =>
                         conn'[g].state # "none" /\ conn'[g].owner = sock'[g]
                    /\ conn'[g].state \in {"NEGOTIATING", "STREAMING"} =>
                         tls'[g].state = "established"
  BY DEF TablesAgree
<1>1. CASE g = f
  BY <1>1 DEF ReleaseSocket, NoSession, TypeOK
<1>2. CASE g # f
  BY <1>2 DEF ReleaseSocket, TypeOK, TablesAgree
<1> QED  BY <1>1, <1>2

LEMMA RemoveAgrees ==
    ASSUME TypeOK, TablesAgree, NEW f \in FD, RemoveClient(f)
    PROVE  /\ TablesAgree'
           /\ \A g \in FD \ {f} : conn'[g] = conn[g]
<1>1. conn'[f].state \notin {"NEGOTIATING", "STREAMING"}
  BY DEF RemoveClient, NoEntry, TypeOK, TablesAgree
<1>2. \A g \in FD \ {f} : conn'[g] = conn[g]
  BY DEF RemoveClient, TypeOK
<1> QED  BY <1>1, <1>2, ReleaseAgrees DEF RemoveClient

LEMMA InitInv == Init => IInv
<1> SUFFICES ASSUME Init PROVE IInv
  OBVIOUS
<1> QED  BY InitType DEF Init, IInv, TablesAgree, TimerIdle, NoDanglingEntry,
                         NoSession, NoEntry

LEMMA PeersInv ==
    ASSUME IInv, Peers \/ Time
    PROVE  IInv'
<1>1. TypeOK'
  BY PeersType, TimeType DEF IInv
<1>2. CASE UNCHANGED <<sock, loopVars, tableVars>>
  BY <1>1, <1>2 DEF IInv, TablesAgree, TimerIdle, NoDanglingEntry, loopVars, tableVars
<1>3. CASE \E f \in FD : OfferAges(f)
  <2>1. PICK f \in FD : OfferAges(f)
    BY <1>3
  <2>2. \A g \in FD : conn'[g].state = conn[g].state /\ conn'[g].owner = conn[g].owner
    BY <2>1 DEF OfferAges, IInv, TypeOK, Entry
  <2> QED  BY <1>1, <2>1, <2>2
           DEF OfferAges, IInv, TypeOK, InCallback, TablesAgree, TimerIdle, NoDanglingEntry,
               kernelVars, loopVars
<1>4. CASE Peers
  BY <1>2, <1>4 DEF Peers, Connect, Send, CloseWrite, Reset, StopReading, Resume
<1> QED
  BY <1>2, <1>3, <1>4 DEF Time, TimerExpires, SignalHandler

LEMMA EventsInv ==
    ASSUME IInv, Events
    PROVE  IInv'
<1>1. TypeOK'
  BY EventsType DEF IInv
<1> USE DEF IInv, TimerIdle, NoDanglingEntry
<1>2. CASE EpollWait \/ DispatchListener \/ DispatchInput
  BY <1>1, <1>2 DEF EpollWait, DispatchListener, DispatchInput, TablesAgree,
                    kernelVars, tableVars
<1>3. CASE DispatchTimer
  BY <1>1, <1>3 DEF DispatchTimer, TablesAgree, tableVars
<1>4. CASE DispatchError
  <2>1. PICK e \in batch : e.fd \in FD /\ RemoveClient(e.fd)
    BY <1>4 DEF DispatchError
  <2>2. TablesAgree'
    BY <2>1, RemoveAgrees
  <2> QED  BY <1>1, <1>4, <2>2 DEF DispatchError
<1> QED  BY <1>2, <1>3, <1>4 DEF Events

LEMMA AcceptsInv ==
    ASSUME IInv, Accepts
    PROVE  IInv'
<1>1. TypeOK'
  BY AcceptsType DEF IInv
<1> USE DEF IInv, TimerIdle, NoDanglingEntry
<1>2. CASE AcceptDone \/ AcceptFails
  BY <1>1, <1>2 DEF AcceptDone, AcceptFails, TablesAgree, kernelVars, tableVars, loopVars
<1>3. CASE Accept
  <2>1. PICK f \in FD :
          /\ sock[f] = None
          /\ sock' = [sock EXCEPT ![f] = Head(backlog)]
          /\ tls' = [tls EXCEPT ![f] = [state |-> "handshaking", buf |-> <<>>]]
    BY <1>3 DEF Accept, LowestFree
  <2>2. Head(backlog) # None
    BY <1>3, HeadTailProperties, NoneAssumption DEF Accept, TypeOK
  <2>3. TablesAgree'
    <3> SUFFICES ASSUME NEW g \in FD
                 PROVE  /\ sock'[g] = None <=> tls'[g].state = "none"
                        /\ tls'[g].state = "established" =>
                             conn'[g].state # "none" /\ conn'[g].owner = sock'[g]
                        /\ conn'[g].state \in {"NEGOTIATING", "STREAMING"} =>
                             tls'[g].state = "established"
      BY DEF TablesAgree
    <3>1. conn' = conn
      BY <1>3 DEF Accept
    <3>2. CASE g = f
      BY <2>1, <2>2, <3>1, <3>2 DEF TypeOK, TablesAgree
    <3>3. CASE g # f
      BY <2>1, <3>1, <3>3 DEF TypeOK, TablesAgree
    <3> QED  BY <3>2, <3>3
  <2> QED  BY <1>1, <1>3, <2>3 DEF Accept, loopVars
<1> QED  BY <1>2, <1>3 DEF Accepts

\* A change of buffers only.
LEMMA SameStates ==
    ASSUME TypeOK, TablesAgree, TypeOK', sock' = sock,
           \A g \in FD : tls'[g].state = tls[g].state,
           \A g \in FD : conn'[g].state = conn[g].state /\ conn'[g].owner = conn[g].owner
    PROVE  TablesAgree'
BY DEF TablesAgree

LEMMA ReceivesInv ==
    ASSUME IInv, Receives
    PROVE  IInv'
<1> USE DEF IInv, TimerIdle, NoDanglingEntry
<1>1. TypeOK'
  BY ReceivesType
<1>a. cur \in FD /\ pc = "recv"
  BY DEF TypeOK, InCallback, Receives, RecvFinished, RecvBadHandshake, RecvChunk,
         RecvEnd, RecvAgain
<1>2. CASE RecvFinished
  <2>1. PICK b \in Seq(Record) :
          tls' = [tls EXCEPT ![cur] = [state |-> "established", buf |-> b]]
    <3>1. PICK n \in 1..Len(Unread) :
            tls' = [tls EXCEPT ![cur] =
                      [state |-> "established", buf |-> SubSeq(Unread, 2, n)]]
      BY <1>2 DEF RecvFinished
    <3>2. SubSeq(Unread, 2, n) \in Seq(Record)
      BY <1>a, UnreadType, SubSeqProperties
    <3> QED  BY <3>1, <3>2
  <2>2. sock[cur] # None
    BY <1>a, <1>2 DEF RecvFinished, TablesAgree
  <2>3. TablesAgree'
    <3> SUFFICES ASSUME NEW g \in FD
                 PROVE  /\ sock'[g] = None <=> tls'[g].state = "none"
                        /\ tls'[g].state = "established" =>
                             conn'[g].state # "none" /\ conn'[g].owner = sock'[g]
                        /\ conn'[g].state \in {"NEGOTIATING", "STREAMING"} =>
                             tls'[g].state = "established"
      BY DEF TablesAgree
    <3>1. CASE g = cur
      BY <1>2, <2>1, <2>2, <3>1 DEF RecvFinished, TypeOK
    <3>2. CASE g # cur
      BY <1>2, <2>1, <3>2 DEF RecvFinished, TypeOK, TablesAgree
    <3> QED  BY <3>1, <3>2
  <2> QED  BY <1>1, <1>a, <1>2, <2>3 DEF RecvFinished, loopVars
<1>3. CASE RecvBadHandshake \/ RecvEnd
  <2>1. RemoveClient(cur)
    BY <1>3 DEF RecvBadHandshake, RecvEnd
  <2>2. TablesAgree'
    BY <1>a, <2>1, RemoveAgrees
  <2> QED  BY <1>1, <1>a, <1>3, <2>2 DEF RecvBadHandshake, RecvEnd, loopVars
<1>4. CASE RecvChunk
  <2>1. PICK b : tls' = [tls EXCEPT ![cur].buf = b]
    BY <1>4 DEF RecvChunk
  <2>2. \A g \in FD : tls'[g].state = tls[g].state
    BY <2>1 DEF TypeOK, Session
  <2>3. TablesAgree'
    BY <1>1, <1>4, <2>2, SameStates DEF RecvChunk
  <2> QED  BY <1>1, <1>a, <1>4, <2>3 DEF RecvChunk
<1>5. CASE RecvAgain
  BY <1>1, <1>a, <1>5 DEF RecvAgain, TablesAgree, kernelVars, tableVars
<1> QED  BY <1>2, <1>3, <1>4, <1>5 DEF Receives

LEMMA SslReadsInv ==
    ASSUME IInv, SslReads
    PROVE  IInv'
<1> USE DEF IInv, TimerIdle, NoDanglingEntry
<1>1. TypeOK'
  BY SslReadsType
<1>a. cur \in FD /\ pc = "ssl"
  BY DEF TypeOK, InCallback, SslReads, DanglingReadFails, DanglingWantRead,
         DanglingCrash, SslDangling, SslWantRead, SslReadFails, Upgrade,
         RejectRequest, FrameRecord, NextRecord
<1>2. CASE DanglingReadFails \/ SslReadFails
  <2>1. RemoveClient(cur)
    BY <1>2 DEF DanglingReadFails, SslReadFails
  <2>2. TablesAgree'
    BY <1>a, <2>1, RemoveAgrees
  <2> QED  BY <1>1, <1>a, <1>2, <2>2 DEF DanglingReadFails, SslReadFails
<1>3. CASE DanglingWantRead \/ DanglingCrash \/ SslWantRead
  BY <1>1, <1>a, <1>3 DEF DanglingWantRead, DanglingCrash, SslWantRead, TablesAgree,
                          kernelVars, tableVars
<1>4. CASE Upgrade
  <2>1. /\ \A g \in FD : tls'[g].state = tls[g].state
        /\ \A g \in FD \ {cur} : conn'[g] = conn[g]
        /\ conn'[cur].state # "none" /\ conn'[cur].owner = conn[cur].owner
        /\ tls[cur].state = "established"
    BY <1>a, <1>4 DEF Upgrade, NextRecord, TypeOK, Session, Entry
  <2>2. TablesAgree'
    BY <1>4, <2>1 DEF Upgrade, TablesAgree, kernelVars
  <2> QED  BY <1>1, <1>a, <1>4, <2>2 DEF Upgrade, loopVars
<1>5. CASE RejectRequest
  <2>1. /\ ReleaseSocket(cur)
        /\ conn' = [conn EXCEPT ![cur].state = "HANDSHAKING_WS"]
    BY <1>5 DEF RejectRequest, TlsCloseConnection
  <2>2. TablesAgree'
    BY <1>a, <2>1, ReleaseAgrees DEF TypeOK, Entry
  <2> QED  BY <1>1, <1>a, <1>5, <2>2 DEF RejectRequest, loopVars
<1>6. CASE FrameRecord
  <2>1. PICK b, d : /\ tls' = [tls EXCEPT ![cur].buf = b]
                    /\ conn' = [conn EXCEPT ![cur].buf = d]
    BY <1>6 DEF FrameRecord
  <2>2. /\ \A g \in FD : tls'[g].state = tls[g].state
        /\ \A g \in FD : conn'[g].state = conn[g].state /\ conn'[g].owner = conn[g].owner
    BY <2>1 DEF TypeOK, Session, Entry
  <2>3. TablesAgree'
    BY <1>1, <1>6, <2>2, SameStates DEF FrameRecord, kernelVars
  <2>4. conn[cur].state # "none"
    BY <1>a, <1>6 DEF FrameRecord, NextRecord, TablesAgree
  <2> QED  BY <1>1, <1>a, <1>6, <2>2, <2>3, <2>4 DEF FrameRecord
<1> QED  BY <1>2, <1>3, <1>4, <1>5, <1>6 DEF SslReads

LEMMA FrameLoopInv ==
    ASSUME IInv, FrameLoop
    PROVE  IInv'
<1> USE DEF IInv, TimerIdle, NoDanglingEntry
<1>1. TypeOK'
  BY FrameLoopType
<1>a. cur \in FD /\ pc = "frames" /\ cur' = cur
  BY DEF TypeOK, InCallback, FrameLoop, FramesDone, AcceptAnswer, RejectAnswer,
         IgnoreFrame, Pong, CloseFrame, NextFrame, loopVars
<1>2. CASE FramesDone
  BY <1>1, <1>a, <1>2 DEF FramesDone, TablesAgree, kernelVars, tableVars
<1>3. CASE AcceptAnswer
  <2>1. /\ \A g \in FD \ {cur} : conn'[g] = conn[g]
        /\ conn'[cur].state = "STREAMING" /\ conn'[cur].owner = conn[cur].owner
        /\ tls[cur].state = "established"
    BY <1>a, <1>3 DEF AcceptAnswer, TypeOK, Entry, ConnState, TablesAgree
  <2>2. TablesAgree'
    BY <1>3, <2>1 DEF AcceptAnswer, TablesAgree, kernelVars
  <2> QED  BY <1>1, <1>a, <1>3, <2>1, <2>2 DEF AcceptAnswer, loopVars
<1>4. CASE RejectAnswer \/ CloseFrame
  <2>1. /\ ReleaseSocket(cur)
        /\ conn' = [conn EXCEPT ![cur].state = "CLOSING", ![cur].buf = Tail(@)]
    BY <1>4 DEF RejectAnswer, CloseFrame
  <2>2. conn'[cur].state = "CLOSING" /\ \A g \in FD \ {cur} : conn'[g] = conn[g]
    BY <1>a, <2>1 DEF TypeOK, Entry
  <2>3. TablesAgree'
    BY <1>a, <2>1, <2>2, ReleaseAgrees
  <2> QED  BY <1>1, <1>a, <1>4, <2>2, <2>3 DEF RejectAnswer, CloseFrame, loopVars
<1>5. CASE IgnoreFrame \/ Pong
  <2>1. conn' = [conn EXCEPT ![cur].buf = Tail(@)]
    BY <1>5 DEF IgnoreFrame, Pong
  <2>2. \A g \in FD : conn'[g].state = conn[g].state /\ conn'[g].owner = conn[g].owner
    BY <2>1 DEF TypeOK, Entry
  <2>3. TablesAgree'
    BY <1>1, <1>5, <2>2, SameStates DEF IgnoreFrame, Pong, kernelVars
  <2> QED  BY <1>1, <1>a, <1>5, <2>2, <2>3 DEF IgnoreFrame, Pong, loopVars
<1> QED  BY <1>2, <1>3, <1>4, <1>5 DEF FrameLoop

LEMMA OnTimerInv ==
    ASSUME IInv, OnTimer
    PROVE  IInv'
<1> USE DEF IInv, TimerIdle, NoDanglingEntry
<1>1. TypeOK'
  BY OnTimerType
<1>a. pc = "timer"
  BY DEF OnTimer, TimerTimeout, TimerStream, TimerSkip, TimerClose, TimerDone
<1>2. CASE TimerTimeout
  <2>1. PICK f \in visit :
          /\ conn' = [conn EXCEPT ![f].state = "CLOSING"]
          /\ timeouts' = timeouts \cup {f}
          /\ visit' = visit \ {f}
    BY <1>2 DEF TimerTimeout
  <2>2. /\ f \in FD
        /\ conn'[f].state = "CLOSING" /\ conn'[f].owner = conn[f].owner
        /\ \A g \in FD \ {f} : conn'[g] = conn[g]
    BY <2>1 DEF TypeOK, Entry
  <2>3. TablesAgree'
    BY <1>2, <2>2 DEF TimerTimeout, TablesAgree, kernelVars
  <2>4. \A g \in visit' \cup timeouts' : conn'[g].state # "none"
    BY <2>1, <2>2 DEF TypeOK
  <2> QED  BY <1>1, <1>a, <1>2, <2>3, <2>4 DEF TimerTimeout
<1>3. CASE TimerStream \/ TimerSkip \/ TimerDone
  BY <1>1, <1>a, <1>3 DEF TimerStream, TimerSkip, TimerDone, TablesAgree,
                          kernelVars, tableVars
<1>4. CASE TimerClose
  <2>1. PICK f \in timeouts :
          /\ TlsCloseConnection(f, "CLOSING")
          /\ timeouts' = timeouts \ {f}
    BY <1>4 DEF TimerClose
  <2>2. /\ f \in FD
        /\ conn'[f].state = "CLOSING"
        /\ \A g \in FD \ {f} : conn'[g] = conn[g]
    BY <2>1 DEF TlsCloseConnection, TypeOK, Entry
  <2>3. TablesAgree'
    BY <2>1, <2>2, ReleaseAgrees DEF TlsCloseConnection
  <2>4. \A g \in visit' \cup timeouts' : conn'[g].state # "none"
    BY <1>4, <2>1, <2>2 DEF TimerClose, TypeOK
  <2> QED  BY <1>1, <1>a, <1>4, <2>3, <2>4 DEF TimerClose
<1> QED  BY <1>2, <1>3, <1>4 DEF OnTimer

LEMMA ShutdownInv ==
    ASSUME IInv, Shutdown
    PROVE  IInv'
BY ShutdownType DEF IInv, Shutdown, TablesAgree, TimerIdle, NoDanglingEntry,
                    NoSession, NoEntry

\* The tables agree, OnTimer leaves nothing behind, and no callback holds a
\* pointer to an erased entry, in every reachable state.
THEOREM Invariance == Spec => []IInv
<1>1. IInv /\ [Next]_vars => IInv'
  <2> SUFFICES ASSUME IInv, [Next]_vars PROVE IInv'
    OBVIOUS
  <2>1. CASE UNCHANGED vars
    BY <2>1 DEF vars, kernelVars, loopVars, tableVars, IInv, TypeOK, InCallback,
                TablesAgree, TimerIdle, NoDanglingEntry
  <2> QED
    BY <2>1, EventsInv, AcceptsInv, ReceivesInv, SslReadsInv, FrameLoopInv,
       OnTimerInv, ShutdownInv, PeersInv
       DEF Next, Server, Gone
<1> QED  BY <1>1, InitInv, PTL DEF Spec

\* Media and negotiation only ever concern a live session of the peer the
\* entry was made for, however descriptors are reused.
THEOREM MediaOnLiveSessionHolds == Spec => []MediaOnLiveSession
<1>1. IInv => MediaOnLiveSession
  BY DEF IInv, TablesAgree, MediaOnLiveSession
<1> QED  BY <1>1, Invariance, PTL

\* No callback uses an entry that has been erased from the table.
THEOREM NoDanglingEntryHolds == Spec => []NoDanglingEntry
<1>1. IInv => NoDanglingEntry
  BY DEF IInv
<1> QED  BY <1>1, Invariance, PTL

(***************************************************************************)
(* No edge is lost: input that recv() has not returned is accounted for.   *)
(* Only one thread runs, so the argument goes over the positions of pc.    *)
(***************************************************************************)

\* Closing f removes its input, and nobody else's.
LEMMA ReleaseInput ==
    ASSUME TypeOK, NEW f \in FD, ReleaseSocket(f)
    PROVE  /\ ~HasInput(f)'
           /\ \A g \in FD : HasInput(g)' => HasInput(g)
           /\ \A g \in FD \ {f} : g \in armed => g \in armed'
<1>1. ~HasInput(f)'
  BY DEF ReleaseSocket, HasInput, TypeOK
<1>2. ASSUME NEW g \in FD, HasInput(g)' PROVE HasInput(g)
  <2>1. g # f /\ sock'[g] = sock[g] /\ sock[g] # None
    BY <1>1, <1>2 DEF ReleaseSocket, HasInput, TypeOK
  <2>2. sock[g] \in Client
    BY <2>1 DEF TypeOK
  <2>3. CASE sock[g] = sock[f]
    BY <1>2, <2>1, <2>2, <2>3 DEF HasInput, ReleaseSocket, ClosedPeer
  <2>4. CASE sock[g] # sock[f]
    BY <1>2, <2>1, <2>2, <2>4 DEF HasInput, ReleaseSocket
  <2> QED  BY <2>3, <2>4
<1> QED  BY <1>1, <1>2 DEF ReleaseSocket

\* Taking input at cur leaves what the others have alone.
LEMMA TakeInputElsewhere ==
    ASSUME TypeOK, cur \in FD, NEW n \in 1..Len(Unread), TakeInput(n), sock' = sock
    PROVE  \A g \in FD : HasInput(g)' => HasInput(g)
<1>1. Unread # <<>> /\ sock[cur] \in Client /\ Unread = peer[sock[cur]].inq
  BY UnreadType, EmptySeq
<1>2. ASSUME NEW g \in FD, HasInput(g)' PROVE HasInput(g)
  <2>1. sock[g] \in Client /\ sock[g] # None
    BY <1>2 DEF HasInput, TypeOK
  <2>2. CASE sock[g] = sock[cur]
    BY <1>1, <2>1, <2>2 DEF HasInput
  <2>3. CASE sock[g] # sock[cur]
    BY <1>1, <1>2, <2>1, <2>3 DEF HasInput, TakeInput, TypeOK
  <2> QED  BY <2>2, <2>3
<1> QED  BY <1>2

LEMMA PeersEdge ==
    ASSUME TypeOK, EdgeKept, Peers \/ Time
    PROVE  EdgeKept'
<1> USE DEF kernelVars, loopVars, tableVars
<1>1. CASE UNCHANGED <<sock, armed, batch, pc, cur>>
           /\ \A f \in FD : HasInput(f)' => HasInput(f)
  BY <1>1 DEF EdgeKept, AccountedFor, InCallback
<1>2. CASE Time
  BY <1>1, <1>2 DEF Time, TimerExpires, SignalHandler, OfferAges, HasInput
<1>3. CASE Peers
  <2>1. PICK c \in Client :
          Connect(c) \/ Send(c) \/ CloseWrite(c) \/ Reset(c) \/ StopReading(c) \/ Resume(c)
    BY <1>3 DEF Peers
  <2>2. CASE Connect(c) \/ StopReading(c) \/ Resume(c)
    <3>1. \A d \in Client : peer'[d].inq = peer[d].inq /\ peer'[d].side = peer[d].side
      <4>1. CASE Connect(c)
        BY <4>1 DEF Connect, TypeOK, Peer
      <4>2. CASE StopReading(c)
        BY <4>2 DEF StopReading, TypeOK, Peer
      <4>3. CASE Resume(c)
        BY <4>3 DEF Resume, TypeOK, Peer
      <4> QED  BY <2>2, <4>1, <4>2, <4>3
    <3>2. UNCHANGED <<sock, armed, batch, pc, cur>>
      BY <2>2 DEF Connect, StopReading, Resume
    <3>3. \A f \in FD : HasInput(f)' => HasInput(f)
      BY <3>1, <3>2 DEF HasInput, TypeOK
    <3> QED  BY <1>1, <3>2, <3>3
  <2>3. CASE Send(c) \/ CloseWrite(c) \/ Reset(c)
    <3>1. /\ \A d \in Client \ {c} : peer'[d] = peer[d]
          /\ UNCHANGED <<sock, batch, pc, cur>>
          /\ armed' = armed \cup {f \in FD : sock[f] = c}
      BY <2>3 DEF Send, CloseWrite, Reset, Edge, TypeOK
    <3>2. ASSUME NEW f \in FD, HasInput(f)', Running PROVE AccountedFor(f)'
      <4>1. CASE sock[f] = c
        BY <3>1, <4>1 DEF AccountedFor
      <4>2. CASE sock[f] # c
        BY <3>1, <3>2, <4>2 DEF EdgeKept, HasInput, AccountedFor, InCallback, TypeOK
      <4> QED  BY <4>1, <4>2
    <3> QED  BY <3>1, <3>2 DEF EdgeKept
  <2> QED  BY <2>1, <2>2, <2>3
<1> QED  BY <1>2, <1>3

LEMMA EventsEdge ==
    ASSUME TypeOK, EdgeKept, Events
    PROVE  EdgeKept'
<1> USE DEF kernelVars, loopVars, tableVars
<1>a. pc = "loop"
  BY DEF Events, EpollWait, DispatchListener, DispatchTimer, DispatchError, DispatchInput
<1>b. \A f \in FD : HasInput(f) => AccountedFor(f)
  BY <1>a DEF EdgeKept
<1> SUFFICES ASSUME NEW f \in FD, HasInput(f)' PROVE AccountedFor(f)'
  BY DEF EdgeKept
<1>1. CASE EpollWait
  <2>1. HasInput(f)
    BY <1>1 DEF EpollWait, HasInput
  <2>2. f \in armed
    BY <1>a, <1>b, <1>1, <2>1 DEF EpollWait, AccountedFor, InCallback
  <2>3. [fd |-> f, err |-> ClientError(f)] \in ReadyEvents
    BY <2>2, FDAssumption DEF ReadyEvents, Event, ClientError
  <2> QED  BY <1>1, <2>3 DEF EpollWait, AccountedFor
<1>2. CASE DispatchListener \/ DispatchTimer
  <2>1. HasInput(f)
    BY <1>2 DEF DispatchListener, DispatchTimer, HasInput
  <2>2. f \in armed \/ \E e \in batch : e.fd = f
    BY <1>a, <1>b, <2>1 DEF AccountedFor, InCallback
  <2> QED  BY <1>2, <2>2, FDAssumption DEF DispatchListener, DispatchTimer, AccountedFor
<1>3. CASE DispatchError
  <2>1. PICK e \in batch : e.fd \in FD /\ batch' = batch \ {e} /\ RemoveClient(e.fd)
    BY <1>3 DEF DispatchError
  <2>2. f # e.fd /\ HasInput(f) /\ (f \in armed => f \in armed')
    BY <2>1, ReleaseInput DEF RemoveClient
  <2>3. f \in armed \/ \E d \in batch : d.fd = f
    BY <1>a, <1>b, <2>2 DEF AccountedFor, InCallback
  <2> QED  BY <2>1, <2>2, <2>3 DEF AccountedFor
<1>4. CASE DispatchInput
  <2>1. PICK e \in batch : batch' = batch \ {e} /\ pc' = "recv" /\ cur' = e.fd
    BY <1>4 DEF DispatchInput
  <2>2. HasInput(f) /\ armed' = armed
    BY <1>4 DEF DispatchInput, HasInput
  <2>3. f \in armed \/ \E d \in batch : d.fd = f
    BY <1>a, <1>b, <2>2 DEF AccountedFor, InCallback
  <2> QED  BY <2>1, <2>2, <2>3 DEF AccountedFor, InCallback
<1> QED  BY <1>1, <1>2, <1>3, <1>4 DEF Events

LEMMA AcceptsEdge ==
    ASSUME TypeOK, EdgeKept, Accepts
    PROVE  EdgeKept'
<1> USE DEF kernelVars, loopVars, tableVars
<1>a. pc = "accept" /\ UNCHANGED <<batch, cur>>
  BY DEF Accepts, AcceptDone, Accept, AcceptFails
<1>b. \A f \in FD : HasInput(f) => AccountedFor(f)
  BY <1>a DEF EdgeKept
<1> SUFFICES ASSUME NEW f \in FD, HasInput(f)' PROVE AccountedFor(f)'
  BY DEF EdgeKept
<1>1. CASE AcceptDone
  BY <1>a, <1>b, <1>1 DEF AcceptDone, HasInput, AccountedFor, InCallback
<1>2. CASE Accept
  <2>1. PICK g \in FD :
          /\ sock' = [sock EXCEPT ![g] = Head(backlog)]
          /\ peer' = [peer EXCEPT ![Head(backlog)].phase = "open"]
          /\ armed' = IF \/ peer[Head(backlog)].inq # <<>>
                         \/ peer[Head(backlog)].side # "open"
                      THEN armed \cup {g} ELSE armed
    BY <1>2 DEF Accept
  <2>2. Head(backlog) \in Client
    BY <1>2, HeadTailProperties DEF Accept, TypeOK
  <2>3. \A d \in Client : peer'[d].inq = peer[d].inq /\ peer'[d].side = peer[d].side
    BY <2>1, <2>2 DEF TypeOK, Peer
  <2>4. CASE f = g
    BY <2>1, <2>2, <2>3, <2>4 DEF HasInput, AccountedFor, TypeOK
  <2>5. CASE f # g
    <3>1. HasInput(f)
      BY <2>1, <2>3, <2>5 DEF HasInput, TypeOK
    <3> QED  BY <1>a, <1>b, <2>1, <3>1 DEF AccountedFor, InCallback
  <2> QED  BY <2>4, <2>5
<1>3. CASE AcceptFails
  <2>1. /\ Head(backlog) \in Client
        /\ peer' = [peer EXCEPT ![Head(backlog)] = ClosedPeer]
    BY <1>3, HeadTailProperties DEF AcceptFails, TypeOK
  <2>2. HasInput(f)
    BY <1>3, <2>1 DEF AcceptFails, HasInput, ClosedPeer, TypeOK
  <2> QED  BY <1>a, <1>b, <1>3, <2>2 DEF AcceptFails, AccountedFor, InCallback
<1> QED  BY <1>1, <1>2, <1>3 DEF Accepts

\* The steps of a callback on cur: what concerns cur is in hand until recv()
\* has returned everything.
LEMMA CallbackEdge ==
    ASSUME TypeOK, EdgeKept, Receives \/ SslReads \/ FrameLoop
    PROVE  EdgeKept'
<1> USE DEF kernelVars, loopVars, tableVars
<1>a. InCallback /\ cur \in FD /\ batch' = batch
  BY DEF TypeOK, InCallback, Receives, RecvFinished, RecvBadHandshake, RecvChunk,
         RecvEnd, RecvAgain, SslReads, DanglingReadFails, DanglingWantRead,
         DanglingCrash, SslDangling, SslWantRead, SslReadFails, Upgrade,
         RejectRequest, FrameRecord, NextRecord, FrameLoop, FramesDone, AcceptAnswer,
         RejectAnswer, IgnoreFrame, Pong, CloseFrame, NextFrame
<1>b. \A f \in FD : HasInput(f) => AccountedFor(f)
  BY <1>a DEF EdgeKept, InCallback
<1> SUFFICES ASSUME Running', NEW f \in FD, HasInput(f)' PROVE AccountedFor(f)'
  BY DEF EdgeKept
<1>1. CASE RecvFinished \/ RecvChunk
  <2>1. PICK n \in 1..Len(Unread) : TakeInput(n)
    BY <1>1 DEF RecvFinished, RecvChunk
  <2>2. HasInput(f)
    BY <1>a, <1>1, <2>1, TakeInputElsewhere DEF RecvFinished, RecvChunk
  <2> QED  BY <1>a, <1>b, <1>1, <2>2 DEF RecvFinished, RecvChunk, AccountedFor, InCallback
<1>2. CASE RecvBadHandshake \/ RecvEnd \/ DanglingReadFails \/ SslReadFails
           \/ RejectRequest \/ RejectAnswer \/ CloseFrame
  <2>1. ReleaseSocket(cur)
    BY <1>2 DEF RecvBadHandshake, RecvEnd, DanglingReadFails, SslReadFails, RejectRequest,
                RejectAnswer, CloseFrame, RemoveClient, TlsCloseConnection
  <2>2. f # cur /\ HasInput(f) /\ (f \in armed => f \in armed')
    BY <1>a, <2>1, ReleaseInput
  <2> QED  BY <1>a, <1>b, <2>2 DEF AccountedFor
<1>3. CASE RecvAgain
  <2>1. f # cur
    BY <1>3 DEF RecvAgain, Unread, Ended, HasInput
  <2>2. HasInput(f) /\ armed' = armed
    BY <1>3 DEF RecvAgain, HasInput
  <2> QED  BY <1>a, <1>b, <2>1, <2>2 DEF AccountedFor
<1>4. CASE \/ DanglingWantRead \/ DanglingCrash \/ SslWantRead \/ Upgrade
           \/ FrameRecord \/ FramesDone \/ AcceptAnswer \/ IgnoreFrame \/ Pong
  <2>1. UNCHANGED <<sock, peer, armed, cur>> /\ InCallback'
    BY <1>a, <1>4 DEF DanglingWantRead, DanglingCrash, SslWantRead, Upgrade, FrameRecord,
                      FramesDone, AcceptAnswer, IgnoreFrame, Pong, InCallback
  <2>2. HasInput(f)
    BY <2>1 DEF HasInput
  <2> QED  BY <1>a, <1>b, <2>1, <2>2 DEF AccountedFor
<1> QED  BY <1>1, <1>2, <1>3, <1>4 DEF Receives, SslReads, FrameLoop

LEMMA OnTimerEdge ==
    ASSUME TypeOK, EdgeKept, OnTimer
    PROVE  EdgeKept'
<1> USE DEF kernelVars, loopVars, tableVars
<1>a. pc = "timer" /\ UNCHANGED <<batch, cur>>
  BY DEF OnTimer, TimerTimeout, TimerStream, TimerSkip, TimerClose, TimerDone
<1>b. \A f \in FD : HasInput(f) => AccountedFor(f)
  BY <1>a DEF EdgeKept
<1> SUFFICES ASSUME NEW f \in FD, HasInput(f)' PROVE AccountedFor(f)'
  BY DEF EdgeKept
<1>1. CASE TimerTimeout \/ TimerStream \/ TimerSkip \/ TimerDone
  <2>1. UNCHANGED <<sock, peer, armed>>
    BY <1>1 DEF TimerTimeout, TimerStream, TimerSkip, TimerDone
  <2>2. HasInput(f)
    BY <2>1 DEF HasInput
  <2> QED  BY <1>a, <1>b, <2>1, <2>2 DEF AccountedFor, InCallback
<1>2. CASE TimerClose
  <2>1. PICK g \in FD : ReleaseSocket(g)
    BY <1>2 DEF TimerClose, TlsCloseConnection, TypeOK
  <2>2. HasInput(f) /\ (f \in armed => f \in armed')
    BY <2>1, ReleaseInput
  <2> QED  BY <1>a, <1>b, <2>2 DEF AccountedFor, InCallback
<1> QED  BY <1>1, <1>2 DEF OnTimer

\* Nothing that arrives on an accepted connection is forgotten: there always
\* is an edge, a pending event or a running callback that will read it.
THEOREM EdgeKeptHolds == Spec => []EdgeKept
<1>1. Init => EdgeKept
  BY DEF Init, EdgeKept, HasInput
<1>2. TypeOK /\ EdgeKept /\ [Next]_vars => EdgeKept'
  <2> SUFFICES ASSUME TypeOK, EdgeKept, [Next]_vars PROVE EdgeKept'
    OBVIOUS
  <2>1. CASE UNCHANGED vars
    BY <2>1 DEF vars, kernelVars, loopVars, EdgeKept, HasInput, AccountedFor, InCallback
  <2>2. CASE Shutdown
    BY <2>2 DEF Shutdown, EdgeKept
  <2> QED
    BY <2>1, <2>2, PeersEdge, EventsEdge, AcceptsEdge, CallbackEdge, OnTimerEdge
       DEF Next, Server, Gone
<1> QED  BY <1>1, <1>2, TypeCorrect, PTL DEF Spec

(***************************************************************************)
(* The refinement.  Each open connection has a descriptor of its own, so   *)
(* what a callback does on one descriptor changes one connection's life.   *)
(***************************************************************************)
ReachedBy(f) == IF tls[f].state = "handshaking" THEN "HANDSHAKING_TLS" ELSE conn[f].state

\* Accepted connections have one descriptor each, the others wait once in
\* the backlog, and CONNECTED never outlives HandleHandshake.
OwnDescriptors ==
    /\ \A f, g \in FD : sock[f] = sock[g] /\ sock[f] # None => f = g
    /\ \A c \in Client : peer[c].phase = "open" <=> \E f \in FD : sock[f] = c
    /\ \A i \in DOMAIN backlog : peer[backlog[i]].phase = "backlog"
    /\ \A i, j \in DOMAIN backlog : backlog[i] = backlog[j] => i = j
    /\ \A f \in FD : conn[f].state # "CONNECTED"

LEMMA ChosenIs ==
    ASSUME NEW s, NEW c, NEW f \in FD, s[f] = c, \A g \in FD : s[g] = c => g = f
    PROVE  (CHOOSE g \in FD : s[g] = c) = f
OBVIOUS

\* The life of a connection is what its descriptor has reached.
LEMMA LifeOfOpen ==
    /\ TypeOK /\ OwnDescriptors =>
         \A f \in FD : sock[f] # None =>
            sock[f] \in Client /\ life[sock[f]] = ReachedBy(f)
    /\ (TypeOK /\ OwnDescriptors)' =>
         \A f \in FD : sock'[f] # None =>
            sock'[f] \in Client /\ life'[sock'[f]] = ReachedBy(f)'
<1>1. ASSUME TypeOK, OwnDescriptors, NEW f \in FD, sock[f] # None
      PROVE  sock[f] \in Client /\ life[sock[f]] = ReachedBy(f)
  <2>1. sock[f] \in Client /\ peer[sock[f]].phase = "open"
    BY <1>1 DEF TypeOK, OwnDescriptors
  <2>2. (CHOOSE g \in FD : sock[g] = sock[f]) = f
    BY <1>1, ChosenIs DEF OwnDescriptors
  <2>3. life[sock[f]] = LET g == CHOOSE g \in FD : sock[g] = sock[f]
                        IN IF tls[g].state = "handshaking" THEN "HANDSHAKING_TLS"
                           ELSE conn[g].state
    BY <2>1, Zenon DEF life
  <2>4. life[sock[f]] = ReachedBy(f)
    BY <2>2, <2>3, Zenon DEF ReachedBy
  <2> QED BY <2>1, <2>4
<1>2. ASSUME TypeOK', OwnDescriptors', NEW f \in FD, sock'[f] # None
      PROVE  sock'[f] \in Client /\ life'[sock'[f]] = ReachedBy(f)'
  <2>1. sock'[f] \in Client /\ peer'[sock'[f]].phase = "open"
    BY <1>2 DEF TypeOK, OwnDescriptors
  <2>2. (CHOOSE g \in FD : sock'[g] = sock'[f]) = f
    BY <1>2, ChosenIs DEF OwnDescriptors
  <2>3. life'[sock'[f]] = LET g == CHOOSE g \in FD : sock'[g] = sock'[f]
                          IN IF tls'[g].state = "handshaking" THEN "HANDSHAKING_TLS"
                             ELSE conn'[g].state
    BY <2>1, Zenon DEF life
  <2>4. life'[sock'[f]] = ReachedBy(f)'
    BY <2>2, <2>3, Zenon DEF ReachedBy
  <2> QED BY <2>1, <2>4
<1> QED BY <1>1, <1>2

LEMMA LifeOfOthers ==
    /\ OwnDescriptors => \A c \in Client : (\A f \in FD : sock[f] # c) =>
          life[c] = IF peer[c].phase = "closed" THEN "gone" ELSE "absent"
    /\ OwnDescriptors' => \A c \in Client : (\A f \in FD : sock'[f] # c) =>
          life'[c] = IF peer'[c].phase = "closed" THEN "gone" ELSE "absent"
BY DEF OwnDescriptors, life

LEMMA LifeIsFunction ==
    /\ life = [c \in Client |-> life[c]] /\ DOMAIN life = Client
    /\ life' = [c \in Client |-> life'[c]] /\ DOMAIN life' = Client
BY DEF life

\* Steps that change no descriptor and no state.
Quiet ==
    /\ UNCHANGED <<sock, backlog>>
    /\ \A c \in Client : peer'[c].phase = peer[c].phase
    /\ \A f \in FD : tls'[f].state = tls[f].state /\ conn'[f].state = conn[f].state

\* Steps in which the connection on f goes from one state to the next.
Advance(f, from, to) ==
    /\ UNCHANGED <<sock, backlog>> /\ f \in FD /\ sock[f] # None
    /\ \A c \in Client : peer'[c].phase = peer[c].phase
    /\ \A g \in FD : conn'[g].state # conn[g].state => g = f /\ conn'[g].state = to
    /\ \A g \in FD : tls'[g].state # tls[g].state => g = f
    /\ ReachedBy(f) = from
    /\ to = IF tls'[f].state = "handshaking" THEN "HANDSHAKING_TLS" ELSE conn'[f].state

\* Steps that close what f refers to.
Closes(f) ==
    /\ f \in FD /\ ReleaseSocket(f) /\ backlog' = backlog
    /\ \A g \in FD \ {f} : conn'[g] = conn[g]
    /\ conn'[f].state # "CONNECTED"

Implemented == OwnDescriptors' /\ [Lifecycle!Next]_life

LEMMA QuietLife ==
    ASSUME IInv, IInv', OwnDescriptors, Quiet
    PROVE  Implemented
<1>1. OwnDescriptors'
  <2>1. \A i \in DOMAIN backlog : backlog[i] \in Client
    BY DEF IInv, TypeOK
  <2> QED BY <2>1 DEF OwnDescriptors, Quiet
<1>2. ASSUME NEW c \in Client PROVE life'[c] = life[c]
  <2>1. CASE \E f \in FD : sock[f] = c
    <3>1. PICK f \in FD : sock[f] = c
      BY <2>1
    <3>2. sock[f] # None /\ sock'[f] = c /\ ReachedBy(f)' = ReachedBy(f)
      BY <3>1, NoneAssumption DEF Quiet, ReachedBy
    <3> QED BY <1>1, <3>1, <3>2, LifeOfOpen DEF IInv
  <2>2. CASE \A f \in FD : sock[f] # c
    BY <1>1, <2>2, LifeOfOthers DEF Quiet
  <2> QED BY <2>1, <2>2
<1> QED BY <1>1, <1>2, LifeIsFunction, Zenon DEF Implemented

LEMMA AdvanceLife ==
    ASSUME IInv, IInv', OwnDescriptors, NEW f, NEW from, NEW to, Advance(f, from, to),
           to # "CONNECTED"
    PROVE  /\ OwnDescriptors'
           /\ sock[f] \in Client /\ Lifecycle!Move(sock[f], {from}, to)
<1>1. OwnDescriptors'
  <2>1. \A i \in DOMAIN backlog : backlog[i] \in Client
    BY DEF IInv, TypeOK
  <2> QED BY <2>1 DEF OwnDescriptors, Advance
<1>2. /\ f \in FD /\ sock[f] \in Client /\ life[sock[f]] = from
      /\ life'[sock[f]] = to
  BY <1>1, LifeOfOpen DEF IInv, Advance, ReachedBy
<1>3. ASSUME NEW c \in Client, c # sock[f] PROVE life'[c] = life[c]
  <2>1. CASE \E g \in FD : sock[g] = c
    <3>1. PICK g \in FD : sock[g] = c
      BY <2>1
    <3>2. g # f /\ sock[g] # None /\ sock'[g] = c /\ ReachedBy(g)' = ReachedBy(g)
      BY <1>3, <3>1, NoneAssumption DEF Advance, ReachedBy
    <3> QED BY <1>1, <3>1, <3>2, LifeOfOpen DEF IInv
  <2>2. CASE \A g \in FD : sock[g] # c
    BY <1>1, <2>2, LifeOfOthers DEF Advance
  <2> QED BY <2>1, <2>2
<1>4. life' = [life EXCEPT ![sock[f]] = to]
  BY <1>2, <1>3, LifeIsFunction, Zenon
<1> QED BY <1>1, <1>2, <1>4 DEF Lifecycle!Move

LEMMA CloseLife ==
    ASSUME IInv, IInv', OwnDescriptors, NEW f, Closes(f)
    PROVE  Implemented
<1>0. /\ f \in FD /\ \A g \in FD : sock'[g] = IF g = f THEN None ELSE sock[g]
      /\ \A c \in Client : peer'[c] = IF sock[f] = c THEN ClosedPeer ELSE peer[c]
      /\ \A g \in FD \ {f} : tls'[g] = tls[g]
  BY DEF Closes, ReleaseSocket, IInv, TypeOK
<1>1. OwnDescriptors'
  <2>1. \A i \in DOMAIN backlog : backlog[i] \in Client
    BY DEF IInv, TypeOK
  <2>2. \A g, h \in FD : sock'[g] = sock'[h] /\ sock'[g] # None => g = h
    BY <1>0 DEF OwnDescriptors
  <2>3. \A c \in Client : peer'[c].phase = "open" <=> \E g \in FD : sock'[g] = c
    <3> SUFFICES ASSUME NEW c \in Client
                 PROVE  peer'[c].phase = "open" <=> \E g \in FD : sock'[g] = c
      OBVIOUS
    <3>1. CASE sock[f] = c
      <4>1. peer'[c].phase = "closed"
        BY <1>0, <3>1 DEF ClosedPeer
      <4>2. \A g \in FD : sock'[g] # c
        BY <1>0, <3>1, NoneAssumption DEF OwnDescriptors
      <4> QED BY <4>1, <4>2
    <3>2. CASE sock[f] # c
      BY <1>0, <3>2, NoneAssumption DEF OwnDescriptors
    <3> QED BY <3>1, <3>2
  <2>4. \A i \in DOMAIN backlog : peer'[backlog[i]].phase = "backlog"
    <3>1. \A i \in DOMAIN backlog : sock[f] # backlog[i]
      BY <1>0, <2>1 DEF OwnDescriptors
    <3> QED BY <1>0, <2>1, <3>1 DEF OwnDescriptors
  <2>5. \A g \in FD : conn'[g].state # "CONNECTED"
    BY <1>0 DEF Closes, OwnDescriptors
  <2>6. backlog' = backlog
    BY DEF Closes
  <2> QED BY <2>2, <2>3, <2>4, <2>5, <2>6 DEF OwnDescriptors
<1>2. ASSUME NEW c \in Client, c # sock[f] PROVE life'[c] = life[c]
  <2>1. CASE \E g \in FD : sock[g] = c
    <3>1. PICK g \in FD : sock[g] = c
      BY <2>1
    <3>2. g # f /\ sock[g] # None /\ sock'[g] = c /\ ReachedBy(g)' = ReachedBy(g)
      BY <1>0, <1>2, <3>1, NoneAssumption DEF Closes, ReachedBy
    <3> QED BY <1>1, <3>1, <3>2, LifeOfOpen DEF IInv
  <2>2. CASE \A g \in FD : sock[g] # c
    <3>1. (\A g \in FD : sock'[g] # c) /\ peer'[c] = peer[c]
      BY <1>0, <1>2, <2>2, NoneAssumption
    <3> QED BY <1>1, <2>2, <3>1, LifeOfOthers
  <2> QED BY <2>1, <2>2
<1>3. CASE sock[f] = None
  <2>1. \A c \in Client : life'[c] = life[c]
    BY <1>2, <1>3, NoneAssumption
  <2> QED BY <1>1, <2>1, LifeIsFunction, Zenon DEF Implemented
<1>4. CASE sock[f] # None
  <2>1. sock[f] \in Client /\ life[sock[f]] = ReachedBy(f)
    BY <1>0, <1>4, LifeOfOpen DEF IInv
  <2>2. life'[sock[f]] = "gone"
    <3>1. (\A g \in FD : sock'[g] # sock[f]) /\ peer'[sock[f]].phase = "closed"
      BY <1>0, <1>4, <2>1, NoneAssumption DEF OwnDescriptors, ClosedPeer
    <3> QED BY <1>1, <2>1, <3>1, LifeOfOthers
  <2>3. ReachedBy(f) \in Lifecycle!States \ {"gone"}
    <3>1. tls[f].state = "handshaking" \/ conn[f].state \in ConnState \ {"CONNECTED"}
      <4>1. tls[f].state \in {"handshaking", "established"} /\ conn[f].state \in ConnState \cup {"none"}
        BY <1>0, <1>4 DEF IInv, TablesAgree, TypeOK, Session, Entry
      <4> QED BY <1>0, <4>1 DEF IInv, TablesAgree, OwnDescriptors
    <3> QED BY <3>1 DEF ReachedBy, ConnState, Lifecycle!States
  <2>4. life' = [life EXCEPT ![sock[f]] = "gone"]
    BY <1>2, <2>1, <2>2, LifeIsFunction, Zenon
  <2>5. Lifecycle!Leave(sock[f])
    BY <2>1, <2>3, <2>4 DEF Lifecycle!Leave, Lifecycle!Move
  <2> QED BY <1>1, <2>1, <2>5 DEF Implemented, Lifecycle!Next
<1> QED BY <1>3, <1>4

LEMMA RemovedCloses ==
    ASSUME IInv, OwnDescriptors, NEW f \in FD, RemoveClient(f), backlog' = backlog
    PROVE  Closes(f)
<1>1. conn'[f].state # "CONNECTED" /\ \A g \in FD \ {f} : conn'[g] = conn[g]
  BY DEF RemoveClient, IInv, TypeOK, OwnDescriptors, NoEntry
<1> QED BY <1>1 DEF Closes, RemoveClient

LEMMA PeersLife ==
    ASSUME IInv, IInv', OwnDescriptors, Peers \/ Time
    PROVE  Implemented
<1> USE DEF kernelVars, loopVars, tableVars
<1>1. CASE \E c \in Client : Connect(c)
  <2>1. PICK c \in Client : Connect(c)
    BY <1>1
  <2>2. /\ peer[c].phase = "idle" /\ peer'[c].phase = "backlog"
        /\ \A d \in Client \ {c} : peer'[d] = peer[d]
        /\ UNCHANGED <<sock, tls, conn>>
    BY <2>1 DEF Connect, IInv, TypeOK, Peer
  <2>3. /\ backlog \in Seq(Client) /\ Len(backlog) \in Nat /\ DOMAIN backlog = 1..Len(backlog)
        /\ backlog' = Append(backlog, c)
        /\ DOMAIN backlog' = 1..(Len(backlog) + 1)
        /\ \A i \in 1..Len(backlog) : backlog'[i] = backlog[i] /\ backlog[i] \in Client
        /\ backlog'[Len(backlog) + 1] = c
    BY <2>1, AppendProperties DEF Connect, IInv, TypeOK
  <2>4. \A i \in 1..Len(backlog) : backlog[i] # c
    BY <2>2, <2>3 DEF OwnDescriptors
  <2>5. OwnDescriptors'
    <3>1. \A d \in Client : peer'[d].phase = "open" <=> \E f \in FD : sock'[f] = d
      BY <2>2 DEF OwnDescriptors
    <3>2. \A i \in DOMAIN backlog' : peer'[backlog'[i]].phase = "backlog"
      BY <2>2, <2>3, <2>4 DEF OwnDescriptors
    <3>3. \A i, j \in DOMAIN backlog' : backlog'[i] = backlog'[j] => i = j
      BY <2>3, <2>4 DEF OwnDescriptors
    <3> QED BY <2>2, <3>1, <3>2, <3>3 DEF OwnDescriptors
  <2>6. ASSUME NEW d \in Client PROVE life'[d] = life[d]
    <3>1. CASE \E f \in FD : sock[f] = d
      <4>1. PICK f \in FD : sock[f] = d
        BY <3>1
      <4>2. sock[f] # None /\ sock'[f] = d /\ ReachedBy(f)' = ReachedBy(f)
        BY <2>2, <4>1, NoneAssumption DEF ReachedBy
      <4> QED BY <2>5, <4>1, <4>2, LifeOfOpen DEF IInv
    <3>2. CASE \A f \in FD : sock[f] # d
      BY <2>2, <2>5, <3>2, LifeOfOthers
    <3> QED BY <3>1, <3>2
  <2> QED BY <2>5, <2>6, LifeIsFunction, Zenon DEF Implemented
<1>2. CASE \E c \in Client : Send(c) \/ CloseWrite(c) \/ Reset(c) \/ StopReading(c) \/ Resume(c)
  <2>1. PICK c \in Client : Send(c) \/ CloseWrite(c) \/ Reset(c) \/ StopReading(c) \/ Resume(c)
    BY <1>2
  <2>2. UNCHANGED <<sock, backlog, tls, conn>>
    BY <2>1 DEF Send, CloseWrite, Reset, StopReading, Resume
  <2>3. \A d \in Client : peer'[d].phase = peer[d].phase
    <3>1. /\ peer \in [Client -> Peer]
          /\ \A d \in Client : DOMAIN peer[d] = {"phase", "inq", "sent", "side", "window"}
      BY DEF IInv, TypeOK, Peer
    <3>2. CASE Send(c)
      BY <3>1, <3>2 DEF Send
    <3>3. CASE CloseWrite(c) \/ Reset(c) \/ StopReading(c) \/ Resume(c)
      BY <3>1, <3>3 DEF CloseWrite, Reset, StopReading, Resume
    <3> QED BY <2>1, <3>2, <3>3
  <2> QED BY <2>2, <2>3, QuietLife DEF Quiet
<1>3. CASE Time
  <2>1. UNCHANGED <<sock, backlog, peer, tls>>
    BY <1>3 DEF Time, TimerExpires, SignalHandler, OfferAges
  <2>2. \A f \in FD : conn'[f].state = conn[f].state
    <3>1. CASE \E f \in FD : OfferAges(f)
      <4>1. PICK f \in FD : conn' = [conn EXCEPT ![f].late = TRUE]
        BY <3>1 DEF OfferAges
      <4> QED BY <4>1 DEF IInv, TypeOK, Entry
    <3>2. CASE TimerExpires \/ SignalHandler
      BY <3>2 DEF TimerExpires, SignalHandler
    <3> QED BY <1>3, <3>1, <3>2 DEF Time
  <2> QED BY <2>1, <2>2, QuietLife DEF Quiet
<1> QED BY <1>1, <1>2, <1>3 DEF Peers

LEMMA EventsLife ==
    ASSUME IInv, IInv', OwnDescriptors, Events
    PROVE  Implemented
<1> USE DEF kernelVars, loopVars, tableVars
<1>1. CASE EpollWait \/ DispatchListener \/ DispatchTimer \/ DispatchInput
  BY <1>1, QuietLife DEF Quiet, EpollWait, DispatchListener, DispatchTimer, DispatchInput
<1>2. CASE DispatchError
  <2>1. PICK e \in batch : e.fd \in FD /\ RemoveClient(e.fd) /\ backlog' = backlog
    BY <1>2 DEF DispatchError
  <2>2. Closes(e.fd)
    BY <2>1, RemovedCloses
  <2> QED BY <2>2, CloseLife
<1> QED BY <1>1, <1>2 DEF Events

LEMMA AcceptsLife ==
    ASSUME IInv, IInv', OwnDescriptors, Accepts
    PROVE  Implemented
<1> USE DEF kernelVars, loopVars, tableVars
<1>1. CASE AcceptDone
  BY <1>1, QuietLife DEF Quiet, AcceptDone
<1> DEFINE c == Head(backlog)
<1>2. ASSUME backlog # <<>>, backlog' = Tail(backlog)
      PROVE  /\ c \in Client /\ peer[c].phase = "backlog" /\ \A f \in FD : sock[f] # c
             /\ \A i \in DOMAIN backlog' :
                   /\ backlog'[i] \in Client /\ backlog'[i] # c
                   /\ peer[backlog'[i]].phase = "backlog"
             /\ \A i, j \in DOMAIN backlog' : backlog'[i] = backlog'[j] => i = j
  <2>1. /\ backlog \in Seq(Client) /\ Len(backlog) \in Nat /\ Len(backlog) > 0
        /\ DOMAIN backlog = 1..Len(backlog) /\ c = backlog[1]
        /\ DOMAIN backlog' = 1..(Len(backlog) - 1)
        /\ \A i \in 1..(Len(backlog) - 1) : backlog'[i] = backlog[i + 1]
    BY <1>2 DEF IInv, TypeOK
  <2>2. c \in Client /\ peer[c].phase = "backlog"
    BY <2>1 DEF OwnDescriptors
  <2>3. \A i \in DOMAIN backlog' : /\ i + 1 \in DOMAIN backlog /\ i + 1 # 1 /\ i \in Nat
                                   /\ backlog'[i] = backlog[i + 1]
    BY <2>1
  <2>4. 1 \in DOMAIN backlog /\ \A i \in DOMAIN backlog : backlog[i] \in Client
    BY <2>1
  <2>5. \A i, j \in DOMAIN backlog' : backlog'[i] = backlog'[j] => i = j
    <3>1. SUFFICES ASSUME NEW i \in DOMAIN backlog', NEW j \in DOMAIN backlog',
                          backlog'[i] = backlog'[j]
                   PROVE  i = j
      OBVIOUS
    <3>2. i + 1 = j + 1
      BY <2>3, <3>1 DEF OwnDescriptors
    <3> QED BY <2>3, <3>2
  <2> HIDE DEF c
  <2> QED BY <2>1, <2>2, <2>3, <2>4, <2>5 DEF OwnDescriptors
<1>3. CASE Accept
  <2>1. PICK f \in FD :
          /\ sock[f] = None /\ sock' = [sock EXCEPT ![f] = c]
          /\ peer' = [peer EXCEPT ![c].phase = "open"]
          /\ tls' = [tls EXCEPT ![f] = [state |-> "handshaking", buf |-> <<>>]]
    BY <1>3 DEF Accept, LowestFree
  <2>2. backlog # <<>> /\ backlog' = Tail(backlog) /\ conn' = conn
    BY <1>3 DEF Accept
  <2> HIDE DEF c
  <2>3. /\ \A g \in FD : sock'[g] = IF g = f THEN c ELSE sock[g]
        /\ peer'[c].phase = "open" /\ \A d \in Client \ {c} : peer'[d] = peer[d]
        /\ tls'[f].state = "handshaking" /\ \A g \in FD \ {f} : tls'[g] = tls[g]
    BY <1>2, <2>1, <2>2 DEF IInv, TypeOK, Peer
  <2>4. OwnDescriptors'
    <3>1. \A g, h \in FD : sock'[g] = sock'[h] /\ sock'[g] # None => g = h
      BY <1>2, <2>2, <2>3 DEF OwnDescriptors
    <3>2. \A d \in Client : peer'[d].phase = "open" <=> \E g \in FD : sock'[g] = d
      BY <1>2, <2>1, <2>2, <2>3, NoneAssumption DEF OwnDescriptors
    <3>3. \A i \in DOMAIN backlog' : peer'[backlog'[i]].phase = "backlog"
      BY <1>2, <2>2, <2>3
    <3> QED BY <1>2, <2>2, <3>1, <3>2, <3>3 DEF OwnDescriptors
  <2>5. life[c] = "absent"
    BY <1>2, <2>2, LifeOfOthers
  <2>6. life'[c] = "HANDSHAKING_TLS"
    <3>1. sock'[f] = c /\ sock'[f] # None /\ ReachedBy(f)' = "HANDSHAKING_TLS"
      BY <1>2, <2>2, <2>3, NoneAssumption DEF ReachedBy
    <3> QED BY <2>4, <3>1, LifeOfOpen DEF IInv
  <2>7. ASSUME NEW d \in Client, d # c PROVE life'[d] = life[d]
    <3>1. CASE \E g \in FD : sock[g] = d
      <4>1. PICK g \in FD : sock[g] = d
        BY <3>1
      <4>2. g # f /\ sock[g] # None /\ sock'[g] = d /\ ReachedBy(g)' = ReachedBy(g)
        BY <2>1, <2>2, <2>3, <4>1, NoneAssumption DEF ReachedBy
      <4> QED BY <2>4, <4>1, <4>2, LifeOfOpen DEF IInv
    <3>2. CASE \A g \in FD : sock[g] # d
      <4>1. (\A g \in FD : sock'[g] # d) /\ peer'[d] = peer[d]
        BY <2>3, <2>7, <3>2
      <4> QED BY <2>4, <3>2, <4>1, LifeOfOthers
    <3> QED BY <3>1, <3>2
  <2>8. life' = [life EXCEPT ![c] = "HANDSHAKING_TLS"]
    BY <2>6, <2>7, LifeIsFunction, Zenon
  <2>9. Lifecycle!Arrive(c)
    BY <2>5, <2>8 DEF Lifecycle!Arrive, Lifecycle!Move
  <2>10. c \in Client
    BY <1>2, <2>2
  <2> QED BY <2>4, <2>9, <2>10 DEF Implemented, Lifecycle!Next
<1>4. CASE AcceptFails
  <2>1. /\ backlog # <<>> /\ backlog' = Tail(backlog) /\ UNCHANGED <<sock, tls, conn>>
        /\ peer' = [peer EXCEPT ![c] = ClosedPeer]
    BY <1>4 DEF AcceptFails
  <2> HIDE DEF c
  <2>2. peer'[c].phase = "closed" /\ \A d \in Client \ {c} : peer'[d] = peer[d]
    BY <1>2, <2>1 DEF IInv, TypeOK, ClosedPeer
  <2>3. OwnDescriptors'
    <3>1. \A d \in Client : peer'[d].phase = "open" <=> \E g \in FD : sock'[g] = d
      BY <1>2, <2>1, <2>2 DEF OwnDescriptors
    <3>2. \A i \in DOMAIN backlog' : peer'[backlog'[i]].phase = "backlog"
      BY <1>2, <2>1, <2>2
    <3> QED BY <1>2, <2>1, <3>1, <3>2 DEF OwnDescriptors
  <2>4. life[c] = "absent" /\ life'[c] = "gone"
    BY <1>2, <2>1, <2>2, <2>3, LifeOfOthers
  <2>5. ASSUME NEW d \in Client, d # c PROVE life'[d] = life[d]
    <3>1. CASE \E g \in FD : sock[g] = d
      <4>1. PICK g \in FD : sock[g] = d
        BY <3>1
      <4>2. sock[g] # None /\ sock'[g] = d /\ ReachedBy(g)' = ReachedBy(g)
        BY <2>1, <4>1, NoneAssumption DEF ReachedBy
      <4> QED BY <2>3, <4>1, <4>2, LifeOfOpen DEF IInv
    <3>2. CASE \A g \in FD : sock[g] # d
      BY <2>1, <2>2, <2>3, <2>5, <3>2, LifeOfOthers
    <3> QED BY <3>1, <3>2
  <2>6. life' = [life EXCEPT ![c] = "gone"]
    BY <2>4, <2>5, LifeIsFunction, Zenon
  <2>7. Lifecycle!Leave(c)
    BY <2>4, <2>6 DEF Lifecycle!Leave, Lifecycle!Move, Lifecycle!States
  <2>8. c \in Client
    BY <1>2, <2>1
  <2> QED BY <2>3, <2>7, <2>8 DEF Implemented, Lifecycle!Next
<1> QED BY <1>1, <1>3, <1>4 DEF Accepts

LEMMA ReceivesLife ==
    ASSUME IInv, IInv', OwnDescriptors, Receives
    PROVE  Implemented
<1> USE DEF kernelVars, loopVars, tableVars
<1>a. cur \in FD
  BY DEF IInv, TypeOK, InCallback, Receives, RecvFinished, RecvBadHandshake, RecvChunk,
         RecvEnd, RecvAgain
<1>b. ASSUME NEW n \in 1..Len(Unread), TakeInput(n)
      PROVE  /\ sock[cur] \in Client /\ sock[cur] # None
             /\ \A c \in Client : peer'[c].phase = peer[c].phase
  <2>1. sock[cur] \in Client /\ Unread # <<>>
    BY <1>a, <1>b, UnreadType, EmptySeq DEF IInv
  <2>2. \A c \in Client : peer'[c].phase = peer[c].phase
    BY <1>b, <2>1 DEF TakeInput, IInv, TypeOK, Peer
  <2> QED BY <2>1, <2>2, NoneAssumption
<1>1. CASE RecvFinished
  <2>1. PICK n \in 1..Len(Unread) :
          /\ TakeInput(n)
          /\ tls' = [tls EXCEPT ![cur] =
                       [state |-> "established", buf |-> SubSeq(Unread, 2, n)]]
    BY <1>1 DEF RecvFinished
  <2>2. Advance(cur, "HANDSHAKING_TLS", "HANDSHAKING_WS")
    <3>1. /\ tls[cur].state = "handshaking" /\ tls'[cur].state = "established"
          /\ \A g \in FD \ {cur} : tls'[g] = tls[g]
      BY <1>1, <1>a, <2>1 DEF RecvFinished, IInv, TypeOK
    <3>2. /\ conn'[cur].state = "HANDSHAKING_WS"
          /\ \A g \in FD \ {cur} : conn'[g] = conn[g]
      BY <1>1, <1>a DEF RecvFinished, IInv, TypeOK
    <3>3. UNCHANGED <<sock, backlog>>
      BY <1>1 DEF RecvFinished
    <3> QED BY <1>a, <1>b, <2>1, <3>1, <3>2, <3>3 DEF Advance, ReachedBy
  <2>3. OwnDescriptors' /\ sock[cur] \in Client /\ Lifecycle!Secure(sock[cur])
    BY <2>2, AdvanceLife DEF Lifecycle!Secure
  <2> QED BY <2>3 DEF Implemented, Lifecycle!Next
<1>2. CASE RecvBadHandshake \/ RecvEnd
  <2>1. RemoveClient(cur) /\ backlog' = backlog
    BY <1>2 DEF RecvBadHandshake, RecvEnd
  <2> QED BY <1>a, <2>1, RemovedCloses, CloseLife
<1>3. CASE RecvChunk
  <2>1. PICK n \in 1..Len(Unread) :
          /\ TakeInput(n)
          /\ tls' = [tls EXCEPT ![cur].buf = @ \o SubSeq(Unread, 1, n)]
    BY <1>3 DEF RecvChunk
  <2>2. \A f \in FD : tls'[f].state = tls[f].state
    BY <2>1 DEF IInv, TypeOK, Session
  <2>3. UNCHANGED <<sock, backlog, conn>>
    BY <1>3 DEF RecvChunk
  <2> QED BY <1>b, <2>1, <2>2, <2>3, QuietLife DEF Quiet
<1>4. CASE RecvAgain
  BY <1>4, QuietLife DEF RecvAgain, Quiet
<1> QED BY <1>1, <1>2, <1>3, <1>4 DEF Receives

LEMMA SslReadsLife ==
    ASSUME IInv, IInv', OwnDescriptors, SslReads
    PROVE  Implemented
<1> USE DEF kernelVars, loopVars, tableVars
<1>a. cur \in FD
  BY DEF IInv, TypeOK, InCallback, SslReads, DanglingReadFails, DanglingWantRead,
         DanglingCrash, SslDangling, SslWantRead, SslReadFails, Upgrade,
         RejectRequest, FrameRecord, NextRecord
<1>1. CASE DanglingReadFails \/ SslReadFails
  <2>1. RemoveClient(cur) /\ backlog' = backlog
    BY <1>1 DEF DanglingReadFails, SslReadFails
  <2> QED BY <1>a, <2>1, RemovedCloses, CloseLife
<1>2. CASE DanglingWantRead \/ DanglingCrash \/ SslWantRead
  BY <1>2, QuietLife DEF DanglingWantRead, DanglingCrash, SslWantRead, Quiet
<1>3. CASE Upgrade
  <2>1. /\ tls[cur].state = "established" /\ conn[cur].state = "HANDSHAKING_WS"
        /\ UNCHANGED <<sock, backlog, peer>>
        /\ tls' = [tls EXCEPT ![cur].buf = Tail(@)]
        /\ conn' = [conn EXCEPT ![cur].state = "NEGOTIATING"]
    BY <1>3 DEF Upgrade, NextRecord
  <2>2. sock[cur] # None
    BY <1>a, <2>1 DEF IInv, TablesAgree
  <2>3. Advance(cur, "HANDSHAKING_WS", "NEGOTIATING")
    <3>1. /\ conn'[cur].state = "NEGOTIATING"
          /\ \A g \in FD \ {cur} : conn'[g] = conn[g]
      BY <1>a, <2>1 DEF IInv, TypeOK, Entry
    <3>2. \A g \in FD : tls'[g].state = tls[g].state
      BY <2>1 DEF IInv, TypeOK, Session
    <3> QED BY <1>a, <2>1, <2>2, <3>1, <3>2 DEF Advance, ReachedBy
  <2>4. OwnDescriptors' /\ sock[cur] \in Client /\ Lifecycle!Offer(sock[cur])
    BY <2>3, AdvanceLife DEF Lifecycle!Offer
  <2> QED BY <2>4 DEF Implemented, Lifecycle!Next
<1>4. CASE RejectRequest
  <2>1. TlsCloseConnection(cur, "HANDSHAKING_WS") /\ backlog' = backlog
    BY <1>4 DEF RejectRequest
  <2>2. Closes(cur)
    BY <1>a, <2>1 DEF TlsCloseConnection, Closes, IInv, TypeOK, Entry
  <2> QED BY <2>2, CloseLife
<1>5. CASE FrameRecord
  <2>1. PICK n \in 1..Len(tls[cur].buf) :
          /\ tls' = [tls EXCEPT ![cur].buf = SubSeq(@, n + 1, Len(@))]
          /\ conn' = [conn EXCEPT ![cur].buf = @ \o SubSeq(tls[cur].buf, 1, n)]
    BY <1>5 DEF FrameRecord
  <2>2. \A f \in FD : tls'[f].state = tls[f].state
    BY <2>1 DEF IInv, TypeOK, Session
  <2>3. \A f \in FD : conn'[f].state = conn[f].state
    BY <2>1 DEF IInv, TypeOK, Entry
  <2>4. UNCHANGED <<sock, backlog, peer>>
    BY <1>5 DEF FrameRecord
  <2> QED BY <2>2, <2>3, <2>4, QuietLife DEF Quiet
<1> QED BY <1>1, <1>2, <1>3, <1>4, <1>5 DEF SslReads

LEMMA FrameLoopLife ==
    ASSUME IInv, IInv', OwnDescriptors, FrameLoop
    PROVE  Implemented
<1> USE DEF kernelVars, loopVars, tableVars
<1>a. cur \in FD
  BY DEF IInv, TypeOK, InCallback, FrameLoop, FramesDone, AcceptAnswer, RejectAnswer,
         IgnoreFrame, Pong, CloseFrame, NextFrame
<1>1. CASE FramesDone
  BY <1>1, QuietLife DEF FramesDone, Quiet
<1>2. CASE IgnoreFrame \/ Pong
  <2>1. conn' = [conn EXCEPT ![cur].buf = Tail(@)] /\ UNCHANGED <<sock, backlog, peer, tls>>
    BY <1>2 DEF IgnoreFrame, Pong
  <2>2. \A f \in FD : conn'[f].state = conn[f].state
    BY <2>1 DEF IInv, TypeOK, Entry
  <2> QED BY <2>1, <2>2, QuietLife DEF Quiet
<1>3. CASE AcceptAnswer
  <2>1. /\ conn[cur].state = "NEGOTIATING" /\ UNCHANGED <<sock, backlog, peer, tls>>
        /\ conn' = [conn EXCEPT ![cur].state = "STREAMING", ![cur].buf = Tail(@)]
    BY <1>3 DEF AcceptAnswer
  <2>2. tls[cur].state = "established" /\ sock[cur] # None
    BY <1>a, <2>1 DEF IInv, TablesAgree
  <2>3. Advance(cur, "NEGOTIATING", "STREAMING")
    <3>1. /\ conn'[cur].state = "STREAMING"
          /\ \A g \in FD \ {cur} : conn'[g] = conn[g]
      BY <1>a, <2>1 DEF IInv, TypeOK, Entry
    <3> QED BY <1>a, <2>1, <2>2, <3>1 DEF Advance, ReachedBy
  <2>4. OwnDescriptors' /\ sock[cur] \in Client /\ Lifecycle!Answer(sock[cur])
    BY <2>3, AdvanceLife DEF Lifecycle!Answer
  <2> QED BY <2>4 DEF Implemented, Lifecycle!Next
<1>4. CASE RejectAnswer \/ CloseFrame
  <2>1. /\ ReleaseSocket(cur) /\ backlog' = backlog
        /\ conn' = [conn EXCEPT ![cur].state = "CLOSING", ![cur].buf = Tail(@)]
    BY <1>4 DEF RejectAnswer, CloseFrame
  <2>2. Closes(cur)
    BY <1>a, <2>1 DEF Closes, IInv, TypeOK, Entry
  <2> QED BY <2>2, CloseLife
<1> QED BY <1>1, <1>2, <1>3, <1>4 DEF FrameLoop

LEMMA OnTimerLife ==
    ASSUME IInv, IInv', OwnDescriptors, OnTimer
    PROVE  Implemented
<1> USE DEF kernelVars, loopVars, tableVars
<1>1. CASE TimerStream \/ TimerSkip \/ TimerDone
  BY <1>1, QuietLife DEF TimerStream, TimerSkip, TimerDone, Quiet
<1>2. CASE TimerTimeout
  <2>1. PICK f \in visit :
          /\ conn[f].state = "NEGOTIATING" /\ UNCHANGED <<sock, backlog, peer, tls>>
          /\ conn' = [conn EXCEPT ![f].state = "CLOSING"]
    BY <1>2 DEF TimerTimeout, TimedOut
  <2>2. f \in FD /\ tls[f].state = "established" /\ sock[f] # None
    BY <2>1 DEF IInv, TablesAgree, TypeOK
  <2>3. Advance(f, "NEGOTIATING", "CLOSING")
    <3>1. conn'[f].state = "CLOSING" /\ \A g \in FD \ {f} : conn'[g] = conn[g]
      BY <2>1, <2>2 DEF IInv, TypeOK, Entry
    <3> QED BY <2>1, <2>2, <3>1 DEF Advance, ReachedBy
  <2>4. OwnDescriptors' /\ sock[f] \in Client /\ Lifecycle!Expire(sock[f])
    BY <2>3, AdvanceLife DEF Lifecycle!Expire
  <2> QED BY <2>4 DEF Implemented, Lifecycle!Next
<1>3. CASE TimerClose
  <2>1. PICK f \in FD : TlsCloseConnection(f, "CLOSING") /\ backlog' = backlog
    BY <1>3 DEF TimerClose, IInv, TypeOK
  <2>2. Closes(f)
    BY <2>1 DEF TlsCloseConnection, Closes, IInv, TypeOK, Entry
  <2> QED BY <2>2, CloseLife
<1> QED BY <1>1, <1>2, <1>3 DEF OnTimer

LEMMA ShutdownLife ==
    ASSUME Shutdown
    PROVE  Implemented
<1>1. OwnDescriptors'
  BY NoneAssumption DEF Shutdown, OwnDescriptors, ClosedPeer, NoEntry
<1>2. \A c \in Client : life'[c] = "gone"
  BY <1>1, NoneAssumption, LifeOfOthers DEF Shutdown, ClosedPeer
<1>3. life' = [c \in Client |-> "gone"]
  BY <1>2, LifeIsFunction, Zenon
<1> QED BY <1>1, <1>3 DEF Implemented, Lifecycle!Next, Lifecycle!Exit

\* MediaServer implements ConnectionLifecycle: whatever the connections share,
\* each goes through the states of connection.h in their order, and a step
\* concerns one of them.
THEOREM LifecycleHolds == Spec => LifecycleSpec
<1>1. Init => OwnDescriptors /\ Lifecycle!Init
  <2> SUFFICES ASSUME Init PROVE OwnDescriptors /\ Lifecycle!Init
    OBVIOUS
  <2>1. OwnDescriptors
    BY NoneAssumption DEF Init, OwnDescriptors, NewPeer, NoEntry
  <2>2. \A c \in Client : life[c] = "absent"
    BY <2>1, NoneAssumption, LifeOfOthers DEF Init, NewPeer
  <2> QED BY <2>1, <2>2, LifeIsFunction, Zenon DEF Lifecycle!Init
<1>2. IInv /\ IInv' /\ OwnDescriptors /\ [Next]_vars => OwnDescriptors' /\ [Lifecycle!Next]_life
  <2> SUFFICES ASSUME IInv, IInv', OwnDescriptors, [Next]_vars PROVE Implemented
    BY DEF Implemented
  <2>1. CASE UNCHANGED vars
    BY <2>1, QuietLife DEF vars, kernelVars, tableVars, Quiet
  <2> QED
    BY <2>1, PeersLife, EventsLife, AcceptsLife, ReceivesLife, SslReadsLife, FrameLoopLife,
       OnTimerLife, ShutdownLife DEF Next, Server, Gone
<1> QED BY <1>1, <1>2, Invariance, PTL DEF Spec, LifecycleSpec, Lifecycle!Spec
=============================================================================
