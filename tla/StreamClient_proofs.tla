------------------------ MODULE StreamClient_proofs -------------------------
(***************************************************************************)
(* Proofs about StreamClient.  The argument for AcceptedIsReady: a "ready" *)
(* that a live stream has not handled yet was sent by a worker that is     *)
(* ready, and only a request that disconnect() posts, or its timer, takes  *)
(* that from the worker (IInv).  While the worker still initializes, there *)
(* is nothing a server could have been told.                               *)
(* For AudioIsAskedFor the same is followed along the queues: where an     *)
(* audio packet is, its request has been, or is before it (AskedFor).      *)
(***************************************************************************)
EXTENDS StreamClient, TLAPS

Has(s, t) == \E i \in DOMAIN s : s[i].type = t
Once(s, t) == \A i, j \in DOMAIN s : s[i].type = t /\ s[j].type = t => i = j
OnlyFirst(s, t) == \A i \in DOMAIN s : s[i].type = t => i = 1

Ready ==
    /\ worker.life = "running" /\ worker.decoder
    /\ worker.initialized /\ worker.protocolInitialized

\* Before Connect there is no socket, before the offer there is no worker.
IdleIsFresh == card = "idle" => sock = "none" /\ offer = "none"
NoOfferYet ==
    offer = "none" =>
        /\ bridge = "none" /\ requests = <<>> /\ replies = <<>> /\ worker = NoWorker
        /\ answer = "none" /\ server # "streaming" /\ ~Has(inbox, "packet")

\* disconnect() closes, and nothing else destroys.
GoneIsClosed ==
    card = "gone" => /\ status = "disconnected" /\ bridge # "live"
                     /\ sock \notin {"connecting", "open"}
DestroyedIsGone == bridge = "destroyed" \/ Has(requests, "destroy") => card = "gone"

\* There is one offer, and one request to initialize.
OneOffer ==
    /\ server = "none" => inbox = <<>>
    /\ server = "none" \/ Has(inbox, "offer") => offer = "none"
    /\ Once(inbox, "offer")
OneInit ==
    /\ OnlyFirst(requests, "init")
    /\ Has(requests, "init") => ~worker.decoder /\ ~worker.loading /\ ~worker.initialized
    /\ worker.loading => ~worker.initialized

\* Whatever makes the server stream, or came of it, has a worker behind it.
AllowedIsReady ==
    card = "live" /\ \/ answer = "accept" \/ server = "streaming"
                     \/ Has(requests, "initAudio") \/ Has(replies, "ready")
        => Ready

Shape ==
    /\ IdleIsFresh /\ NoOfferYet /\ GoneIsClosed /\ DestroyedIsGone
    /\ OneOffer /\ OneInit /\ AllowedIsReady

\* The inductive invariant.
IInv == TypeOK /\ Shape

----------------------------------------------------------------------------
(* Lemmas about sequences and messages.                                    *)

LEMMA TailOf ==
    ASSUME NEW T, NEW s \in Seq(T), s # <<>>
    PROVE  /\ Tail(s) \in Seq(T) /\ Head(s) \in T
           /\ 1 \in DOMAIN s /\ Head(s) = s[1]
           /\ \A i \in DOMAIN Tail(s) : i + 1 \in DOMAIN s /\ Tail(s)[i] = s[i + 1]
OBVIOUS

LEMMA AppendOf ==
    ASSUME NEW T, NEW s \in Seq(T), NEW e \in T
    PROVE  /\ Append(s, e) \in Seq(T)
           /\ \A i \in DOMAIN Append(s, e) :
                 \/ i \in DOMAIN s /\ Append(s, e)[i] = s[i]
                 \/ i = Len(s) + 1 /\ Append(s, e)[i] = e
OBVIOUS

LEMMA SeqGrows ==
    ASSUME NEW S, NEW T, S \subseteq T, NEW s \in Seq(S)
    PROVE  s \in Seq(T)
OBVIOUS

\* What a queue holds when its head is taken or something is put at its end.
LEMMA TailHas ==
    ASSUME NEW T, NEW s \in Seq(T), s # <<>>, NEW t
    PROVE  /\ Head(s).type = t => Has(s, t)
           /\ Has(Tail(s), t) => Has(s, t)
           /\ Once(s, t) => Once(Tail(s), t)
           /\ Once(s, t) /\ Head(s).type = t => ~Has(Tail(s), t)
           /\ OnlyFirst(s, t) => ~Has(Tail(s), t) /\ OnlyFirst(Tail(s), t)
<1>1. /\ Tail(s) \in Seq(T) /\ 1 \in DOMAIN s /\ Head(s) = s[1]
      /\ \A i \in DOMAIN Tail(s) : i + 1 \in DOMAIN s /\ Tail(s)[i] = s[i + 1]
      /\ \A i \in DOMAIN Tail(s) : i \in Nat /\ i > 0
  BY TailOf
<1>2. Once(s, t) => Once(Tail(s), t)
  BY <1>1 DEF Once
<1>3. Once(s, t) /\ Head(s).type = t => ~Has(Tail(s), t)
  BY <1>1 DEF Once, Has
<1>4. OnlyFirst(s, t) => ~Has(Tail(s), t) /\ OnlyFirst(Tail(s), t)
  BY <1>1 DEF OnlyFirst, Has
<1> QED BY <1>1, <1>2, <1>3, <1>4 DEF Has

LEMMA AppendHas ==
    ASSUME NEW T, NEW s \in Seq(T), NEW e, NEW t
    PROVE  /\ Has(Append(s, e), t) => Has(s, t) \/ e.type = t
           /\ e.type # t /\ Once(s, t) => Once(Append(s, e), t)
           /\ e.type # t /\ OnlyFirst(s, t) => OnlyFirst(Append(s, e), t)
<1>1. \A i \in DOMAIN Append(s, e) :
         \/ i \in DOMAIN s /\ Append(s, e)[i] = s[i]
         \/ i = Len(s) + 1 /\ Append(s, e)[i] = e
  OBVIOUS
<1> QED BY <1>1 DEF Has, Once, OnlyFirst

LEMMA EmptyHas == \A t : ~Has(<<>>, t) /\ Once(<<>>, t) /\ OnlyFirst(<<>>, t)
BY DEF Has, Once, OnlyFirst

LEMMA Messages ==
    /\ {Plain("open"), Plain("offer"), Plain("close")} \subseteq ToServer
    /\ {Plain("init"), Plain("initAudio"), Plain("destroy")} \subseteq Request
    /\ {Plain("ready"), Plain("error"), Plain("destroyed")} \subseteq Response
    /\ \A f \in Frame :
          /\ Message("decode", f) \in Request
          /\ Message("frame", f) \in Response /\ Message("audioFrame", f) \in Response
    /\ \A m \in ToServer : m.type = "packet" => m.frame \in Frame
    /\ \A m \in Request : m.type = "decode" => m.frame \in Frame
    /\ \A m \in Response : m.type \in {"frame", "audioFrame"} => m.frame \in Frame
BY DEF ToServer, Request, Response, PlainOf, Plain, Message, Nothing

LEMMA SameTypes ==
    ASSUME UNCHANGED kinds
    PROVE  /\ Frame' = Frame /\ ToServer' = ToServer /\ Request' = Request
           /\ Response' = Response /\ Worker' = Worker
BY DEF Streamed, Frame, ToServer, Request, Response, Worker, PlainOf, Nothing, Stamped

----------------------------------------------------------------------------
(* Types.                                                                  *)

\* What a step may do to the worker: lose it, set its flags, or put the
\* pictures and sounds of this stream into its codecs.
LEMMA FirstTypes == NoWorker \in Worker /\ NothingHeld \in [video : Seq(Frame), audio : Seq(Frame)]
<1>1. NothingHeld \in [video : Seq(Frame), audio : Seq(Frame)]
  BY DEF NothingHeld
<1> QED BY <1>1 DEF Worker, NoWorker

LEMMA WorkerTypes ==
    ASSUME NEW w \in Worker, NEW b \in BOOLEAN, NEW c \in BOOLEAN
    PROVE  /\ NoWorker \in Worker
           /\ \A l \in {"none", "running", "broken", "terminated"} : [w EXCEPT !.life = l] \in Worker
           /\ [w EXCEPT !.decoder = b, !.loading = c] \in Worker
           /\ [w EXCEPT !.loading = b, !.module = c] \in Worker
           /\ [w EXCEPT !.loading = FALSE, !.module = TRUE, !.initialized = TRUE,
                        !.protocolInitialized = b] \in Worker
           /\ \A a \in {"ready", "refused"} : [w EXCEPT !.audio = a] \in Worker
           /\ [w EXCEPT !.decoder = FALSE] \in Worker
           /\ [w EXCEPT !.decoder = FALSE, !.module = FALSE, !.initialized = FALSE,
                        !.protocolInitialized = FALSE, !.unit = 0, !.held = NothingHeld] \in Worker
<1>1. NothingHeld \in [video : Seq(Frame), audio : Seq(Frame)] /\ 0 \in Streamed \cup {0}
  BY FirstTypes
<1>2. NoWorker \in Worker
  BY FirstTypes
<1>3. \A l \in {"none", "running", "broken", "terminated"} : [w EXCEPT !.life = l] \in Worker
  BY DEF Worker
<1>4. [w EXCEPT !.decoder = b, !.loading = c] \in Worker
  BY DEF Worker
<1>5. [w EXCEPT !.loading = b, !.module = c] \in Worker
  BY DEF Worker
<1>6. [w EXCEPT !.loading = FALSE, !.module = TRUE, !.initialized = TRUE,
                !.protocolInitialized = b] \in Worker
  BY DEF Worker
<1>7. \A a \in {"ready", "refused"} : [w EXCEPT !.audio = a] \in Worker
  BY DEF Worker
<1>8. [w EXCEPT !.decoder = FALSE] \in Worker
  BY DEF Worker
<1>9. [w EXCEPT !.decoder = FALSE, !.module = FALSE, !.initialized = FALSE,
                !.protocolInitialized = FALSE, !.unit = 0, !.held = NothingHeld] \in Worker
  BY <1>1 DEF Worker
<1> QED BY <1>2, <1>3, <1>4, <1>5, <1>6, <1>7, <1>8, <1>9

LEMMA HeldTypes ==
    ASSUME NEW w \in Worker, NEW u \in Streamed \cup {0}, NEW h \in Seq(Frame),
           NEW kind \in {"video", "audio"}
    PROVE  [w EXCEPT !.unit = u, !.held[kind] = h] \in Worker
BY DEF Worker

LEMMA ReplyTypes ==
    ASSUME replies \in Seq(Response), NEW m \in Response, Reply(m)
    PROVE  replies' \in Seq(Response)
BY AppendOf DEF Reply

LEMMA ServerTypes ==
    ASSUME TypeOK, Server
    PROVE  TypeOK'
<1>1. CASE ServerStreams
  <2>1. PICK kind \in {"video", "audio"} : kinds' = Append(kinds, kind)
    BY <1>1 DEF ServerStreams
  <2>2. /\ kinds' \in Seq({"video", "audio"}) /\ Len(kinds') <= MaxPackets
        /\ Len(kinds') = Len(kinds) + 1 /\ Len(kinds) \in Nat
    BY <1>1, <2>1, MaxPacketsAssumption DEF ServerStreams, TypeOK
  <2>3. Streamed \subseteq Streamed' /\ Len(kinds) + 1 \in Streamed'
    BY <2>2 DEF Streamed
  <2>4. Frame \subseteq Frame'
    BY <2>3 DEF Frame
  <2>5. ToServer \subseteq ToServer' /\ Request \subseteq Request' /\ Response \subseteq Response'
    BY <2>4 DEF ToServer, Request, Response, PlainOf, Nothing, Stamped
  <2>6. Packet("packet", Len(kinds) + 1) \in ToServer'
    BY <2>3 DEF Packet, Message, Stamped, ToServer, Frame
  <2>7. inbox' \in Seq(ToServer')
    <3>1. inbox \in Seq(ToServer')
      BY <2>5, SeqGrows DEF TypeOK
    <3> QED BY <1>1, <2>6, <3>1, AppendOf DEF ServerStreams
  <2>8. requests' \in Seq(Request') /\ replies' \in Seq(Response')
    BY <1>1, <2>5, SeqGrows DEF TypeOK, ServerStreams, workerVars
  <2>9. shown' \in Seq(Frame') /\ heard' \in Seq(Frame')
    BY <1>1, <2>4, SeqGrows DEF TypeOK, ServerStreams, workerVars, outputVars
  <2>10. worker' \in Worker'
    <3>1. worker.held \in [video : Seq(Frame), audio : Seq(Frame)]
      BY DEF TypeOK, Worker
    <3>2. worker.held \in [video : Seq(Frame'), audio : Seq(Frame')]
      BY <2>4, <3>1, SeqGrows
    <3> QED BY <1>1, <2>3, <3>2 DEF TypeOK, Worker, ServerStreams, workerVars
  <2> QED BY <1>1, <2>2, <2>7, <2>8, <2>9, <2>10 DEF TypeOK, ServerStreams, pageVars
<1>2. CASE ~ServerStreams
  <2>1. UNCHANGED kinds
    BY <1>2 DEF Server, ServerAccepts, ServerTakesAnswer, ServerTimesOut, ServerStops, ServerSeesClose
  <2>2. /\ <<Plain("open"), Plain("offer")>> \in Seq(ToServer)
        /\ Append(inbox, Plain("close")) \in Seq(ToServer)
    BY Messages, AppendOf DEF TypeOK
  <2>3. CASE ServerAccepts
    BY <2>1, <2>2, <2>3, SameTypes DEF ServerAccepts, TypeOK, pageVars, workerVars, outputVars
  <2>4. CASE ServerTakesAnswer
    BY <2>1, <2>2, <2>4, SameTypes DEF ServerTakesAnswer, TypeOK, pageVars, workerVars, outputVars
  <2>5. CASE ServerTimesOut \/ ServerStops
    BY <2>1, <2>2, <2>5, SameTypes DEF ServerTimesOut, ServerStops, TypeOK, pageVars, workerVars, outputVars
  <2>6. CASE ServerSeesClose
    BY <2>1, <2>6, SameTypes DEF ServerSeesClose, TypeOK, pageVars, wireVars, workerVars, outputVars
  <2> QED BY <1>2, <2>3, <2>4, <2>5, <2>6 DEF Server
<1> QED BY <1>1, <1>2

LEMMA PageTypes ==
    ASSUME TypeOK, User \/ Socket \/ OnError
    PROVE  TypeOK'
<1>1. UNCHANGED kinds
  <2>1. User => UNCHANGED serverVars
    BY DEF User, Connect, Disconnect
  <2>2. OnOpen \/ OnOffer \/ OnPacket => UNCHANGED serverVars
    BY DEF OnOpen, OnOffer, OnPacket
  <2>3. OnOfferNoWorker \/ OnClose \/ OnError => UNCHANGED serverVars
    BY DEF OnOfferNoWorker, OnClose, OnError
  <2> QED BY <2>1, <2>2, <2>3 DEF Socket, serverVars
<1>2. /\ <<Plain("init")>> \in Seq(Request)
      /\ Append(requests, Plain("destroy")) \in Seq(Request)
  BY Messages, AppendOf DEF TypeOK
<1>3. inbox # <<>> => Tail(inbox) \in Seq(ToServer) /\ Head(inbox) \in ToServer
  BY TailOf DEF TypeOK
<1>4. CASE Connect
  BY <1>1, <1>4, SameTypes DEF Connect, TypeOK, serverVars, workerVars, outputVars
<1>5. CASE Disconnect
  <2>1. requests' \in Seq(Request)
    BY <1>2, <1>5 DEF Disconnect, TypeOK
  <2>2. sock' \in {"none", "connecting", "open", "closing", "closed"}
        /\ bridge' \in {"none", "live", "destroyed"}
    BY <1>5 DEF Disconnect, TypeOK
  <2> QED BY <1>1, <1>5, <2>1, <2>2, SameTypes DEF Disconnect, TypeOK, serverVars, outputVars
<1>6. CASE OnOpen
  BY <1>1, <1>3, <1>6, SameTypes DEF OnOpen, Delivers, TypeOK, pageVars, serverVars, workerVars, outputVars
<1>7. CASE OnOffer
  <2>1. worker' \in Worker
    BY <1>7, WorkerTypes DEF OnOffer, TypeOK
  <2> QED BY <1>1, <1>2, <1>3, <1>7, <2>1, SameTypes DEF OnOffer, Delivers, TypeOK, serverVars, outputVars
<1>8. CASE OnOfferNoWorker
  <2>1. /\ status' \in {"disconnected", "connecting", "connected", "error"}
        /\ promise' \in {"none", "pending", "resolved", "rejected"}
        /\ answer' \in {"none", "accept", "reject"} /\ UNCHANGED requests
    BY <1>8 DEF OnOfferNoWorker, Refuse, SendAnswer, TypeOK
  <2> QED BY <1>1, <1>3, <1>8, <2>1, SameTypes
          DEF OnOfferNoWorker, Delivers, TypeOK, serverVars, outputVars
<1>9. CASE OnPacket
  <2>1. Message("decode", Head(inbox).frame) \in Request
    BY <1>3, <1>9, Messages DEF OnPacket, Delivers
  <2>2. requests' \in Seq(Request)
    BY <1>9, <2>1, AppendOf DEF OnPacket, TypeOK
  <2> QED BY <1>1, <1>3, <1>9, <2>2, SameTypes
          DEF OnPacket, Delivers, TypeOK, pageVars, serverVars, outputVars
<1>10. CASE OnClose
  BY <1>1, <1>10, SameTypes DEF OnClose, TypeOK, serverVars, workerVars, outputVars
<1>11. CASE OnError
  BY <1>1, <1>11, SameTypes DEF OnError, TypeOK, serverVars, workerVars, outputVars
<1> QED BY <1>4, <1>5, <1>6, <1>7, <1>8, <1>9, <1>10, <1>11 DEF User, Socket

LEMMA ReplyIsTyped ==
    ASSUME TypeOK, WorkerReply \/ InitTimesOut \/ Terminate
    PROVE  TypeOK'
<1>1. UNCHANGED kinds
  BY DEF WorkerReply, InitReady, InitFailed, OnFrame, OnAudioFrame, OnOtherReply, InitTimesOut,
         Terminate, serverVars
<1>2. replies # <<>> => Tail(replies) \in Seq(Response) /\ Head(replies) \in Response
  BY TailOf DEF TypeOK
<1>3. CASE InitReady
  <2>1. Append(requests, Plain("initAudio")) \in Seq(Request) /\ requests \in Seq(Request)
    BY Messages, AppendOf DEF TypeOK
  <2>2. requests' \in Seq(Request)
    BY <1>3, <2>1 DEF InitReady, Accept
  <2>3. /\ status' \in {"disconnected", "connecting", "connected", "error"}
        /\ promise' \in {"none", "pending", "resolved", "rejected"}
        /\ answer' \in {"none", "accept", "reject"}
    BY <1>3 DEF InitReady, Accept, SendAnswer, TypeOK
  <2> QED BY <1>1, <1>2, <1>3, <2>3, <2>2, SameTypes
          DEF InitReady, Replied, TypeOK, serverVars, outputVars
<1>4. CASE InitFailed
  BY <1>1, <1>2, <1>4, SameTypes
     DEF InitFailed, Refuse, SendAnswer, Replied, TypeOK, serverVars, outputVars
<1>5. CASE OnFrame \/ OnAudioFrame
  <2>1. Head(replies).frame \in Frame /\ Tail(replies) \in Seq(Response)
    BY <1>2, <1>5, Messages DEF OnFrame, OnAudioFrame, Replied
  <2>2. Append(shown, Head(replies).frame) \in Seq(Frame)
        /\ Append(heard, Head(replies).frame) \in Seq(Frame)
    BY <2>1, AppendOf DEF TypeOK
  <2>3. shown' \in Seq(Frame) /\ heard' \in Seq(Frame)
    BY <1>5, <2>2 DEF OnFrame, OnAudioFrame, TypeOK
  <2> QED BY <1>1, <1>5, <2>1, <2>3, SameTypes
          DEF OnFrame, OnAudioFrame, TypeOK, pageVars, wireVars, serverVars
<1>6. CASE OnOtherReply
  BY <1>1, <1>2, <1>6, SameTypes
     DEF OnOtherReply, Replied, TypeOK, pageVars, wireVars, serverVars, outputVars
<1>7. CASE InitTimesOut
  BY <1>1, <1>7, SameTypes DEF InitTimesOut, Refuse, SendAnswer, TypeOK, serverVars, outputVars
<1>8. CASE Terminate
  <2>1. worker' \in Worker
    BY <1>8, WorkerTypes DEF Terminate, TypeOK
  <2> QED BY <1>1, <1>8, <2>1, SameTypes DEF Terminate, TypeOK, pageVars, wireVars, serverVars, outputVars
<1> QED BY <1>3, <1>4, <1>5, <1>6, <1>7, <1>8 DEF WorkerReply

\* What a packet does to the parser and a codec: the picture before it goes
\* into the codec, or nothing does.
LEMMA SentCases ==
    ASSUME worker \in Worker, NEW k \in Streamed
    PROVE  /\ \A s \in SentVideo(k) :
                 \/ /\ worker.unit # 0 /\ s.unit = k
                    /\ s.held = Append(worker.held.video, Stamped(worker.unit, k))
                 \/ worker.unit = 0 /\ s.unit = k /\ s.held = worker.held.video
                 \/ s.unit \in {0, worker.unit} /\ s.held = worker.held.video
           /\ \A s \in SentAudio(k) :
                 /\ s.unit = worker.unit
                 /\ s.held \in {worker.held.audio, Append(worker.held.audio, Stamped(k, k))}
<1> DEFINE held == worker.held.video
           Taken == {[unit |-> p.unit, held |-> held \o p.whole, ok |-> TRUE] : p \in Parsed(k)}
           Refused == {[unit |-> 0, held |-> held, ok |-> ok] :
                          ok \in IF worker.unit = 0 THEN {} ELSE BOOLEAN}
<1>1. SentVideo(k) = Taken \cup Refused
  BY DEF SentVideo
<1>2. \A s \in Taken : \E p \in Parsed(k) : s.unit = p.unit /\ s.held = held \o p.whole
  <2>1. SUFFICES ASSUME NEW p \in Parsed(k),
                        NEW s, s = [unit |-> p.unit, held |-> held \o p.whole, ok |-> TRUE]
                 PROVE  s.unit = p.unit /\ s.held = held \o p.whole
    BY Zenon
  <2> QED BY <2>1
<1>3. \A s \in Refused : s.unit = 0 /\ s.held = held
  OBVIOUS
<1>4. held \in Seq(Frame)
  BY DEF Worker
<1>5. /\ held \o <<>> = held
      /\ \A f : held \o <<f>> = Append(held, f)
  <2>1. held \o <<>> = held
    BY <1>4
  <2>2. \A f : held \o <<f>> = Append(held, f)
    BY <1>4
  <2> QED BY <2>1, <2>2
<1>6. \A p \in Parsed(k) :
         \/ p.unit = k /\ worker.unit # 0 /\ p.whole = <<Stamped(worker.unit, k)>>
         \/ p.unit = k /\ worker.unit = 0 /\ p.whole = <<>>
         \/ p.unit = worker.unit /\ p.whole = <<>>
  BY DEF Parsed
<1>7. \A s \in SentAudio(k) :
         /\ s.unit = worker.unit
         /\ s.held \in {worker.held.audio, Append(worker.held.audio, Stamped(k, k))}
  BY DEF SentAudio
<1> HIDE DEF held, Taken, Refused
<1>8. \A s \in Taken :
         \/ worker.unit # 0 /\ s.unit = k /\ s.held = Append(held, Stamped(worker.unit, k))
         \/ worker.unit = 0 /\ s.unit = k /\ s.held = held
         \/ s.unit = worker.unit /\ s.held = held
  BY <1>2, <1>5, <1>6
<1> QED BY <1>1, <1>3, <1>7, <1>8 DEF held

\* ... and what a decode request comes to: the codec keeps everything, or gives
\* frames up, the last of which may go out.
Kept(s, h, response) ==
    \/ h = s.held /\ (UNCHANGED replies \/ Reply(Plain("error")))
    \/ \E i \in DOMAIN s.held :
          /\ h = SubSeq(s.held, i + 1, Len(s.held))
          /\ \/ UNCHANGED replies \/ Reply(Plain("error"))
             \/ Reply(Message(response, s.held[i]))

LEMMA DecodeCases ==
    ASSUME NEW kind \in {"video", "audio"}, NEW sent, NEW response,
           Decode(kind, sent, response)
    PROVE  \E s \in sent : \E h :
              /\ worker' = [worker EXCEPT !.unit = s.unit, !.held[kind] = h]
              /\ Kept(s, h, response)
<1>1. \A held : \A r \in ReceivedVideo(held) \cup ReceivedAudio(held) :
         \/ r.held = held /\ r.out = <<>>
         \/ \E i \in DOMAIN held :
               r.held = SubSeq(held, i + 1, Len(held)) /\ r.out \in {<<>>, <<held[i]>>}
  <2>1. \A held : \A r \in ReceivedVideo(held) :
           \/ r.held = held /\ r.out = <<>>
           \/ \E i \in DOMAIN held :
                 r.held = SubSeq(held, i + 1, Len(held)) /\ r.out = <<held[i]>>
    BY DEF ReceivedVideo
  <2>2. \A held : \A r \in ReceivedAudio(held) :
           \/ r \in ReceivedVideo(held)
           \/ \E i \in DOMAIN held : r.held = SubSeq(held, i + 1, Len(held)) /\ r.out = <<>>
    BY DEF ReceivedAudio
  <2> SUFFICES ASSUME NEW held, NEW r \in ReceivedVideo(held) \cup ReceivedAudio(held)
               PROVE  \/ r.held = held /\ r.out = <<>>
                      \/ \E i \in DOMAIN held :
                            r.held = SubSeq(held, i + 1, Len(held)) /\ r.out \in {<<>>, <<held[i]>>}
    OBVIOUS
  <2>3. CASE r \in ReceivedVideo(held)
    BY <2>1, <2>3
  <2>4. CASE r \in ReceivedAudio(held) /\ r \notin ReceivedVideo(held)
    BY <2>2, <2>4
  <2> QED BY <2>3, <2>4
<1> DEFINE Received(s) == IF kind = "video" THEN ReceivedVideo(s.held) ELSE ReceivedAudio(s.held)
           Keeps(s, held) == worker' = [worker EXCEPT !.unit = s.unit, !.held[kind] = held]
<1>2. PICK s \in sent :
         \/ Keeps(s, s.held) /\ Reply(Plain("error"))
         \/ \E r \in Received(s) :
               /\ Keeps(s, r.held)
               /\ \/ Reply(Plain("error"))
                  \/ UNCHANGED replies
                  \/ r.out # <<>> /\ Reply(Message(response, r.out[1]))
  BY DEF Decode
<1>3. \A r \in Received(s) :
         \/ r.held = s.held /\ r.out = <<>>
         \/ \E i \in DOMAIN s.held :
               r.held = SubSeq(s.held, i + 1, Len(s.held)) /\ r.out \in {<<>>, <<s.held[i]>>}
  BY <1>1
<1> HIDE DEF Received
<1>4. \A x : <<x>>[1] = x
  OBVIOUS
<1>5. CASE Keeps(s, s.held) /\ Reply(Plain("error"))
  BY <1>5 DEF Kept
<1>6. ASSUME NEW r \in Received(s), Keeps(s, r.held),
             \/ Reply(Plain("error"))
             \/ UNCHANGED replies
             \/ r.out # <<>> /\ Reply(Message(response, r.out[1]))
      PROVE  \E h : Keeps(s, h) /\ Kept(s, h, response)
  <2> HIDE DEF Keeps
  <2>1. CASE r.held = s.held /\ r.out = <<>>
    BY <1>6, <2>1 DEF Kept
  <2>2. CASE \E i \in DOMAIN s.held :
                r.held = SubSeq(s.held, i + 1, Len(s.held)) /\ r.out \in {<<>>, <<s.held[i]>>}
    <3>1. PICK i \in DOMAIN s.held :
             r.held = SubSeq(s.held, i + 1, Len(s.held)) /\ r.out \in {<<>>, <<s.held[i]>>}
      BY <2>2
    <3>2. r.out # <<>> => r.out[1] = s.held[i]
      BY <1>4, <3>1
    <3> QED BY <1>6, <3>1, <3>2 DEF Kept
  <2> QED BY <1>3, <2>1, <2>2
<1> QED BY <1>2, <1>5, <1>6

\* Whatever it is, it belongs to what has been streamed.
LEMMA SentTypes ==
    ASSUME worker \in Worker, NEW k \in Streamed
    PROVE  \A s \in SentVideo(k) \cup SentAudio(k) :
              s.unit \in Streamed \cup {0} /\ s.held \in Seq(Frame)
<1>1. /\ worker.unit \in Streamed \cup {0} /\ 0 \notin Streamed
      /\ worker.held.video \in Seq(Frame) /\ worker.held.audio \in Seq(Frame)
  BY DEF Worker, Streamed
<1>2. /\ worker.unit # 0 => Stamped(worker.unit, k) \in Frame
      /\ Stamped(k, k) \in Frame
  BY <1>1 DEF Stamped, Frame
<1>3. /\ worker.unit # 0 => Append(worker.held.video, Stamped(worker.unit, k)) \in Seq(Frame)
      /\ Append(worker.held.audio, Stamped(k, k)) \in Seq(Frame)
  BY <1>1, <1>2, AppendOf
<1> QED BY <1>1, <1>3, SentCases

LEMMA DecodeTypes ==
    ASSUME TypeOK, NEW kind \in {"video", "audio"}, NEW response \in {"frame", "audioFrame"},
           NEW k \in Streamed, NEW sent \in {SentVideo(k), SentAudio(k)},
           Decode(kind, sent, response)
    PROVE  worker' \in Worker /\ replies' \in Seq(Response)
<1>1. worker \in Worker /\ replies \in Seq(Response)
  BY DEF TypeOK
<1>2. PICK s \in sent : \E h :
         worker' = [worker EXCEPT !.unit = s.unit, !.held[kind] = h] /\ Kept(s, h, response)
  BY DecodeCases
<1>3. PICK h : worker' = [worker EXCEPT !.unit = s.unit, !.held[kind] = h] /\ Kept(s, h, response)
  BY <1>2
<1>4. s.unit \in Streamed \cup {0} /\ s.held \in Seq(Frame)
  BY <1>1, SentTypes
<1>5. \A i \in DOMAIN s.held :
         /\ SubSeq(s.held, i + 1, Len(s.held)) \in Seq(Frame)
         /\ Message(response, s.held[i]) \in Response
  <2>1. \A q \in Seq(Frame) : \A i \in DOMAIN q : SubSeq(q, i + 1, Len(q)) \in Seq(Frame) /\ q[i] \in Frame
    OBVIOUS
  <2> QED BY <1>4, <2>1, Messages
<1>6. \A m \in Response : Reply(m) => replies' \in Seq(Response)
  BY <1>1, ReplyTypes
<1>7. h \in Seq(Frame) /\ replies' \in Seq(Response)
  BY <1>1, <1>3, <1>4, <1>5, <1>6, Messages DEF Kept
<1>8. worker' \in Worker
  BY <1>1, <1>3, <1>4, <1>7, HeldTypes
<1> QED BY <1>7, <1>8

LEMMA WorkerStepTypes ==
    ASSUME TypeOK, WorkerTask \/ Loading \/ WorkerBreaks
    PROVE  TypeOK'
<1>1. UNCHANGED <<pageVars, wireVars, serverVars, outputVars>>
  <2>1. HandleInit \/ HandleInitAudio \/ HandleDestroy
          => UNCHANGED <<pageVars, wireVars, serverVars, outputVars>>
    BY DEF HandleInit, HandleInitAudio, HandleDestroy
  <2>2. HandleDecode => UNCHANGED <<pageVars, wireVars, serverVars, outputVars>>
    BY DEF HandleDecode
  <2>3. Loading \/ WorkerBreaks => UNCHANGED <<pageVars, wireVars, serverVars, outputVars>>
    BY DEF Loading, InitLoaded, LoadFails, WorkerBreaks
  <2> QED BY <2>1, <2>2, <2>3 DEF WorkerTask
<1>2. /\ worker \in Worker /\ replies \in Seq(Response) /\ requests \in Seq(Request)
      /\ requests # <<>> => Tail(requests) \in Seq(Request) /\ Head(requests) \in Request
  BY TailOf DEF TypeOK
<1>3. requests' \in Seq(Request)
  <2>1. WorkerTask => requests # <<>> /\ requests' = Tail(requests)
    BY DEF WorkerTask, HandleInit, HandleInitAudio, HandleDecode, HandleDestroy, Requested
  <2>2. Loading \/ WorkerBreaks => UNCHANGED requests
    BY DEF Loading, InitLoaded, LoadFails, WorkerBreaks
  <2> QED BY <1>2, <2>1, <2>2
<1>4. worker' \in Worker /\ replies' \in Seq(Response)
  <2>1. CASE HandleInit
    BY <1>2, <2>1, WorkerTypes DEF HandleInit
  <2>2. CASE HandleInitAudio
    BY <1>2, <2>2, WorkerTypes, ReplyTypes, Messages DEF HandleInitAudio, InitAudio
  <2>3. CASE HandleDecode
    <3>1. Head(requests).frame \in Frame /\ Head(requests).frame.frame \in Streamed
      <4>1. Head(requests).frame \in Frame
        BY <1>2, <2>3, Messages DEF HandleDecode, Requested
      <4> QED BY <4>1 DEF Frame
    <3> DEFINE k == Head(requests).frame.frame
    <3>2. \/ UNCHANGED worker /\ Reply(Plain("error"))
          \/ UNCHANGED <<worker, replies>>
          \/ Decode("video", SentVideo(k), "frame")
          \/ Decode("audio", SentAudio(k), "audioFrame")
      BY <2>3 DEF HandleDecode
    <3> HIDE DEF k
    <3>3. Reply(Plain("error")) => replies' \in Seq(Response)
      BY <1>2, Messages, ReplyTypes
    <3>4. k \in Streamed
      BY <3>1 DEF k
    <3>5. CASE Decode("video", SentVideo(k), "frame")
      BY <3>4, <3>5, DecodeTypes
    <3>6. CASE Decode("audio", SentAudio(k), "audioFrame")
      BY <3>4, <3>6, DecodeTypes
    <3> QED BY <1>2, <3>2, <3>3, <3>5, <3>6
  <2>4. CASE HandleDestroy
    <3>1. worker' \in Worker
      BY <1>2, <2>4, WorkerTypes DEF HandleDestroy, Freed
    <3> QED BY <1>2, <2>4, <3>1, ReplyTypes, Messages DEF HandleDestroy
  <2>5. CASE InitLoaded
    <3>1. PICK protocol \in BOOLEAN :
             /\ worker' = [worker EXCEPT !.loading = FALSE, !.module = TRUE, !.initialized = TRUE,
                                         !.protocolInitialized = protocol]
             /\ Reply(Plain(IF protocol THEN "ready" ELSE "error"))
      BY <2>5 DEF InitLoaded
    <3>2. Plain(IF protocol THEN "ready" ELSE "error") \in Response
      BY Messages
    <3> QED BY <1>2, <3>1, <3>2, WorkerTypes, ReplyTypes
  <2>6. CASE LoadFails
    <3>1. PICK module \in BOOLEAN :
             worker' = [worker EXCEPT !.loading = FALSE, !.module = module]
      BY <2>6 DEF LoadFails
    <3> QED BY <1>2, <2>6, <3>1, WorkerTypes, ReplyTypes, Messages DEF LoadFails
  <2>7. CASE WorkerBreaks
    BY <1>2, <2>7, WorkerTypes DEF WorkerBreaks
  <2> QED BY <2>1, <2>2, <2>3, <2>4, <2>5, <2>6, <2>7 DEF WorkerTask, Loading
<1> QED BY <1>1, <1>3, <1>4, SameTypes DEF TypeOK, pageVars, wireVars, serverVars, outputVars

LEMMA TypeStep ==
    ASSUME TypeOK, [Next]_vars
    PROVE  TypeOK'
<1>1. CASE UNCHANGED vars
  BY <1>1, SameTypes DEF TypeOK, vars, pageVars, wireVars, serverVars, workerVars, outputVars
<1>2. CASE Next
  BY <1>2, ServerTypes, PageTypes, ReplyIsTyped, WorkerStepTypes DEF Next
<1> QED BY <1>1, <1>2

----------------------------------------------------------------------------
(* The invariant is inductive.                                             *)

LEMMA InitInvariant == Init => IInv
<1>1. Init => TypeOK
  <2>1. \A T : <<>> \in Seq(T) /\ Len(<<>>) = 0
    OBVIOUS
  <2> QED BY <2>1, MaxPacketsAssumption, FirstTypes DEF Init, TypeOK
<1>2. Init => IdleIsFresh /\ NoOfferYet /\ GoneIsClosed /\ DestroyedIsGone
                /\ OneOffer /\ OneInit /\ AllowedIsReady
  BY EmptyHas DEF Init, IdleIsFresh, NoOfferYet, GoneIsClosed, DestroyedIsGone, OneOffer, OneInit, AllowedIsReady, Ready, NoWorker
<1> QED BY <1>1, <1>2 DEF IInv, Shape

LEMMA ServerStep ==
    ASSUME IInv, Server
    PROVE  Shape'
<1>1. Shape /\ inbox \in Seq(ToServer) /\ server \in {"none", "negotiating", "streaming", "closed"}
  BY DEF IInv, Shape, TypeOK
<1>2. UNCHANGED <<pageVars, sock, workerVars>>
  BY DEF Server, ServerAccepts, ServerTakesAnswer, ServerTimesOut, ServerStreams, ServerStops,
         ServerSeesClose, wireVars
<1>3. /\ (answer = "accept" \/ server = "streaming")' => answer = "accept" \/ server = "streaming"
      /\ server # "streaming" /\ answer = "none" => (server # "streaming" /\ answer = "none")'
      /\ server' # "none"
  BY <1>1 DEF Server, ServerAccepts, ServerTakesAnswer, ServerTimesOut, ServerStreams, ServerStops,
         ServerSeesClose, wireVars
<1>4. OneOffer' /\ (offer = "none" => ~Has(inbox', "packet"))
  <2>1. CASE ServerAccepts
    <3>1. \A i \in DOMAIN inbox' : inbox'[i].type # "packet" /\ (inbox'[i].type = "offer" => i = 2)
      BY <2>1 DEF ServerAccepts, Message, Plain
    <3> QED BY <1>1, <1>2, <1>3, <2>1, <3>1 DEF ServerAccepts, Shape, OneOffer, Once, Has, pageVars
  <2>2. CASE ~ServerAccepts
    <3>1. \/ UNCHANGED inbox
          \/ \E m : /\ m.type # "offer" /\ inbox' = Append(inbox, m)
                    /\ m.type = "packet" => server = "streaming"
      <4>1. Plain("close").type = "close"
        BY DEF Plain, Message
      <4>2. CASE ServerStreams
        <5>1. Packet("packet", Len(kinds) + 1).type = "packet"
          BY DEF Packet, Message
        <5> QED BY <4>2, <5>1 DEF ServerStreams
      <4> QED BY <2>2, <4>1, <4>2
              DEF Server, ServerTakesAnswer, ServerTimesOut, ServerStops, ServerSeesClose, wireVars
    <3>2. /\ Once(inbox', "offer") /\ (Has(inbox', "offer") => Has(inbox, "offer"))
          /\ Has(inbox', "packet") => Has(inbox, "packet") \/ server = "streaming"
      <4>1. Once(inbox, "offer")
        BY <1>1 DEF Shape, OneOffer
      <4>2. \A m : /\ m.type # "offer" => /\ Once(Append(inbox, m), "offer")
                                          /\ Has(Append(inbox, m), "offer") => Has(inbox, "offer")
                   /\ Has(Append(inbox, m), "packet") => Has(inbox, "packet") \/ m.type = "packet"
        BY <1>1, <4>1, AppendHas
      <4>3. CASE UNCHANGED inbox
        BY <4>1, <4>3
      <4>4. CASE \E m : /\ m.type # "offer" /\ inbox' = Append(inbox, m)
                        /\ m.type = "packet" => server = "streaming"
        <5>1. PICK m : /\ m.type # "offer" /\ inbox' = Append(inbox, m)
                       /\ m.type = "packet" => server = "streaming"
          BY <4>4
        <5> QED BY <4>2, <5>1
      <4> QED BY <3>1, <4>3, <4>4
    <3> QED BY <1>1, <1>2, <1>3, <3>2 DEF Shape, OneOffer, NoOfferYet, pageVars
  <2> QED BY <2>1, <2>2
<1> QED BY <1>1, <1>2, <1>3, <1>4
        DEF Shape, IdleIsFresh, NoOfferYet, GoneIsClosed, DestroyedIsGone, OneOffer, OneInit, AllowedIsReady, Ready, pageVars, workerVars

LEMMA PageStep ==
    ASSUME IInv, User \/ Socket \/ OnError
    PROVE  Shape'
<1>1. /\ Shape /\ inbox \in Seq(ToServer) /\ requests \in Seq(Request)
      /\ card \in {"idle", "live", "gone"}
  BY DEF IInv, TypeOK
<1>2. /\ inbox # <<>> => /\ Has(Tail(inbox), "offer") => Has(inbox, "offer")
                         /\ Head(inbox).type = "offer" => Has(inbox, "offer") /\ ~Has(Tail(inbox), "offer")
                         /\ Once(Tail(inbox), "offer")
                         /\ Has(Tail(inbox), "packet") => Has(inbox, "packet")
      /\ ~Has(<<>>, "offer") /\ ~Has(<<>>, "packet") /\ Once(<<>>, "offer")
  BY <1>1, TailHas, EmptyHas DEF Shape, OneOffer
<1>3. CASE Connect
  BY <1>1, <1>2, <1>3, EmptyHas DEF Connect, Shape, IdleIsFresh, NoOfferYet, GoneIsClosed, DestroyedIsGone, OneOffer, OneInit,
             AllowedIsReady, Ready, serverVars, workerVars
<1>4. CASE Disconnect
  <2>1. \/ UNCHANGED requests
        \/ /\ OnlyFirst(requests', "init")
           /\ Has(requests', "init") => Has(requests, "init")
    <3>1. Plain("destroy").type = "destroy"
      BY DEF Plain, Message
    <3> QED BY <1>1, <1>4, <3>1, AppendHas DEF Disconnect, Shape, OneInit
  <2>2. bridge = "live" => offer # "none"
    BY <1>1 DEF Shape, NoOfferYet
  <2>3. bridge # "live" => UNCHANGED <<requests, bridge>>
    BY <1>4 DEF Disconnect
  <2>4. card' = "gone" /\ status' = "disconnected" /\ bridge' # "live" /\ sock' \notin {"connecting", "open"}
    BY <1>4 DEF Disconnect
  <2>5. UNCHANGED <<offer, inbox, answer, server, replies, worker>>
    BY <1>4 DEF Disconnect, serverVars
  <2> QED BY <1>1, <2>1, <2>2, <2>3, <2>4, <2>5 DEF Shape, IdleIsFresh, NoOfferYet, GoneIsClosed, DestroyedIsGone, OneOffer, OneInit,
             AllowedIsReady, Ready
<1>5. CASE OnOpen
  BY <1>1, <1>2, <1>5 DEF OnOpen, Delivers, Shape, IdleIsFresh, NoOfferYet, GoneIsClosed, DestroyedIsGone, OneOffer, OneInit,
             AllowedIsReady, Ready, pageVars, serverVars, workerVars
<1>6. CASE OnOffer
  <2>1. /\ inbox # <<>> /\ Head(inbox).type = "offer" /\ sock = "open"
        /\ inbox' = Tail(inbox) /\ requests' = <<Plain("init")>> /\ bridge' = "live"
        /\ offer' = "awaiting" /\ worker' = [NoWorker EXCEPT !.life = "running"]
        /\ UNCHANGED <<card, status, sock, answer, server, replies>>
    BY <1>6 DEF OnOffer, Delivers, serverVars
  <2>2. Has(inbox, "offer") /\ ~Has(inbox', "offer") /\ Once(inbox', "offer") /\ offer = "none"
    BY <1>1, <1>2, <2>1 DEF Shape, OneOffer
  <2>3. \A t : Has(requests', t) => t = "init"
    BY <2>1 DEF Has, Plain, Message
  <2>4. OnlyFirst(requests', "init")
    BY <2>1 DEF OnlyFirst
  <2>5. ~worker'.decoder /\ ~worker'.loading /\ ~worker'.initialized
    BY <2>1 DEF NoWorker
  <2>6. card = "live" /\ replies = <<>> /\ answer = "none" /\ server # "streaming" /\ server # "none"
    BY <1>1, <2>1, <2>2 DEF Shape, NoOfferYet, OneOffer, IdleIsFresh, GoneIsClosed
  <2> QED BY <1>1, <2>1, <2>2, <2>3, <2>4, <2>5, <2>6, EmptyHas DEF Shape, IdleIsFresh, NoOfferYet, GoneIsClosed, DestroyedIsGone, OneOffer, OneInit,
             AllowedIsReady, Ready
<1>7. CASE OnOfferNoWorker
  <2>1. /\ inbox # <<>> /\ Head(inbox).type = "offer" /\ sock = "open" /\ inbox' = Tail(inbox)
        /\ offer' = "done" /\ answer' \in {"reject", answer}
        /\ UNCHANGED <<card, bridge, sock, server, replies, worker, requests>>
    BY <1>7 DEF OnOfferNoWorker, Refuse, SendAnswer, Delivers, serverVars
  <2>2. Has(inbox, "offer") /\ ~Has(inbox', "offer") /\ Once(inbox', "offer") /\ offer = "none"
    BY <1>1, <1>2, <2>1 DEF Shape, OneOffer
  <2>3. card = "live" /\ answer' # "accept"
    BY <1>1, <2>1, <2>2 DEF Shape, NoOfferYet, IdleIsFresh, GoneIsClosed
  <2> QED BY <1>1, <2>1, <2>2, <2>3, EmptyHas DEF Shape, IdleIsFresh, NoOfferYet, GoneIsClosed, DestroyedIsGone, OneOffer, OneInit,
             AllowedIsReady, Ready
<1>8. CASE OnPacket
  <2>1. /\ inbox # <<>> /\ Head(inbox).type = "packet" /\ sock = "open" /\ inbox' = Tail(inbox)
        /\ requests' = Append(requests, Message("decode", Head(inbox).frame))
        /\ UNCHANGED <<card, status, offer, bridge, sock, answer, server, replies, worker>>
    BY <1>8 DEF OnPacket, Delivers, pageVars, serverVars
  <2>2. /\ \A t : t # "decode" /\ Has(requests', t) => Has(requests, t)
        /\ OnlyFirst(requests', "init")
    <3>1. Message("decode", Head(inbox).frame).type = "decode"
      BY DEF Message
    <3> QED BY <1>1, <2>1, <3>1, AppendHas DEF Shape, OneInit
  <2>3. offer # "none"
    BY <1>1, <2>1, TailHas DEF Shape, NoOfferYet
  <2> QED BY <1>1, <1>2, <2>1, <2>2, <2>3 DEF Shape, IdleIsFresh, NoOfferYet, GoneIsClosed, DestroyedIsGone, OneOffer, OneInit,
             AllowedIsReady, Ready
<1>9. CASE OnClose \/ OnError
  <2>1. /\ sock' = "closed" /\ inbox' = <<>> /\ answer' = "none" /\ status' = "disconnected"
        /\ card # "idle"
        /\ UNCHANGED <<card, offer, bridge, server, requests, replies, worker>>
    BY <1>1, <1>2, <1>9
       DEF OnClose, OnError, Delivers, Shape, IdleIsFresh, serverVars, workerVars
  <2> QED BY <1>1, <1>2, <2>1 DEF Shape, IdleIsFresh, NoOfferYet, GoneIsClosed, DestroyedIsGone, OneOffer, OneInit,
             AllowedIsReady, Ready
<1> QED BY <1>3, <1>4, <1>5, <1>6, <1>7, <1>8, <1>9 DEF User, Socket

LEMMA ReplyStep ==
    ASSUME IInv, WorkerReply \/ InitTimesOut \/ Terminate
    PROVE  Shape'
<1>1. /\ Shape /\ requests \in Seq(Request) /\ replies \in Seq(Response)
      /\ card \in {"idle", "live", "gone"}
  BY DEF IInv, TypeOK
<1>2. replies # <<>> => /\ Has(Tail(replies), "ready") => Has(replies, "ready")
                        /\ Head(replies).type = "ready" => Has(replies, "ready")
  BY <1>1, TailHas
<1>3. CASE InitReady
  <2>1. /\ replies # <<>> /\ Head(replies).type = "ready" /\ replies' = Tail(replies)
        /\ offer = "awaiting" /\ offer' = "done"
        /\ card = "gone" => UNCHANGED <<status, answer, requests>>
        /\ requests' = requests \/ requests' = Append(requests, Plain("initAudio"))
        /\ UNCHANGED <<card, bridge, sock, inbox, server, worker>>
    BY <1>3 DEF InitReady, Replied, Accept, serverVars
  <2>2. /\ \A t : t # "initAudio" /\ Has(requests', t) => Has(requests, t)
        /\ OnlyFirst(requests', "init")
    <3>1. Plain("initAudio").type = "initAudio"
      BY DEF Plain, Message
    <3> QED BY <1>1, <2>1, <3>1, AppendHas DEF Shape, OneInit
  <2>3. card = "gone" \/ Ready
    BY <1>1, <1>2, <2>1 DEF Shape, AllowedIsReady, IdleIsFresh
  <2> QED BY <1>1, <1>2, <2>1, <2>2, <2>3 DEF Shape, IdleIsFresh, NoOfferYet, GoneIsClosed, DestroyedIsGone, OneOffer, OneInit,
             AllowedIsReady, Ready
<1>4. CASE InitFailed \/ InitTimesOut
  <2>1. /\ (replies # <<>> /\ replies' = Tail(replies)) \/ UNCHANGED replies
        /\ offer = "awaiting" /\ offer' = "done"
        /\ answer' \in {"reject", answer} /\ (card = "gone" => UNCHANGED status)
        /\ UNCHANGED <<card, bridge, sock, inbox, server, worker, requests>>
    BY <1>4 DEF InitFailed, InitTimesOut, Replied, Refuse, SendAnswer, serverVars
  <2> QED BY <1>1, <1>2, <2>1 DEF Shape, IdleIsFresh, NoOfferYet, GoneIsClosed, DestroyedIsGone, OneOffer, OneInit,
             AllowedIsReady, Ready
<1>5. CASE OnFrame \/ OnAudioFrame \/ OnOtherReply
  <2>1. /\ replies # <<>> /\ replies' = Tail(replies)
        /\ UNCHANGED <<pageVars, sock, inbox, answer, server, requests, worker>>
    BY <1>5 DEF OnFrame, OnAudioFrame, OnOtherReply, Replied, wireVars, serverVars
  <2> QED BY <1>1, <1>2, <2>1 DEF Shape, IdleIsFresh, NoOfferYet, GoneIsClosed, DestroyedIsGone, OneOffer, OneInit,
             AllowedIsReady, Ready, pageVars
<1>6. CASE Terminate
  <2>1. /\ bridge = "destroyed" /\ requests' = <<>> /\ worker' = [worker EXCEPT !.life = "terminated"]
        /\ UNCHANGED <<pageVars, sock, inbox, answer, server, replies>>
    BY <1>6 DEF Terminate, wireVars, serverVars
  <2>2. card = "gone" /\ offer # "none"
    BY <1>1, <2>1 DEF Shape, DestroyedIsGone, NoOfferYet
  <2>3. worker \in Worker
    BY DEF IInv, TypeOK
  <2>4. UNCHANGED <<worker.loading, worker.initialized>>
    BY <2>1, <2>3 DEF Worker
  <2> QED BY <1>1, <2>1, <2>2, <2>4, EmptyHas DEF Shape, IdleIsFresh, NoOfferYet, GoneIsClosed, DestroyedIsGone, OneOffer, OneInit,
             AllowedIsReady, Ready, pageVars
<1> QED BY <1>3, <1>4, <1>5, <1>6 DEF WorkerReply

LEMMA WorkerStep ==
    ASSUME IInv, WorkerTask \/ Loading \/ WorkerBreaks
    PROVE  Shape'
<1>1. /\ Shape /\ requests \in Seq(Request) /\ replies \in Seq(Response) /\ worker \in Worker
  BY DEF IInv, TypeOK
<1>2. /\ UNCHANGED <<pageVars, wireVars, serverVars>> /\ offer # "none"
  <2>1. WorkerTask \/ Loading \/ WorkerBreaks => UNCHANGED <<pageVars, wireVars, serverVars>>
    BY DEF WorkerTask, HandleInit, HandleInitAudio, HandleDecode, HandleDestroy,
           Loading, InitLoaded, LoadFails, WorkerBreaks
  <2>2. WorkerTask \/ Loading \/ WorkerBreaks => worker.life = "running"
    BY DEF WorkerTask, HandleInit, HandleInitAudio, HandleDecode, HandleDestroy,
           Loading, InitLoaded, LoadFails, WorkerBreaks, Requested
  <2> QED BY <1>1, <2>1, <2>2 DEF Shape, NoOfferYet, NoWorker
<1>3. requests # <<>> =>
         /\ \A t : (Head(requests).type = t => Has(requests, t)) /\ (Has(Tail(requests), t) => Has(requests, t))
         /\ OnlyFirst(Tail(requests), "init") /\ ~Has(Tail(requests), "init")
  BY <1>1, TailHas DEF Shape, OneInit
<1>4. /\ \A m : Reply(m) /\ Has(replies', "ready") => Has(replies, "ready") \/ m.type = "ready"
      /\ \A t \in {"ready", "error", "destroyed"} : Plain(t).type = t
  BY <1>1, AppendHas DEF Reply, Plain, Message
\* What the worker's tasks, each of which takes a request, have to show.
<1>5. ASSUME requests # <<>>, requests' = Tail(requests),
             worker'.loading => ~worker'.initialized,
             card = "live" /\ (Has(replies', "ready") \/ Ready) => Ready'
      PROVE  Shape'
  BY <1>1, <1>2, <1>3, <1>5
     DEF Shape, IdleIsFresh, NoOfferYet, GoneIsClosed, DestroyedIsGone, OneOffer, OneInit,
         AllowedIsReady, pageVars, wireVars, serverVars
<1>6. CASE HandleInit
  BY <1>1, <1>3, <1>5, <1>6 DEF HandleInit, Requested, Shape, OneInit, AllowedIsReady, Ready, Worker
<1>7. CASE HandleInitAudio
  BY <1>1, <1>3, <1>4, <1>5, <1>7
     DEF HandleInitAudio, InitAudio, Requested, Shape, OneInit, AllowedIsReady, Ready, Worker
<1>8. CASE HandleDecode
  <2>1. /\ requests # <<>> /\ requests' = Tail(requests)
        /\ \/ UNCHANGED replies
           \/ \E m : Reply(m) /\ m.type # "ready"
        /\ \/ UNCHANGED worker
           \/ \E u, h : \E kind \in {"video", "audio"} :
                 worker' = [worker EXCEPT !.unit = u, !.held[kind] = h]
    <3>1. \A f : \A t \in {"frame", "audioFrame"} : Message(t, f).type # "ready"
      BY DEF Message
    <3>2. Plain("error").type # "ready"
      BY <1>4
    <3> DEFINE k == Head(requests).frame.frame
    <3>3. \A kind \in {"video", "audio"}, response \in {"frame", "audioFrame"} : \A sent :
             Decode(kind, sent, response) =>
               /\ UNCHANGED replies \/ \E m : Reply(m) /\ m.type # "ready"
               /\ \E u, h : worker' = [worker EXCEPT !.unit = u, !.held[kind] = h]
      <4> SUFFICES ASSUME NEW kind \in {"video", "audio"}, NEW response \in {"frame", "audioFrame"},
                          NEW sent, Decode(kind, sent, response)
                   PROVE  /\ UNCHANGED replies \/ \E m : Reply(m) /\ m.type # "ready"
                          /\ \E u, h : worker' = [worker EXCEPT !.unit = u, !.held[kind] = h]
        OBVIOUS
      <4>1. PICK s \in sent : \E h : /\ worker' = [worker EXCEPT !.unit = s.unit, !.held[kind] = h]
                                     /\ Kept(s, h, response)
        BY DecodeCases
      <4>2. PICK h : /\ worker' = [worker EXCEPT !.unit = s.unit, !.held[kind] = h]
                     /\ Kept(s, h, response)
        BY <4>1
      <4>3. UNCHANGED replies \/ \E m : Reply(m) /\ m.type # "ready"
        BY <3>1, <3>2, <4>2 DEF Kept
      <4> QED BY <4>2, <4>3
    <3>4. \/ UNCHANGED worker /\ Reply(Plain("error"))
          \/ UNCHANGED <<worker, replies>>
          \/ Decode("video", SentVideo(k), "frame")
          \/ Decode("audio", SentAudio(k), "audioFrame")
      BY <1>8 DEF HandleDecode
    <3>5. requests # <<>> /\ requests' = Tail(requests)
      BY <1>8 DEF HandleDecode, Requested
    <3> HIDE DEF k
    <3> QED BY <3>2, <3>3, <3>4, <3>5
  <2>2. UNCHANGED <<worker.life, worker.decoder, worker.loading, worker.initialized,
                    worker.protocolInitialized>>
    BY <1>1, <2>1 DEF Worker
  <2> QED BY <1>1, <1>4, <1>5, <2>1, <2>2 DEF Shape, OneInit, AllowedIsReady, Ready
<1>9. CASE HandleDestroy
  <2>1. card = "gone"
    BY <1>1, <1>3, <1>9 DEF HandleDestroy, Requested, Shape, DestroyedIsGone
  <2>2. worker'.loading => ~worker'.initialized
    BY <1>1, <1>9 DEF HandleDestroy, Freed, Shape, OneInit, Worker
  <2> QED BY <1>5, <1>9, <2>1, <2>2 DEF HandleDestroy, Requested
<1>10. CASE Loading
  <2>1. /\ worker.loading /\ ~worker.initialized /\ ~Has(requests, "init") /\ UNCHANGED requests
        /\ ~worker'.loading
    BY <1>1, <1>10 DEF Loading, InitLoaded, LoadFails, Shape, OneInit, Worker
  <2>2. ~Ready /\ (Has(replies', "ready") => Ready' \/ Has(replies, "ready"))
    <3>1. CASE InitLoaded
      <4>1. PICK protocol \in IF worker.decoder THEN BOOLEAN ELSE {FALSE} :
               /\ worker' = [worker EXCEPT !.loading = FALSE, !.module = TRUE, !.initialized = TRUE,
                                           !.protocolInitialized = protocol]
               /\ Reply(Plain(IF protocol THEN "ready" ELSE "error"))
        BY <3>1 DEF InitLoaded
      <4>2. protocol => Ready'
        BY <1>1, <3>1, <4>1 DEF InitLoaded, Ready, Worker
      <4> QED BY <1>4, <2>1, <4>1, <4>2 DEF Ready
    <3>2. CASE LoadFails
      BY <1>4, <2>1, <3>2 DEF LoadFails, Ready
    <3> QED BY <1>10, <3>1, <3>2 DEF Loading
  <2> QED BY <1>1, <1>2, <2>1, <2>2 DEF Shape, IdleIsFresh, NoOfferYet, GoneIsClosed, DestroyedIsGone, OneOffer, OneInit,
             AllowedIsReady, Ready, pageVars, wireVars, serverVars
<1>11. CASE WorkerBreaks
  <2>1. /\ ~worker.initialized /\ UNCHANGED <<requests, replies>>
        /\ UNCHANGED <<worker.decoder, worker.loading, worker.initialized>>
    BY <1>1, <1>3, <1>11 DEF WorkerBreaks, Requested, Shape, OneInit, Worker
  <2> QED BY <1>1, <1>2, <2>1 DEF Shape, IdleIsFresh, NoOfferYet, GoneIsClosed, DestroyedIsGone, OneOffer, OneInit,
             AllowedIsReady, Ready, pageVars, wireVars, serverVars
<1> QED BY <1>6, <1>7, <1>8, <1>9, <1>10, <1>11 DEF WorkerTask

LEMMA IInvStep == IInv /\ [Next]_vars => IInv'
<1> SUFFICES ASSUME IInv, [Next]_vars PROVE IInv'
  OBVIOUS
<1>1. TypeOK'
  BY TypeStep DEF IInv
<1>2. CASE Next
  BY <1>1, <1>2, ServerStep, PageStep, ReplyStep, WorkerStep DEF Next, IInv
<1>3. CASE UNCHANGED vars
  <2>1. Shape'
    BY <1>3 DEF IInv, Shape, IdleIsFresh, NoOfferYet, GoneIsClosed, DestroyedIsGone, OneOffer, OneInit,
             AllowedIsReady, Ready, vars, pageVars, wireVars, serverVars, workerVars
  <2> QED BY <1>1, <2>1 DEF IInv
<1> QED BY <1>2, <1>3

\* Through every order of the page's tasks, the worker's replies, both timers
\* and the server's messages, the card, its socket, its bridge and its worker
\* agree on how far the stream has come, and only a ready worker is accepted.
THEOREM Invariance == Spec => []IInv
BY InitInvariant, IInvStep, PTL DEF Spec

----------------------------------------------------------------------------
(* What follows from it.                                                   *)

\* Packets, requests, replies and frames always belong to what has been
\* streamed, and a card, a socket and a worker are in one of their states.
THEOREM TypeCorrect == Spec => []TypeOK
BY Invariance, PTL DEF IInv

\* A live stream whose answer the server has, or will get, has a worker that
\* takes its packets, whatever the order of reply, timeout and disconnect().
THEOREM AcceptedIsReadyHolds == Spec => []AcceptedIsReady
<1>1. IInv => AcceptedIsReady
  BY DEF IInv, Shape, AllowedIsReady, AcceptedIsReady, Ready
<1> QED BY <1>1, Invariance, PTL

\* No continuation of the interrupted handler and no event of the socket
\* changes the status that disconnect() leaves.
THEOREM GoneIsDisconnectedHolds == Spec => []GoneIsDisconnected
<1>1. IInv => GoneIsDisconnected
  BY DEF IInv, Shape, GoneIsClosed, GoneIsDisconnected
<1> QED BY <1>1, Invariance, PTL

\* Frames that were on their way when disconnect() dropped the callbacks do
\* not reach the page.
THEOREM NothingAfterDisconnectHolds == Spec => NothingAfterDisconnect
<1>1. IInv /\ [Next]_vars => [card = "gone" => UNCHANGED outputVars]_vars
  <2> SUFFICES ASSUME IInv, [Next]_vars, card = "gone" PROVE UNCHANGED outputVars
    OBVIOUS
  <2>1. bridge # "live"
    BY DEF IInv, Shape, GoneIsClosed
  <2>2. CASE Server
    BY <2>2 DEF Server, ServerAccepts, ServerTakesAnswer, ServerTimesOut, ServerStreams, ServerStops,
            ServerSeesClose, workerVars
  <2>3. CASE User \/ Socket \/ OnError
    <3>1. User \/ OnOpen \/ OnOffer \/ OnPacket => UNCHANGED outputVars
      BY DEF User, Connect, Disconnect, OnOpen, OnOffer, OnPacket, workerVars
    <3>2. OnOfferNoWorker \/ OnClose \/ OnError => UNCHANGED outputVars
      BY DEF OnOfferNoWorker, OnClose, OnError, workerVars
    <3> QED BY <2>3, <3>1, <3>2 DEF Socket
  <2>4. CASE WorkerReply \/ InitTimesOut \/ Terminate
    <3>1. OnFrame \/ OnAudioFrame => UNCHANGED outputVars
      BY <2>1 DEF OnFrame, OnAudioFrame, outputVars
    <3>2. InitReady \/ InitFailed \/ OnOtherReply \/ InitTimesOut \/ Terminate => UNCHANGED outputVars
      BY DEF InitReady, InitFailed, OnOtherReply, InitTimesOut, Terminate
    <3> QED BY <2>4, <3>1, <3>2 DEF WorkerReply
  <2>5. CASE WorkerTask \/ Loading \/ WorkerBreaks
    BY <2>5 DEF WorkerTask, HandleInit, HandleInitAudio, HandleDecode, HandleDestroy,
            Loading, InitLoaded, LoadFails, WorkerBreaks
  <2>6. CASE UNCHANGED vars
    BY <2>6 DEF vars, workerVars
  <2> QED BY <2>2, <2>3, <2>4, <2>5, <2>6 DEF Next
<1> QED BY <1>1, Invariance, PTL DEF Spec, NothingAfterDisconnect

----------------------------------------------------------------------------
(* The audio decoder is asked for before the sound.                        *)

Preceded(s) ==
    \A i \in DOMAIN s : s[i].type = "decode" => \E j \in DOMAIN s : j < i /\ s[j].type = "initAudio"

\* Packets that the server may send, and those that wait, come after the request.
AskedFor ==
    /\ \A i \in DOMAIN kinds : kinds[i] = "audio" => hasAudio
    /\ hasAudio /\ worker.audio = "none" =>
          /\ Preceded(requests)
          /\ card = "live" /\ (answer = "accept" \/ server = "streaming" \/ Has(inbox, "packet"))
                => Has(requests, "initAudio")

LEMMA PrecededKept ==
    ASSUME NEW T, NEW s \in Seq(T), Preceded(s)
    PROVE  /\ s # <<>> /\ Head(s).type # "initAudio" =>
                 Preceded(Tail(s)) /\ (Has(s, "initAudio") => Has(Tail(s), "initAudio"))
           /\ \A e : /\ e.type # "decode" \/ Has(s, "initAudio") => Preceded(Append(s, e))
                     /\ Has(s, "initAudio") \/ e.type = "initAudio" => Has(Append(s, e), "initAudio")
<1>1. /\ DOMAIN s = 1..Len(s) /\ Len(s) \in Nat
      /\ \A e : /\ DOMAIN Append(s, e) = 1..(Len(s) + 1)
                /\ \A i \in 1..Len(s) : Append(s, e)[i] = s[i]
                /\ Append(s, e)[Len(s) + 1] = e
  OBVIOUS
<1>2. ASSUME s # <<>>, Head(s).type # "initAudio"
      PROVE  Preceded(Tail(s)) /\ (Has(s, "initAudio") => Has(Tail(s), "initAudio"))
  <2>1. /\ Head(s) = s[1] /\ DOMAIN Tail(s) = 1..(Len(s) - 1)
        /\ \A i \in 1..(Len(s) - 1) : Tail(s)[i] = s[i + 1]
    BY <1>2
  <2>2. \A j \in DOMAIN s : s[j].type = "initAudio" =>
           j - 1 \in DOMAIN Tail(s) /\ Tail(s)[j - 1] = s[j]
    <3>1. \A j \in DOMAIN s : s[j].type = "initAudio" => j # 1
      BY <1>2, <2>1
    <3>2. \A j \in DOMAIN s : j # 1 => j - 1 \in 1..(Len(s) - 1) /\ (j - 1) + 1 = j
      BY <1>1
    <3> QED BY <2>1, <3>1, <3>2
  <2>3. Has(s, "initAudio") => Has(Tail(s), "initAudio")
    BY <2>2 DEF Has
  <2>4. ASSUME NEW i \in DOMAIN Tail(s), Tail(s)[i].type = "decode"
        PROVE  \E j \in DOMAIN Tail(s) : j < i /\ Tail(s)[j].type = "initAudio"
    <3>1. i \in Nat /\ i + 1 \in DOMAIN s /\ s[i + 1].type = "decode"
      BY <1>1, <2>1, <2>4
    <3>2. PICK j \in DOMAIN s : j < i + 1 /\ s[j].type = "initAudio"
      BY <3>1 DEF Preceded
    <3>3. j - 1 < i
      BY <1>1, <3>1, <3>2
    <3> QED BY <2>2, <3>2, <3>3
  <2> QED BY <2>3, <2>4 DEF Preceded
<1>3. ASSUME NEW e
      PROVE  /\ e.type # "decode" \/ Has(s, "initAudio") => Preceded(Append(s, e))
             /\ Has(s, "initAudio") \/ e.type = "initAudio" => Has(Append(s, e), "initAudio")
  <2>1. Has(s, "initAudio") \/ e.type = "initAudio" => Has(Append(s, e), "initAudio")
    <3>1. \A i \in DOMAIN s : i \in DOMAIN Append(s, e) /\ Append(s, e)[i] = s[i]
      BY <1>1
    <3>2. Len(s) + 1 \in DOMAIN Append(s, e) /\ Append(s, e)[Len(s) + 1] = e
      BY <1>1
    <3> QED BY <3>1, <3>2 DEF Has
  <2>2. ASSUME e.type # "decode" \/ Has(s, "initAudio"),
               NEW i \in DOMAIN Append(s, e), Append(s, e)[i].type = "decode"
        PROVE  \E j \in DOMAIN Append(s, e) : j < i /\ Append(s, e)[j].type = "initAudio"
    <3>1. CASE i \in DOMAIN s
      BY <1>1, <2>2, <3>1 DEF Preceded
    <3>2. CASE i = Len(s) + 1
      <4>1. \A j \in DOMAIN s : j < i /\ j \in DOMAIN Append(s, e) /\ Append(s, e)[j] = s[j]
        BY <1>1, <3>2
      <4> QED BY <1>1, <2>2, <3>2, <4>1 DEF Has
    <3> QED BY <1>1, <3>1, <3>2
  <2> QED BY <2>1, <2>2 DEF Preceded
<1> QED BY <1>2, <1>3

\* The queue of requests goes on, or starts again, without a packet in front
\* of the request for the decoder.
LEMMA AskedKept ==
    ASSUME IInv, AskedFor, card' = "live" => card = "live", UNCHANGED hasAudio,
           \A i \in DOMAIN kinds' : (kinds'[i] = "audio" => hasAudio),
           worker'.audio = worker.audio \/ worker'.audio # "none",
           (answer = "accept" \/ server = "streaming" \/ Has(inbox, "packet"))'
             => \/ answer = "accept" \/ server = "streaming" \/ Has(inbox, "packet")
                \/ hasAudio => Has(requests', "initAudio") \/ card # "live",
           \/ UNCHANGED requests
           \/ requests # <<>> /\ requests' = Tail(requests)
                 /\ (Head(requests).type = "initAudio" => worker'.audio # "none")
           \/ \E e : /\ requests' = Append(requests, e)
                     /\ e.type # "decode" \/ (card = "live" /\ Has(inbox, "packet"))
           \/ requests' = <<>> /\ card # "live"
    PROVE  AskedFor'
<1>1. requests \in Seq(Request)
  BY DEF IInv, TypeOK
<1>2. ASSUME hasAudio, worker'.audio = "none"
      PROVE  /\ Preceded(requests')
             /\ Has(requests, "initAudio") /\ card = "live" => Has(requests', "initAudio")
  <2>1. Preceded(requests) /\ (card = "live" /\ Has(inbox, "packet") => Has(requests, "initAudio"))
    BY <1>2 DEF AskedFor
  <2>2. Preceded(<<>>)
    BY DEF Preceded
  <2> QED BY <1>1, <1>2, <2>1, <2>2, PrecededKept
<1> QED BY <1>2 DEF AskedFor

LEMMA AskedForStep ==
    ASSUME IInv, AskedFor, [Next]_vars
    PROVE  AskedFor'
<1>1. /\ Shape /\ requests \in Seq(Request) /\ inbox \in Seq(ToServer) /\ worker \in Worker
      /\ card \in {"idle", "live", "gone"}
      /\ \A i \in DOMAIN kinds : kinds[i] = "audio" => hasAudio
  BY DEF IInv, TypeOK, AskedFor
<1>2. UNCHANGED kinds => \A i \in DOMAIN kinds' : (kinds'[i] = "audio" => hasAudio)
  BY <1>1
<1>3. UNCHANGED <<answer, server, inbox>>
        => ((answer = "accept" \/ server = "streaming" \/ Has(inbox, "packet"))'
               => answer = "accept" \/ server = "streaming" \/ Has(inbox, "packet"))
  OBVIOUS
<1>4. CASE Server
  <2>1. /\ UNCHANGED <<card, hasAudio, requests, worker>>
    BY <1>4 DEF Server, ServerAccepts, ServerTakesAnswer, ServerTimesOut, ServerStreams, ServerStops,
            ServerSeesClose, pageVars, workerVars
  <2>2. \A i \in DOMAIN kinds' : (kinds'[i] = "audio" => hasAudio)
    <3>1. CASE ServerStreams
      <4>1. PICK kind \in IF hasAudio THEN {"video", "audio"} ELSE {"video"} : kinds' = Append(kinds, kind)
        BY <3>1 DEF ServerStreams
      <4>2. \A i \in DOMAIN kinds' : (i \in DOMAIN kinds /\ kinds'[i] = kinds[i]) \/ kinds'[i] = kind
        <5>1. kinds \in Seq({"video", "audio"})
          BY DEF IInv, TypeOK
        <5> QED BY <4>1, <5>1
      <4> QED BY <1>1, <4>1, <4>2
    <3>2. CASE ~ServerStreams
      BY <1>2, <1>4, <3>2 DEF Server, ServerAccepts, ServerTakesAnswer, ServerTimesOut, ServerStops,
         ServerSeesClose
    <3> QED BY <3>1, <3>2
  <2>3. (answer = "accept" \/ server = "streaming" \/ Has(inbox, "packet"))'
           => answer = "accept" \/ server = "streaming" \/ Has(inbox, "packet")
    <3>1. /\ Plain("close").type # "packet" /\ ~Has(<<Plain("open"), Plain("offer")>>, "packet")
      BY DEF Plain, Message, Has
    <3>2. Has(Append(inbox, Plain("close")), "packet") => Has(inbox, "packet")
      BY <1>1, <3>1, AppendHas
    <3> QED BY <1>4, <3>1, <3>2
            DEF Server, ServerAccepts, ServerTakesAnswer, ServerTimesOut, ServerStreams, ServerStops,
                ServerSeesClose, wireVars
  <2> QED BY <2>1, <2>2, <2>3, AskedKept
<1>5. CASE Connect \/ OnOffer
  <2>1. /\ UNCHANGED <<answer, server, hasAudio, kinds>> /\ offer = "none"
    <3>1. CASE Connect
      BY <1>1, <3>1 DEF Connect, Shape, IdleIsFresh, serverVars
    <3>2. CASE OnOffer
      BY <1>1, <3>2, TailHas DEF OnOffer, Delivers, Shape, OneOffer, serverVars
    <3> QED BY <1>5, <3>1, <3>2
  <2>2. answer = "none" /\ server # "streaming" /\ ~Has(inbox, "packet") /\ requests = <<>>
    BY <1>1, <2>1 DEF Shape, NoOfferYet
  <2>3. ~Has(inbox', "packet")
    <3>1. inbox # <<>> => ~Has(Tail(inbox), "packet")
      BY <1>1, <2>2, TailHas
    <3> QED BY <1>5, <2>2, <3>1 DEF Connect, OnOffer, Delivers
  <2>4. Preceded(requests')
    BY <1>5, <2>2 DEF Connect, OnOffer, Preceded, Plain, Message, workerVars
  <2> QED BY <1>2, <2>1, <2>2, <2>3, <2>4 DEF AskedFor
<1>6. CASE Disconnect
  <2>1. Plain("destroy").type # "decode"
    BY DEF Plain, Message
  <2> QED BY <1>2, <1>6, <2>1, AskedKept DEF Disconnect, serverVars
<1>7. CASE OnOpen \/ OnOfferNoWorker \/ OnClose \/ OnError
  <2>1. /\ UNCHANGED <<card, server, kinds, hasAudio, requests, worker>>
        /\ answer' = "accept" => answer = "accept"
        /\ (inbox # <<>> /\ inbox' = Tail(inbox)) \/ inbox' = <<>>
    <3>1. CASE OnOpen
      BY <3>1 DEF OnOpen, Delivers, pageVars, serverVars, workerVars
    <3>2. CASE OnOfferNoWorker
      BY <3>2 DEF OnOfferNoWorker, Delivers, Refuse, SendAnswer, serverVars
    <3>3. CASE OnClose \/ OnError
      BY <3>3 DEF OnClose, OnError, serverVars, workerVars
    <3> QED BY <1>7, <3>1, <3>2, <3>3
  <2>2. Has(inbox', "packet") => Has(inbox, "packet")
    BY <1>1, <2>1, TailHas, EmptyHas
  <2> QED BY <1>2, <2>1, <2>2, AskedKept
<1>8. CASE OnPacket
  <2>1. /\ inbox # <<>> /\ Head(inbox).type = "packet" /\ inbox' = Tail(inbox)
        /\ requests' = Append(requests, Message("decode", Head(inbox).frame)) /\ sock = "open"
        /\ UNCHANGED <<card, answer, server, kinds, hasAudio, worker>>
    BY <1>8 DEF OnPacket, Delivers, pageVars, serverVars
  <2>2. Has(inbox, "packet") /\ (Has(inbox', "packet") => Has(inbox, "packet"))
    BY <1>1, <2>1, TailHas
  <2>3. card = "live"
    BY <1>1, <2>1 DEF Shape, IdleIsFresh, GoneIsClosed
  <2> QED BY <1>2, <2>1, <2>2, <2>3, AskedKept
<1>9. CASE InitReady
  <2>1. /\ UNCHANGED <<card, server, inbox, kinds, hasAudio, worker>>
        /\ card = "gone" => UNCHANGED <<answer, requests>>
        /\ card # "gone" => requests' = IF hasAudio THEN Append(requests, Plain("initAudio")) ELSE requests
    BY <1>9 DEF InitReady, Accept, serverVars
  <2>2. Plain("initAudio").type = "initAudio"
    BY DEF Plain, Message
  <2>3. card # "gone" /\ hasAudio => Has(requests', "initAudio")
    <3>1. /\ Len(requests) + 1 \in DOMAIN Append(requests, Plain("initAudio"))
          /\ Append(requests, Plain("initAudio"))[Len(requests) + 1] = Plain("initAudio")
      BY <1>1
    <3> QED BY <2>1, <2>2, <3>1 DEF Has
  <2> QED BY <1>2, <1>3, <2>1, <2>2, <2>3, AskedKept
<1>10. CASE InitFailed \/ InitTimesOut
  <2>1. /\ UNCHANGED <<card, server, inbox, kinds, hasAudio, requests, worker>>
        /\ answer' = "accept" => answer = "accept"
    BY <1>10 DEF InitFailed, InitTimesOut, Refuse, SendAnswer, serverVars
  <2> QED BY <1>2, <2>1, AskedKept
<1>11. CASE OnFrame \/ OnAudioFrame \/ OnOtherReply
  <2>1. UNCHANGED <<card, answer, server, inbox, kinds, hasAudio, requests, worker>>
    BY <1>11 DEF OnFrame, OnAudioFrame, OnOtherReply, pageVars, wireVars, serverVars
  <2> QED BY <1>2, <1>3, <2>1, AskedKept
<1>12. CASE Terminate
  <2>1. /\ UNCHANGED <<card, answer, server, inbox, kinds, hasAudio>>
        /\ requests' = <<>> /\ worker' = [worker EXCEPT !.life = "terminated"] /\ bridge = "destroyed"
    BY <1>12 DEF Terminate, pageVars, wireVars, serverVars
  <2>2. card # "live" /\ worker'.audio = worker.audio
    BY <1>1, <2>1 DEF Shape, DestroyedIsGone, Worker
  <2> QED BY <1>2, <1>3, <2>1, <2>2, AskedKept
<1>13. CASE WorkerTask \/ Loading \/ WorkerBreaks
  <2>1. UNCHANGED <<card, answer, server, inbox, kinds, hasAudio>>
    BY <1>13 DEF WorkerTask, HandleInit, HandleInitAudio, HandleDecode, HandleDestroy,
            Loading, InitLoaded, LoadFails, WorkerBreaks, pageVars, wireVars, serverVars
  <2>2. CASE HandleInitAudio
    <3>1. requests # <<>> /\ requests' = Tail(requests) /\ worker'.audio # "none"
      BY <1>1, <2>2 DEF HandleInitAudio, InitAudio, Requested, Worker
    <3> QED BY <1>2, <1>3, <2>1, <3>1, AskedKept
  <2>3. CASE HandleInit \/ HandleDestroy
    <3>1. /\ requests # <<>> /\ requests' = Tail(requests) /\ worker'.audio = worker.audio
          /\ Head(requests).type # "initAudio"
      BY <1>1, <2>3 DEF HandleInit, HandleDestroy, Freed, Requested, Worker
    <3> QED BY <1>2, <1>3, <2>1, <3>1, AskedKept
  <2>4. CASE HandleDecode
    <3>1. requests # <<>> /\ requests' = Tail(requests) /\ Head(requests).type # "initAudio"
      BY <2>4 DEF HandleDecode, Requested
    <3>2. \/ UNCHANGED worker
          \/ \E u, h : \E kind \in {"video", "audio"} :
                worker' = [worker EXCEPT !.unit = u, !.held[kind] = h]
      <4> DEFINE k == Head(requests).frame.frame
      <4>1. \/ UNCHANGED worker
            \/ Decode("video", SentVideo(k), "frame")
            \/ Decode("audio", SentAudio(k), "audioFrame")
        BY <2>4 DEF HandleDecode
      <4>2. Decode("video", SentVideo(k), "frame") =>
               \E u, h : worker' = [worker EXCEPT !.unit = u, !.held["video"] = h]
        BY DecodeCases
      <4>3. Decode("audio", SentAudio(k), "audioFrame") =>
               \E u, h : worker' = [worker EXCEPT !.unit = u, !.held["audio"] = h]
        BY DecodeCases
      <4> HIDE DEF k
      <4> QED BY <4>1, <4>2, <4>3
    <3>3. worker'.audio = worker.audio
      BY <1>1, <3>2 DEF Worker
    <3> QED BY <1>2, <1>3, <2>1, <3>1, <3>3, AskedKept
  <2>5. CASE Loading \/ WorkerBreaks
    <3>1. UNCHANGED requests /\ worker'.audio = worker.audio
      BY <1>1, <2>5 DEF Loading, InitLoaded, LoadFails, WorkerBreaks, Worker
    <3> QED BY <1>2, <1>3, <2>1, <3>1, AskedKept
  <2> QED BY <1>13, <2>2, <2>3, <2>4, <2>5 DEF WorkerTask
<1>14. CASE UNCHANGED vars
  BY <1>2, <1>3, <1>14, AskedKept DEF vars, pageVars, wireVars, serverVars, workerVars
<1> QED BY <1>4, <1>5, <1>6, <1>7, <1>8, <1>9, <1>10, <1>11, <1>12, <1>13, <1>14
        DEF Next, User, Socket, WorkerReply

\* A sound never meets a worker whose audio decoder has not been asked for,
\* although request, answer and packets come from different tasks.
THEOREM AudioIsAskedForHolds == Spec => []AudioIsAskedFor
<1>1. Init => AskedFor
  BY DEF Init, AskedFor, Preceded, Has
<1>2. IInv /\ AskedFor /\ [Next]_vars => AskedFor'
  BY AskedForStep
<1>3. IInv /\ AskedFor => AudioIsAskedFor
  <2> SUFFICES ASSUME IInv, AskedFor, requests # <<>>, Head(requests).type = "decode",
                      kinds[Head(requests).frame.frame] = "audio"
               PROVE  worker.audio # "none"
    BY DEF AudioIsAskedFor
  <2>1. /\ requests \in Seq(Request) /\ Head(requests).frame \in Frame
        /\ 1 \in DOMAIN requests /\ Head(requests) = requests[1]
    BY Messages, TailOf DEF IInv, TypeOK
  <2>2. Head(requests).frame.frame \in DOMAIN kinds
    BY <2>1 DEF IInv, TypeOK, Frame, Streamed
  <2>3. hasAudio
    BY <2>2 DEF AskedFor
  <2>4. ~Preceded(requests)
    <3>1. \A j \in DOMAIN requests : ~(j < 1)
      BY <2>1
    <3> QED BY <2>1, <3>1 DEF Preceded
  <2> QED BY <2>3, <2>4 DEF AskedFor, IInv, TypeOK, Worker
<1> QED BY <1>1, <1>2, <1>3, Invariance, PTL DEF Spec

=============================================================================
