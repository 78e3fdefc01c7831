--------------------------- MODULE StreamClient ----------------------------
(***************************************************************************)
(* One stream of the player, from its Connect button to its decode worker: *)
(* StreamInstance and WorkerBridge on the main thread, decode-worker on    *)
(* its own, the WebSocket between the page and the server, and the         *)
(* server's side of the negotiation as MediaServer has it.                 *)
(*                                                                         *)
(* An action is one task of an event loop with the microtasks it leaves    *)
(* behind: promise continuations run before the next task.  So the packet  *)
(* queue of StreamInstance, which processQueue drains in the task that     *)
(* filled it, is empty between actions and is left out here.  Packets are  *)
(* numbered in the order the server streams them, and a number is also the *)
(* packet's timestamp; each is one message.  A frame has the number of the *)
(* first packet of its picture.  Remove and Remove All call the same       *)
(* disconnect() as the Disconnect button; a second Connect on a card fails *)
(* in createStream and changes nothing.                                    *)
(***************************************************************************)
EXTENDS Integers, Sequences

CONSTANTS
    MaxPackets     \* bound: packets the server streams

ASSUME MaxPacketsAssumption == MaxPackets \in Nat

VARIABLES
    card,       \* "idle", "live" once connected, "gone" after disconnect()
    status,     \* StreamInstance.status
    promise,    \* what connect() returned
    offer,      \* the offer handler: "none", "awaiting" init, "done"
    bridge,     \* WorkerBridge: "none", "live", "destroyed"
    sock,       \* readyState of the WebSocket
    inbox,      \* what the server sent and the page has not handled
    answer,     \* the media-answer on its way to the server
    server,     \* the server's state of this connection
    kinds,      \* the packets streamed so far: "video" or "audio"
    hasAudio,   \* the offer describes an audio stream
    requests,   \* posted to the worker, not yet handled
    replies,    \* posted by the worker, not yet handled
    worker,     \* decode-worker
    shown,      \* frames given to the frame callback
    heard       \* frames given to the audio callback

pageVars == <<card, status, promise, offer, bridge>>
wireVars == <<sock, inbox, answer>>
serverVars == <<server, kinds, hasAudio>>
outputVars == <<shown, heard>>
workerVars == <<requests, replies, worker, outputVars>>
vars == <<pageVars, wireVars, serverVars, workerVars>>

\* A picture or sound by its number, and the timestamp it has been given.
Stamped(k, pts) == [frame |-> k, pts |-> pts]
Nothing == Stamped(0, 0)

Message(t, f) == [type |-> t, frame |-> f]
Plain(t) == Message(t, Nothing)
Packet(t, k) == Message(t, Stamped(k, k))

NothingHeld == [video |-> <<>>, audio |-> <<>>]

\* life: "none", "running", "terminated", or "broken" when the script did not
\* load.  decoder: whether the variable of the module is set.  loading:
\* handleInit awaits decoder.init.  Then the flags of its DecoderWrapper, with
\* an audio decoder "refused" told from one that was not asked for.  unit: the
\* picture the parser of decoder_wasm is collecting.  held: what the codecs
\* have taken and not put out.
NoWorker == [life |-> "none", decoder |-> FALSE, loading |-> FALSE,
             module |-> FALSE, initialized |-> FALSE, protocolInitialized |-> FALSE,
             audio |-> "none", unit |-> 0, held |-> NothingHeld]

Init ==
    /\ card = "idle" /\ status = "disconnected" /\ promise = "none"
    /\ offer = "none" /\ bridge = "none"
    /\ sock = "none" /\ inbox = <<>> /\ answer = "none"
    /\ server = "none" /\ kinds = <<>> /\ hasAudio \in BOOLEAN
    /\ requests = <<>> /\ replies = <<>> /\ worker = NoWorker
    /\ shown = <<>> /\ heard = <<>>

----------------------------------------------------------------------------
(* The server and the network.                                             *)

\* The handshake is complete: the response, then SendMediaOffer.
ServerAccepts ==
    /\ server = "none" /\ sock = "connecting"
    /\ server' = "negotiating"
    /\ inbox' = <<Plain("open"), Plain("offer")>>
    /\ UNCHANGED <<pageVars, sock, answer, kinds, hasAudio, workerVars>>

\* HandleNegotiation.
ServerTakesAnswer ==
    /\ server = "negotiating" /\ answer # "none"
    /\ server' = IF answer = "accept" THEN "streaming" ELSE "closed"
    /\ inbox' = IF answer = "accept" THEN inbox ELSE Append(inbox, Plain("close"))
    /\ answer' = "none"
    /\ UNCHANGED <<pageVars, sock, kinds, hasAudio, workerVars>>

\* OnTimer: five seconds without an answer.
ServerTimesOut ==
    /\ server = "negotiating"
    /\ server' = "closed"
    /\ inbox' = Append(inbox, Plain("close"))
    /\ UNCHANGED <<pageVars, sock, answer, kinds, hasAudio, workerVars>>

\* SendPacket.
ServerStreams ==
    /\ server = "streaming" /\ Len(kinds) < MaxPackets
    /\ \E kind \in IF hasAudio THEN {"video", "audio"} ELSE {"video"} : kinds' = Append(kinds, kind)
    /\ inbox' = Append(inbox, Packet("packet", Len(kinds) + 1))
    /\ UNCHANGED <<pageVars, sock, answer, server, hasAudio, workerVars>>

\* Shutdown.
ServerStops ==
    /\ server \in {"negotiating", "streaming"}
    /\ server' = "closed"
    /\ inbox' = Append(inbox, Plain("close"))
    /\ UNCHANGED <<pageVars, sock, answer, kinds, hasAudio, workerVars>>

\* The client's end is closed.
ServerSeesClose ==
    /\ server \in {"negotiating", "streaming"} /\ sock \in {"closing", "closed"}
    /\ server' = "closed"
    /\ UNCHANGED <<pageVars, wireVars, kinds, hasAudio, workerVars>>

----------------------------------------------------------------------------
(* The buttons of the card.                                                *)

\* createStream, connect, connectWebSocket.
Connect ==
    /\ card = "idle"
    /\ card' = "live" /\ status' = "connecting" /\ promise' = "pending"
    /\ sock' = "connecting"
    /\ UNCHANGED <<offer, bridge, inbox, answer, serverVars, workerVars>>

\* disconnect.  A closing socket delivers no more messages.  WorkerBridge's
\* destroy posts the request and drops the callbacks; ws and decoder become
\* null.
Disconnect ==
    /\ card # "idle"
    /\ card' = "gone" /\ status' = "disconnected"
    /\ sock' = IF sock \in {"connecting", "open"} THEN "closing" ELSE sock
    /\ bridge' = IF bridge = "live" THEN "destroyed" ELSE bridge
    /\ requests' = IF bridge = "live" THEN Append(requests, Plain("destroy")) ELSE requests
    /\ UNCHANGED <<promise, offer, inbox, answer, serverVars, replies, worker, outputVars>>

----------------------------------------------------------------------------
(* Events of the WebSocket.                                                *)

Delivers(t) == sock \in {"connecting", "open"} /\ inbox # <<>> /\ Head(inbox).type = t

OnOpen ==
    /\ Delivers("open") /\ sock = "connecting"
    /\ sock' = "open" /\ inbox' = Tail(inbox)
    /\ UNCHANGED <<pageVars, answer, serverVars, workerVars>>

\* onmessage with the offer: a new worker is asked to initialize, and the
\* handler waits.
OnOffer ==
    /\ Delivers("offer") /\ sock = "open"
    /\ inbox' = Tail(inbox)
    /\ offer' = "awaiting" /\ bridge' = "live"
    /\ worker' = [NoWorker EXCEPT !.life = "running"]
    /\ requests' = <<Plain("init")>>
    /\ UNCHANGED <<card, status, promise, sock, answer, serverVars, replies, outputVars>>

\* Faulty variant: the newest packet is dequeued first.
OnPacketNewestFirst ==
    /\ Delivers("packet") /\ sock = "open"
    /\ inbox' = Tail(inbox)
    /\ requests' = <<Message("decode", Head(inbox).frame)>> \o requests
    /\ UNCHANGED <<pageVars, sock, answer, serverVars, replies, worker, outputVars>>

\* handleWebSocketMessage, processQueue, WorkerBridge.decode.  Packets follow
\* the answer, so the decoder is there and its init promise is resolved.
OnPacket ==
    /\ Delivers("packet") /\ sock = "open"
    /\ inbox' = Tail(inbox)
    /\ requests' = Append(requests, Message("decode", Head(inbox).frame))
    /\ UNCHANGED <<pageVars, sock, answer, serverVars, replies, worker, outputVars>>

\* onclose, after the server's close or our own.  connect() is not settled.
OnClose ==
    /\ Delivers("close") \/ sock = "closing"
    /\ sock' = "closed" /\ inbox' = <<>> /\ answer' = "none"
    /\ status' = "disconnected"
    /\ UNCHANGED <<card, promise, offer, bridge, serverVars, workerVars>>

\* onerror and onclose, in one task: the server cannot be reached or the
\* connection breaks.  connect() is rejected, and the status it sets ("error")
\* is overwritten at once.
OnError ==
    /\ sock \in {"connecting", "open", "closing"}
    /\ sock' = "closed" /\ inbox' = <<>> /\ answer' = "none"
    /\ promise' = IF promise = "pending" THEN "rejected" ELSE promise
    /\ status' = "disconnected"
    /\ UNCHANGED <<card, offer, bridge, serverVars, workerVars>>

----------------------------------------------------------------------------
(* The continuation of the offer handler.                                  *)

SendAnswer(a) == answer' = IF sock = "open" THEN a ELSE answer

\* Faulty variant: the continuation does not notice that the stream is gone.
AcceptAnyway ==
    /\ requests' = requests
    /\ SendAnswer("accept")
    /\ status' = "connected"
    /\ promise' = "resolved"

\* Faulty variant: the codec of the offer is not found among the page's names.
AcceptWithoutAudio ==
    /\ UNCHANGED requests
    /\ IF card = "gone"
       THEN UNCHANGED <<status, promise, answer>>
       ELSE /\ SendAnswer("accept")
            /\ status' = "connected"
            /\ promise' = IF promise = "pending" THEN "resolved" ELSE promise

\* WorkerBridge.init resolved: initAudio, the answer, and connect() resolves.
\* After disconnect() the code uses ws, which is null: it throws, and throws
\* again in its catch block, so that connect() is never settled.
Accept ==
    IF card = "gone"
    THEN UNCHANGED <<status, promise, answer, requests>>
    ELSE /\ requests' = IF hasAudio THEN Append(requests, Plain("initAudio")) ELSE requests
         /\ SendAnswer("accept")
         /\ status' = "connected"
         /\ promise' = IF promise = "pending" THEN "resolved" ELSE promise

\* WorkerBridge.init rejected.  connect() sets the status when it is rejected
\* by this.
Refuse ==
    /\ UNCHANGED requests
    /\ IF card = "gone"
       THEN UNCHANGED <<status, promise, answer>>
       ELSE /\ SendAnswer("reject")
            /\ status' = IF promise = "pending" THEN "error" ELSE status
            /\ promise' = IF promise = "pending" THEN "rejected" ELSE promise

\* Faulty variant: nothing bounds the wait.
InitNeverTimesOut == FALSE /\ UNCHANGED vars

\* Ten seconds without a reply.
InitTimesOut ==
    /\ offer = "awaiting"
    /\ offer' = "done"
    /\ Refuse
    /\ UNCHANGED <<card, bridge, sock, inbox, serverVars, replies, worker, outputVars>>

\* The offer again, when the worker cannot even be created.
OnOfferNoWorker ==
    /\ Delivers("offer") /\ sock = "open"
    /\ inbox' = Tail(inbox)
    /\ offer' = "done"
    /\ Refuse
    /\ UNCHANGED <<card, bridge, sock, serverVars, replies, worker, outputVars>>

Replied(t) == replies # <<>> /\ Head(replies).type = t

\* messageHandler in WorkerBridge.init: the first "ready" or "error".
InitReady ==
    /\ Replied("ready") /\ offer = "awaiting"
    /\ offer' = "done" /\ replies' = Tail(replies)
    /\ Accept
    /\ UNCHANGED <<card, bridge, sock, inbox, serverVars, worker, outputVars>>

InitFailed ==
    /\ Replied("error") /\ offer = "awaiting"
    /\ offer' = "done" /\ replies' = Tail(replies)
    /\ Refuse
    /\ UNCHANGED <<card, bridge, sock, inbox, serverVars, worker, outputVars>>

\* Faulty variant: destroy() leaves the callbacks in place.
OnFrameAlways ==
    /\ Replied("frame")
    /\ replies' = Tail(replies)
    /\ shown' = Append(shown, Head(replies).frame)
    /\ UNCHANGED <<pageVars, wireVars, serverVars, requests, worker, heard>>

\* Faulty variant: every reply that is not for init is taken for a frame.
OnReplyAsFrame ==
    /\ replies # <<>> /\ offer # "awaiting"
    /\ replies' = Tail(replies)
    /\ shown' = IF bridge = "live" THEN Append(shown, Head(replies).frame) ELSE shown
    /\ UNCHANGED <<pageVars, wireVars, serverVars, requests, worker, heard>>

\* handleWorkerMessage with a frame, for the callback if there is one.
OnFrame ==
    /\ Replied("frame")
    /\ replies' = Tail(replies)
    /\ shown' = IF bridge = "live" THEN Append(shown, Head(replies).frame) ELSE shown
    /\ UNCHANGED <<pageVars, wireVars, serverVars, requests, worker, heard>>

OnAudioFrame ==
    /\ Replied("audioFrame")
    /\ replies' = Tail(replies)
    /\ heard' = IF bridge = "live" THEN Append(heard, Head(replies).frame) ELSE heard
    /\ UNCHANGED <<pageVars, wireVars, serverVars, requests, worker, shown>>

\* ... and with what is only logged.
OnOtherReply ==
    /\ \/ Replied("destroyed")
       \/ offer # "awaiting" /\ (Replied("ready") \/ Replied("error"))
    /\ replies' = Tail(replies)
    /\ UNCHANGED <<pageVars, wireVars, serverVars, requests, worker, outputVars>>

\* Faulty variant: the worker is terminated once it has confirmed.
TerminateConfirmed ==
    /\ bridge = "destroyed" /\ worker.life # "terminated" /\ Replied("destroyed")
    /\ worker' = [worker EXCEPT !.life = "terminated"]
    /\ requests' = <<>>
    /\ UNCHANGED <<pageVars, wireVars, serverVars, replies, outputVars>>

\* The timer of WorkerBridge.destroy.
Terminate ==
    /\ bridge = "destroyed" /\ worker.life # "terminated"
    /\ worker' = [worker EXCEPT !.life = "terminated"]
    /\ requests' = <<>>
    /\ UNCHANGED <<pageVars, wireVars, serverVars, replies, outputVars>>

----------------------------------------------------------------------------
(* decode-worker.                                                          *)

Requested(t) == worker.life = "running" /\ requests # <<>> /\ Head(requests).type = t

Reply(response) == replies' = Append(replies, response)

\* The script cannot be loaded: handleWorkerError only logs.
WorkerBreaks ==
    /\ Requested("init")
    /\ worker' = [worker EXCEPT !.life = "broken"]
    /\ UNCHANGED <<pageVars, wireVars, serverVars, requests, replies, outputVars>>

\* handleInit up to its await.
HandleInit ==
    /\ Requested("init")
    /\ requests' = Tail(requests)
    /\ worker' = [worker EXCEPT !.decoder = TRUE, !.loading = TRUE]
    /\ UNCHANGED <<pageVars, wireVars, serverVars, replies, outputVars>>

\* Faulty variant: the result of initProtocol is not looked at.
InitLoadedUnchecked ==
    /\ worker.life = "running" /\ worker.loading
    /\ \E protocol \in BOOLEAN :
          worker' = [worker EXCEPT !.loading = FALSE, !.module = TRUE, !.initialized = TRUE,
                                   !.protocolInitialized = protocol]
    /\ Reply(Plain("ready"))
    /\ UNCHANGED <<pageVars, wireVars, serverVars, requests, outputVars>>

\* ... and after it.  handleDestroy may have set decoder to null meanwhile:
\* then initProtocol cannot be called, and otherwise it may fail.
InitLoaded ==
    /\ worker.life = "running" /\ worker.loading
    /\ \E protocol \in IF worker.decoder THEN BOOLEAN ELSE {FALSE} :
          /\ worker' = [worker EXCEPT !.loading = FALSE, !.module = TRUE, !.initialized = TRUE,
                                      !.protocolInitialized = protocol]
          /\ Reply(Plain(IF protocol THEN "ready" ELSE "error"))
    /\ UNCHANGED <<pageVars, wireVars, serverVars, requests, outputVars>>

\* The module cannot be loaded, or its decoder_init_video fails.
LoadFails ==
    /\ worker.life = "running" /\ worker.loading
    /\ \E module \in BOOLEAN :
          worker' = [worker EXCEPT !.loading = FALSE, !.module = module]
    /\ Reply(Plain("error"))
    /\ UNCHANGED <<pageVars, wireVars, serverVars, requests, outputVars>>

\* decoder_init_audio opens a codec or fails.
InitAudio ==
    \/ /\ worker.decoder /\ worker.module
       /\ worker' = [worker EXCEPT !.audio = "ready"]
       /\ Reply(Plain("ready"))
    \/ /\ worker' = [worker EXCEPT !.audio = "refused"]
       /\ Reply(Plain("error"))

HandleInitAudio ==
    /\ Requested("initAudio")
    /\ requests' = Tail(requests)
    /\ InitAudio
    /\ UNCHANGED <<pageVars, wireVars, serverVars, outputVars>>

\* decoder_send_video_packet.  The parser has a picture whole when the next
\* one begins, which gives it its timestamp; a packet may also go on with the
\* picture.  If the codec does not take the picture the function returns,
\* with an error or not, before it has read the packet to its end.
Parsed(k) ==
    LET whole == IF worker.unit = 0 THEN <<>> ELSE <<Stamped(worker.unit, k)>>
    IN  {[unit |-> k, whole |-> whole]} \cup
        {[unit |-> unit, whole |-> <<>>] : unit \in {worker.unit} \ {0}}

SentVideo(k) ==
    {[unit |-> p.unit, held |-> worker.held.video \o p.whole, ok |-> TRUE] : p \in Parsed(k)} \cup
    {[unit |-> 0, held |-> worker.held.video, ok |-> ok] :
        ok \in IF worker.unit = 0 THEN {} ELSE BOOLEAN}

\* decoder_send_audio_packet.
SentAudio(k) ==
    {[unit |-> worker.unit, held |-> Append(worker.held.audio, Stamped(k, k)), ok |-> TRUE]} \cup
    {[unit |-> worker.unit, held |-> worker.held.audio, ok |-> ok] : ok \in BOOLEAN}

\* One receive: nothing yet, an error, or a frame.  A codec puts frames out in
\* the order it takes them, and may give some up.
ReceivedVideo(held) ==
    {[held |-> held, out |-> <<>>, ok |-> ok] : ok \in BOOLEAN} \cup
    {[held |-> SubSeq(held, i + 1, Len(held)), out |-> <<held[i]>>, ok |-> TRUE] : i \in DOMAIN held}

\* A sound is lost if it cannot be converted.
ReceivedAudio(held) ==
    ReceivedVideo(held) \cup
    {[held |-> SubSeq(held, i + 1, Len(held)), out |-> <<>>, ok |-> FALSE] : i \in DOMAIN held}

\* DecoderWrapper.decode and decodeAudio: an exception when an allocation, the
\* send or the receive fails, and otherwise a frame or null.
Decode(kind, sent, response) ==
    \E s \in sent :
        LET received == IF kind = "video" THEN ReceivedVideo(s.held) ELSE ReceivedAudio(s.held)
            Keeps(held) == worker' = [worker EXCEPT !.unit = s.unit, !.held[kind] = held]
        IN  \/ Keeps(s.held) /\ Reply(Plain("error"))
            \/ /\ s.ok
               /\ \E r \in received :
                     /\ Keeps(r.held)
                     /\ \/ ~r.ok /\ Reply(Plain("error"))
                        \/ r.ok /\ r.out = <<>> /\ UNCHANGED replies
                        \/ r.out # <<>> /\ Reply(Message(response, r.out[1]))

\* Faulty variant: the timestamp is left to the default of DecoderWrapper.decode.
HandleDecodeNoPts ==
    /\ Requested("decode")
    /\ requests' = Tail(requests)
    /\ worker.initialized /\ kinds[Head(requests).frame.frame] = "video"
    /\ \E s \in SentVideo(Head(requests).frame.frame) :
          /\ worker' = [worker EXCEPT !.unit = s.unit]
          /\ IF s.held = <<>> THEN UNCHANGED replies
             ELSE Reply(Message("frame", Stamped(s.held[1].frame, 0)))
    /\ UNCHANGED <<pageVars, wireVars, serverVars, outputVars>>

\* handleDecode: an error before anything is decoded, a message that completes
\* no frame, or a packet for one of the codecs.
HandleDecode ==
    /\ Requested("decode")
    /\ requests' = Tail(requests)
    /\ LET k == Head(requests).frame.frame
           ready == worker.decoder /\ worker.protocolInitialized
       IN  \/ UNCHANGED worker /\ Reply(Plain("error"))
           \/ ready /\ UNCHANGED <<worker, replies>>
           \/ /\ ready /\ worker.initialized /\ kinds[k] = "video"
              /\ Decode("video", SentVideo(k), "frame")
           \/ /\ ready /\ worker.audio = "ready" /\ kinds[k] = "audio"
              /\ Decode("audio", SentAudio(k), "audioFrame")
    /\ UNCHANGED <<pageVars, wireVars, serverVars, outputVars>>

\* DecoderWrapper.destroy does nothing before init has succeeded.
Freed ==
    IF worker.decoder /\ worker.initialized
    THEN [worker EXCEPT !.decoder = FALSE, !.module = FALSE, !.initialized = FALSE,
                        !.protocolInitialized = FALSE, !.unit = 0, !.held = NothingHeld]
    ELSE [worker EXCEPT !.decoder = FALSE]

HandleDestroy ==
    /\ Requested("destroy")
    /\ requests' = Tail(requests)
    /\ worker' = Freed
    /\ Reply(Plain("destroyed"))
    /\ UNCHANGED <<pageVars, wireVars, serverVars, outputVars>>

----------------------------------------------------------------------------
Server ==
    ServerAccepts \/ ServerTakesAnswer \/ ServerTimesOut \/ ServerStreams
    \/ ServerStops \/ ServerSeesClose
User == Connect \/ Disconnect
Socket == OnOpen \/ OnOffer \/ OnOfferNoWorker \/ OnPacket \/ OnClose
WorkerReply == InitReady \/ InitFailed \/ OnFrame \/ OnAudioFrame \/ OnOtherReply
WorkerTask == HandleInit \/ HandleInitAudio \/ HandleDecode \/ HandleDestroy
Loading == InitLoaded \/ LoadFails

Next ==
    Server \/ User \/ Socket \/ OnError \/ WorkerReply \/ InitTimesOut \/ Terminate
    \/ WorkerTask \/ Loading \/ WorkerBreaks

Spec == Init /\ [][Next]_vars

\* The page handles its events and its timers expire.  Nothing is assumed of
\* the server, the network, the user, or the worker.
Fairness == WF_vars(Socket) /\ WF_vars(WorkerReply) /\ WF_vars(InitTimesOut) /\ WF_vars(Terminate)

FairSpec == Spec /\ Fairness

----------------------------------------------------------------------------
(* Properties.                                                             *)

Streamed == 1..Len(kinds)
Frame == [frame : Streamed, pts : Streamed]
PlainOf(types) == [type : types, frame : {Nothing}]
ToServer == PlainOf({"open", "offer", "close"}) \cup [type : {"packet"}, frame : Frame]
Request == PlainOf({"init", "initAudio", "destroy"}) \cup [type : {"decode"}, frame : Frame]
Response == PlainOf({"ready", "error", "destroyed"}) \cup [type : {"frame", "audioFrame"}, frame : Frame]
Worker == [life : {"none", "running", "broken", "terminated"},
           decoder : BOOLEAN, loading : BOOLEAN, module : BOOLEAN,
           initialized : BOOLEAN, protocolInitialized : BOOLEAN,
           audio : {"none", "ready", "refused"}, unit : Streamed \cup {0},
           held : [video : Seq(Frame), audio : Seq(Frame)]]

\* The type invariant.  Packets and frames, wherever they are, belong to what
\* has been streamed.
TypeOK ==
    /\ card \in {"idle", "live", "gone"}
    /\ status \in {"disconnected", "connecting", "connected", "error"}
    /\ promise \in {"none", "pending", "resolved", "rejected"}
    /\ offer \in {"none", "awaiting", "done"}
    /\ bridge \in {"none", "live", "destroyed"}
    /\ sock \in {"none", "connecting", "open", "closing", "closed"}
    /\ inbox \in Seq(ToServer)
    /\ answer \in {"none", "accept", "reject"}
    /\ server \in {"none", "negotiating", "streaming", "closed"}
    /\ kinds \in Seq({"video", "audio"}) /\ Len(kinds) <= MaxPackets
    /\ hasAudio \in BOOLEAN
    /\ requests \in Seq(Request) /\ replies \in Seq(Response)
    /\ worker \in Worker
    /\ shown \in Seq(Frame) /\ heard \in Seq(Frame)

\* The server is asked to stream, and streams, only when a decoder that will
\* take the packets is there, although the reply of the worker, its timeout,
\* the answer and disconnect() may come in any order.
AcceptedIsReady ==
    card = "live" /\ (answer = "accept" \/ server = "streaming")
        => /\ worker.life = "running" /\ worker.decoder
           /\ worker.initialized /\ worker.protocolInitialized

\* After disconnect() the card stays disconnected, whatever the socket, the
\* worker and the interrupted offer handler still do.
GoneIsDisconnected == card = "gone" => status = "disconnected"

\* ... and no frame reaches the page.
NothingAfterDisconnect == [][card = "gone" => UNCHANGED outputVars]_vars

Numbers(output) == [i \in DOMAIN output |-> output[i].frame]

\* Pictures and sounds are those of the server's packets, each at most once and
\* in order, through the socket, both directions of the worker's queue, the
\* parser and the codecs, whatever fails on the way.
Video == INSTANCE FrameDelivery WITH issued <- Len(kinds), handed <- Numbers(shown)
Audio == INSTANCE FrameDelivery WITH issued <- Len(kinds), handed <- Numbers(heard)
DeliverySpec == Video!Spec /\ Audio!Spec

\* docs/websocket_frame_protocol.md: the timestamp serves to synchronize audio
\* and video.  A picture's is the one of a later packet, as the parser is
\* behind by one, but no two pictures share one, and they never go back.
StampsFollow ==
    \A i \in DOMAIN shown :
        /\ shown[i].pts > shown[i].frame
        /\ i > 1 => shown[i].pts > shown[i - 1].pts

\* Audio is decoded only after the worker has been asked for its decoder: the
\* request, the answer and the first packet are sent by different tasks.
AudioIsAskedFor ==
    worker.life = "running" /\ requests # <<>> /\ Head(requests).type = "decode"
        /\ kinds[Head(requests).frame.frame] = "audio"
            => worker.audio # "none"

\* An offer is answered, even when the worker never replies, unless the
\* connection or the stream ends first.
OfferIsAnswered ==
    offer = "awaiting" /\ sock = "open" /\ server = "negotiating"
        ~> answer # "none" \/ sock # "open" \/ server # "negotiating"

\* The worker of a stream that was disconnected does not live on.
WorkerIsFreed == card = "gone" ~> worker.life \in {"none", "terminated"}

\* docs/multi-stream-implementation.md: the card shows whether the stream is
\* connected.
StatusShowsConnection == status = "connected" => sock # "closed"
=============================================================================
