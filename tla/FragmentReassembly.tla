------------------------ MODULE FragmentReassembly -------------------------
(***************************************************************************)
(* The frame protocol, from VideoServer::SendPacket on the server to       *)
(* frame_protocol_parse in the decoder's WASM module: packets above 16 KiB *)
(* are cut into fragments, and the parser collects them in a small table   *)
(* keyed by frame id.  WebSocket over TLS neither loses nor reorders, so   *)
(* fragments go missing only where an allocation fails on the way.         *)
(*                                                                         *)
(* Abstractions.  Packets are numbered in the order they are sent, to all  *)
(* connections together.  Frame number k stands for the bytes of packet k  *)
(* and for the header fields of its first fragment: a stored fragment is   *)
(* the number of the packet it was cut from.  Magic, version and length    *)
(* checks never fail on messages of this encoder and are left out.         *)
(***************************************************************************)
EXTENDS Integers, Sequences, FiniteSets

CONSTANTS
    IdSpace,        \* frame ids: frameId_ is a uint16_t
    Slots,          \* g_max_entries
    MAX_FRAGMENTS,
    MaxPackets,     \* bound: packets the server sends, to all connections
    Sizes,          \* bound: how many chunks of 16 KiB a packet may have
    InFlight,       \* bound: no packet is sent while so many messages wait
    MayFail         \* bound: the allocations that may fail

Allocations == {"input", "tables", "chunk", "result"}

ASSUME ConstantsAssumption ==
    /\ IdSpace \in Nat \ {0} /\ Slots \in Nat \ {0}
    /\ MAX_FRAGMENTS \in Nat \ {0} /\ MaxPackets \in Nat /\ InFlight \in Nat
    /\ Sizes \subseteq Nat \ {0} /\ MayFail \subseteq Allocations

VARIABLES
    packets,    \* chunks of each packet sent so far, 0 for other connections
    wire,       \* messages of this connection not yet parsed
    slots,      \* g_fragments
    handed,     \* the frames parsed COMPLETE
    lossy,      \* packets that have lost something to a failed allocation
    parser      \* "ready", "destroyed" or "undefined"

vars == <<packets, wire, slots, handed, lossy, parser>>

Slot == 1..Slots

\* An entry: got maps each fragment index present to the packet it was cut
\* from, meta is the packet whose first fragment supplied the header fields
\* (0: none yet), born the packet whose fragment opened the entry.
Free == [active |-> FALSE, tables |-> TRUE, id |-> 0, total |-> 0,
         got |-> <<>>, meta |-> 0, born |-> 0]

Init ==
    /\ packets = <<>>
    /\ wire = <<>>
    /\ slots = [i \in Slot |-> Free]
    /\ handed = <<>>
    /\ lossy = {}
    /\ parser = "ready"

----------------------------------------------------------------------------
(* The server.                                                             *)

\* frameId_ wraps.
FrameId(k) == (k - 1) % IdSpace

\* EncodeVideoFrame, EncodeAudioFrame: packet k in n chunks.  A single chunk
\* is sent without a fragment header.
Encode(k, n) ==
    [i \in 1..n |-> [frame |-> k, fragment |-> n > 1, id |-> FrameId(k),
                     index |-> i - 1, total |-> n]]

\* SendPacket on this connection.
SendPacket ==
    /\ Len(packets) < MaxPackets /\ Len(wire) < InFlight
    /\ \E n \in Sizes :
          /\ packets' = Append(packets, n)
          /\ wire' = wire \o Encode(Len(packets) + 1, n)
    /\ UNCHANGED <<slots, handed, lossy, parser>>

\* SendPacket on another connection uses up a frame id.
SendElsewhere ==
    /\ Len(packets) < MaxPackets
    /\ packets' = Append(packets, 0)
    /\ UNCHANGED <<wire, slots, handed, lossy, parser>>

----------------------------------------------------------------------------
(* The entry table.                                                        *)

First(S) == CHOOSE i \in S : \A j \in S : i <= j

Holding(id) == {i \in Slot : slots[i].active /\ slots[i].id = id}
Unused == {i \in Slot : ~slots[i].active}

\* find_fragment_entry, else alloc_fragment_entry: the first free slot, and
\* slot 1 (index 0) when all are taken.
SlotFor(m) ==
    IF Holding(m.id) # {} THEN First(Holding(m.id))
    ELSE IF Unused # {} THEN First(Unused) ELSE 1

\* Faulty variant: the evicted entry's fragments are not cleared.
FreshOverOldChunks(m, ok) ==
    [active |-> TRUE, tables |-> ok, id |-> m.id, total |-> m.total,
     got |-> slots[SlotFor(m)].got, meta |-> 0, born |-> m.frame]

\* memset and the fields alloc_fragment_entry fills, the tables if calloc can.
Fresh(m, ok) ==
    [active |-> TRUE, tables |-> ok, id |-> m.id, total |-> m.total,
     got |-> <<>>, meta |-> 0, born |-> m.frame]

Opened(m) == IF Holding(m.id) # {} THEN slots[SlotFor(m)] ELSE Fresh(m, TRUE)

\* The first fragment supplies the header fields.
Described(m) ==
    IF m.index = 0 THEN [Opened(m) EXCEPT !.meta = m.frame] ELSE Opened(m)

\* A fragment is stored once, and only inside the entry's table.
Wanted(m) == m.index < Opened(m).total /\ m.index \notin DOMAIN Opened(m).got

Stored(m) ==
    IF ~Wanted(m) THEN Described(m)
    ELSE [Described(m) EXCEPT !.got =
            [i \in DOMAIN @ \cup {m.index} |-> IF i = m.index THEN m.frame ELSE @[i]]]

\* Faulty variant: off by one.
CompleteTooLate(e) == Cardinality(DOMAIN e.got) > e.total

Complete(e) == Cardinality(DOMAIN e.got) >= e.total

\* What entry e has at position i: nothing (0) where no fragment was stored,
\* fragment_sizes is 0 there.
ChunkAt(e, i) == IF i \in DOMAIN e.got THEN e.got[i] ELSE 0

\* reassemble_fragments: the chunks in order, with the entry's header.
Reassembled(e) == [meta |-> e.meta, parts |-> [i \in 1..e.total |-> ChunkAt(e, i - 1)]]

----------------------------------------------------------------------------
(* frame_protocol_parse on the next message, one action per outcome.       *)

Arriving == IF wire = <<>> THEN {} ELSE {Head(wire)}
Fragment(m) == parser = "ready" /\ m.fragment /\ m.total <= MAX_FRAGMENTS

\* DecoderWrapper.parseFrame cannot copy the message into the WASM heap, or
\* the parser has been destroyed: it throws and the message is gone.
MessageLost ==
    \E m \in Arriving :
        /\ \/ parser = "ready" /\ "input" \in MayFail
           \/ parser = "destroyed"
        /\ wire' = Tail(wire)
        /\ lossy' = lossy \cup {m.frame}
        /\ UNCHANGED <<packets, slots, handed, parser>>

\* FRAME_COMPLETE at once.
ParseWhole ==
    \E m \in Arriving :
        /\ parser = "ready" /\ ~m.fragment
        /\ wire' = Tail(wire)
        /\ handed' = Append(handed, [meta |-> m.frame, parts |-> <<m.frame>>])
        /\ UNCHANGED <<packets, slots, lossy, parser>>

WholeFails ==
    \E m \in Arriving :
        /\ parser = "ready" /\ ~m.fragment /\ "result" \in MayFail
        /\ wire' = Tail(wire)
        /\ lossy' = lossy \cup {m.frame}
        /\ UNCHANGED <<packets, slots, handed, parser>>

\* FRAME_ERROR: more fragments than an entry may have.
RejectOversize ==
    \E m \in Arriving :
        /\ parser = "ready" /\ m.fragment /\ m.total > MAX_FRAGMENTS
        /\ wire' = Tail(wire)
        /\ UNCHANGED <<packets, slots, handed, lossy, parser>>

\* FRAME_FRAGMENT_PENDING
StoreFragment ==
    \E m \in Arriving :
        /\ Fragment(m) /\ Opened(m).tables /\ ~Complete(Stored(m))
        /\ wire' = Tail(wire)
        /\ slots' = [slots EXCEPT ![SlotFor(m)] = Stored(m)]
        /\ UNCHANGED <<packets, handed, lossy, parser>>

\* FRAME_COMPLETE, and the entry is free again.
CompleteFrame ==
    \E m \in Arriving :
        /\ Fragment(m) /\ Opened(m).tables /\ Complete(Stored(m))
        /\ wire' = Tail(wire)
        /\ slots' = [slots EXCEPT ![SlotFor(m)] = Free]
        /\ handed' = Append(handed, Reassembled(Stored(m)))
        /\ UNCHANGED <<packets, lossy, parser>>

\* malloc fails for the fragment: the entry stays as it was opened.
ChunkFails ==
    \E m \in Arriving :
        /\ Fragment(m) /\ Opened(m).tables /\ Wanted(m) /\ "chunk" \in MayFail
        /\ wire' = Tail(wire)
        /\ slots' = [slots EXCEPT ![SlotFor(m)] = Described(m)]
        /\ lossy' = lossy \cup {m.frame}
        /\ UNCHANGED <<packets, handed, parser>>

\* malloc fails for the whole frame: the entry is freed.
ResultFails ==
    \E m \in Arriving :
        /\ Fragment(m) /\ Opened(m).tables /\ Complete(Stored(m))
        /\ "result" \in MayFail
        /\ wire' = Tail(wire)
        /\ slots' = [slots EXCEPT ![SlotFor(m)] = Free]
        /\ lossy' = lossy \cup {m.frame}
        /\ UNCHANGED <<packets, handed, parser>>

\* calloc fails for fragment_data: FRAME_ERROR, but the entry stays active.
TablesFail ==
    \E m \in Arriving :
        /\ Fragment(m) /\ Holding(m.id) = {} /\ "tables" \in MayFail
        /\ wire' = Tail(wire)
        /\ slots' = [slots EXCEPT ![SlotFor(m)] = Fresh(m, FALSE)]
        /\ lossy' = lossy \cup {m.frame}
        /\ UNCHANGED <<packets, handed, parser>>

\* The parser uses a table that was never allocated: the next fragment of
\* such a frame, or the first one if only another calloc has failed.
MissingTable ==
    \E m \in Arriving :
        /\ Fragment(m)
        /\ ~Opened(m).tables \/ (Holding(m.id) = {} /\ "tables" \in MayFail)
        /\ parser' = "undefined"
        /\ UNCHANGED <<packets, wire, slots, handed, lossy>>

\* frame_protocol_destroy, when the worker is told to destroy its decoder.
Destroy ==
    /\ parser = "ready"
    /\ parser' = "destroyed"
    /\ slots' = [i \in Slot |-> Free]
    /\ UNCHANGED <<packets, wire, handed, lossy>>

----------------------------------------------------------------------------
Parse ==
    \/ ParseWhole \/ WholeFails \/ RejectOversize \/ StoreFragment \/ CompleteFrame
    \/ ChunkFails \/ ResultFails \/ TablesFail \/ MissingTable

Next == SendPacket \/ SendElsewhere \/ MessageLost \/ Parse \/ Destroy

Spec == Init /\ [][Next]_vars

----------------------------------------------------------------------------
(* Properties.                                                             *)

Message == [frame : Nat, fragment : BOOLEAN, id : 0..(IdSpace - 1), index : Nat, total : Nat]

\* total and the indices are 16 bits wide in the header, born and meta number
\* packets.
EntryOK(e) ==
    /\ e = [active |-> e.active, tables |-> e.tables, id |-> e.id, total |-> e.total,
            got |-> e.got, meta |-> e.meta, born |-> e.born]
    /\ e.active \in BOOLEAN /\ e.tables \in BOOLEAN
    /\ e.id \in 0..(IdSpace - 1) /\ e.total \in Nat
    /\ e.meta \in Nat /\ e.born \in Nat
    /\ DOMAIN e.got \subseteq 0..(e.total - 1)
    /\ \A i \in DOMAIN e.got : e.got[i] \in Nat

\* The type invariant.  Fragments are stored inside the arrays of their
\* entry, whatever other entry with the same id came before.
TypeOK ==
    /\ packets \in Seq(Nat)
    /\ wire \in Seq(Message)
    /\ DOMAIN slots = Slot /\ \A i \in Slot : EntryOK(slots[i])
    /\ handed \in Seq([meta : Nat, parts : Seq(Nat)])
    /\ lossy \subseteq Nat
    /\ parser \in {"ready", "destroyed", "undefined"}

\* r is packet k: its header, and all of its chunks in order.
IsPacket(r, k) ==
    k \in DOMAIN packets /\ r = [meta |-> k, parts |-> [i \in 1..packets[k] |-> k]]

\* Every frame the parser calls complete is one packet of the server.
FramesIntact == \A i \in DOMAIN handed : \E k \in DOMAIN packets : IsPacket(handed[i], k)

\* ... and they are handed over in order, each once.  A frame that is no
\* packet counts as number 0, which FrameDelivery never hands over.
Delivery ==
    INSTANCE FrameDelivery WITH
        issued <- Len(packets),
        handed <- [i \in DOMAIN handed |->
                     IF IsPacket(handed[i], handed[i].meta) THEN handed[i].meta ELSE 0]
DeliverySpec == Delivery!Spec

OnWire(k) == \E i \in DOMAIN wire : wire[i].frame = k
Handed(k) == \E i \in DOMAIN handed : IsPacket(handed[i], k)
Received(k) == packets[k] > 0 /\ ~OnWire(k) /\ k \notin lossy

\* A packet all of whose messages reached the parser is handed over, even
\* when entries that will never be complete fill the table: the one that
\* makes room is never the packet's own.
ReceivedIsHanded ==
    parser = "ready" =>
        \A k \in DOMAIN packets :
            Received(k) /\ packets[k] <= MAX_FRAGMENTS => Handed(k)
============================================================================
