--------------------- MODULE FragmentReassembly_proofs ---------------------
(***************************************************************************)
(* Proofs about FragmentReassembly.  The argument for FramesIntact: as     *)
(* long as no frame id is used twice (UniqueIds), a message finds the      *)
(* entry of its own packet or none, so all an entry ever holds was cut     *)
(* from one packet (EntriesPure), and it is complete only when its indices *)
(* are 0 .. total - 1.                                                     *)
(***************************************************************************)
EXTENDS FragmentReassembly, FiniteSetTheorems, WellFoundedInduction, TLAPS

UniqueIds == MaxPackets <= IdSpace

WirePure ==
    \A i \in DOMAIN wire :
        /\ wire[i].frame \in DOMAIN packets
        /\ wire[i].total = packets[wire[i].frame]
        /\ wire[i].fragment = (wire[i].total > 1)
        /\ wire[i].id = FrameId(wire[i].frame)
        /\ wire[i].index \in 0..(wire[i].total - 1)

\* What entry e holds was cut from the packet that opened it.
Pure(e) ==
    /\ e.born \in DOMAIN packets
    /\ e.total = packets[e.born] /\ e.total > 1
    /\ e.id = FrameId(e.born)
    /\ 0 \in DOMAIN e.got => e.meta = e.born
    /\ \A j \in DOMAIN e.got : e.got[j] = e.born

EntriesPure == \A i \in Slot : slots[i].active => Pure(slots[i])

IInv ==
    /\ TypeOK
    /\ Len(packets) <= MaxPackets
    /\ WirePure
    /\ EntriesPure
    /\ FramesIntact

----------------------------------------------------------------------------
(* Lemmas about the operators.                                             *)

\* Different packets have different frame ids while ids do not wrap.
LEMMA FrameIdInjective ==
    ASSUME UniqueIds, NEW j \in 1..MaxPackets, NEW k \in 1..MaxPackets,
           FrameId(j) = FrameId(k)
    PROVE  j = k
<1>1. ASSUME NEW n \in 1..MaxPackets PROVE FrameId(n) = n - 1
  <2>1. n - 1 \in 0..(IdSpace - 1)
    BY ConstantsAssumption DEF UniqueIds
  <2>2. \A a \in Nat, d \in Nat \ {0} : a \in 0..(d - 1) => a % d = a
    BY SMT
  <2> QED BY <2>1, <2>2, ConstantsAssumption DEF FrameId
<1> QED BY <1>1

\* A complete entry has every index of its frame.
LEMMA CompleteHasAll ==
    ASSUME NEW e, e.total \in Nat, DOMAIN e.got \subseteq 0..(e.total - 1), Complete(e)
    PROVE  DOMAIN e.got = 0..(e.total - 1)
<1>1. e.total - 1 \in Int /\ 0 \in Int
  OBVIOUS
<1>2. /\ IsFiniteSet(0..(e.total - 1))
      /\ Cardinality(0..(e.total - 1)) =
           IF 0 > e.total - 1 THEN 0 ELSE (e.total - 1) - 0 + 1
  BY <1>1, FS_Interval
<1>3. Cardinality(0..(e.total - 1)) = e.total
  BY <1>2
<1>4. DOMAIN e.got \in SUBSET (0..(e.total - 1))
  OBVIOUS
<1>5. /\ IsFiniteSet(DOMAIN e.got)
      /\ Cardinality(DOMAIN e.got) <= Cardinality(0..(e.total - 1))
      /\ Cardinality(0..(e.total - 1)) = Cardinality(DOMAIN e.got)
           => 0..(e.total - 1) = DOMAIN e.got
  BY <1>2, <1>4, FS_Subset
<1>6. Cardinality(DOMAIN e.got) \in Nat
  BY <1>5, FS_CardinalityType
<1> QED BY <1>3, <1>5, <1>6 DEF Complete

\* A set of slots has a first one.
LEMMA FirstInSet == ASSUME NEW S \in SUBSET Slot, S # {} PROVE First(S) \in S
<1> DEFINE less == {p \in Nat \X Nat : p[1] < p[2]}
<1>1. IsWellFoundedOn(less, Nat)
  BY NatLessThanWellFounded DEF OpToRel
<1>2. S \subseteq Nat
  BY ConstantsAssumption DEF Slot
<1>3. PICK i \in S : \A j \in S : ~ (<<j, i>> \in less)
  BY <1>1, <1>2, WFMin
<1>4. ASSUME NEW j \in S PROVE i <= j
  <2>1. i \in Nat /\ j \in Nat
    BY <1>2
  <2>2. <<j, i>> \in less <=> j < i
    BY <2>1
  <2> QED BY <1>3, <2>1, <2>2
<1> QED BY <1>4 DEF First

\* The slot of a message is a slot of the table.
LEMMA SlotForType == ASSUME NEW m PROVE SlotFor(m) \in Slot
<1>1. Holding(m.id) \subseteq Slot /\ Unused \subseteq Slot /\ 1 \in Slot
  BY ConstantsAssumption DEF Holding, Unused, Slot
<1> QED BY <1>1, FirstInSet DEF SlotFor

\* The entry a message is stored in, opened for it or not.
LEMMA OpenedType ==
    ASSUME TypeOK, NEW m, m \in Message
    PROVE  EntryOK(Opened(m)) /\ Opened(m).active
<1>1. CASE Holding(m.id) # {}
  <2>1. SlotFor(m) \in Holding(m.id)
    BY <1>1, FirstInSet DEF SlotFor, Holding, Slot
  <2> QED BY <1>1, <2>1 DEF Opened, Holding, TypeOK
<1>2. CASE Holding(m.id) = {}
  BY <1>2, ConstantsAssumption DEF Opened, Fresh, EntryOK, Message
<1> QED BY <1>1, <1>2

LEMMA DescribedType ==
    ASSUME TypeOK, NEW m, m \in Message
    PROVE  EntryOK(Described(m)) /\ Described(m).active
BY OpenedType DEF Described, EntryOK, Message

LEMMA StoredType ==
    ASSUME TypeOK, NEW m, m \in Message
    PROVE  EntryOK(Stored(m)) /\ Stored(m).active
<1>1. EntryOK(Described(m)) /\ Described(m).active
  BY DescribedType
<1>2. CASE ~Wanted(m)
  BY <1>1, <1>2 DEF Stored
<1>3. CASE Wanted(m)
  <2> DEFINE old == Described(m).got
             new == [i \in DOMAIN old \cup {m.index} |->
                        IF i = m.index THEN m.frame ELSE old[i]]
  <2>1. Stored(m) = [Described(m) EXCEPT !.got = new]
    BY <1>3 DEF Stored
  <2>2. Described(m).total = Opened(m).total /\ Described(m).total \in Nat
    BY <1>1, OpenedType DEF Described, EntryOK
  <2>3. DOMAIN new \subseteq 0..(Described(m).total - 1)
    BY <1>1, <1>3, <2>2 DEF Wanted, EntryOK, Message
  <2>4. \A i \in DOMAIN new : new[i] \in Nat
    BY <1>1 DEF EntryOK, Message
  <2> QED BY <1>1, <2>1, <2>3, <2>4 DEF EntryOK
<1> QED BY <1>2, <1>3

----------------------------------------------------------------------------
(* Type correctness.                                                       *)

LEMMA ArrivingType ==
    ASSUME TypeOK, NEW m \in Arriving
    PROVE  /\ wire # <<>> /\ m = Head(wire) /\ m \in Message
           /\ Tail(wire) \in Seq(Message)
BY DEF Arriving, TypeOK

LEMMA SlotUpdateType ==
    ASSUME TypeOK, NEW m, NEW e, EntryOK(e), slots' = [slots EXCEPT ![SlotFor(m)] = e]
    PROVE  DOMAIN slots' = Slot /\ \A i \in Slot : EntryOK(slots'[i])
BY SlotForType DEF TypeOK

LEMMA FreeType == EntryOK(Free)
BY ConstantsAssumption DEF Free, EntryOK

LEMMA InitType == Init => TypeOK
BY FreeType DEF Init, TypeOK

\* A frame is cut into well-formed messages.
LEMMA EncodeType ==
    ASSUME NEW k \in Nat \ {0}, NEW n \in Nat
    PROVE  Encode(k, n) \in Seq(Message)
<1>1. (k - 1) % IdSpace \in 0..(IdSpace - 1)
  BY ConstantsAssumption
<1>2. \A i \in 1..n : [frame |-> k, fragment |-> n > 1, id |-> FrameId(k),
                       index |-> i - 1, total |-> n] \in Message
  BY <1>1 DEF FrameId, Message
<1> QED BY <1>2 DEF Encode

LEMMA StepType == TypeOK /\ [Next]_vars => TypeOK'
<1> SUFFICES ASSUME TypeOK, [Next]_vars PROVE TypeOK'
  OBVIOUS
<1>1. CASE SendPacket
  <2>1. PICK n \in Sizes : /\ packets' = Append(packets, n)
                           /\ wire' = wire \o Encode(Len(packets) + 1, n)
    BY <1>1 DEF SendPacket
  <2>2. n \in Nat /\ Len(packets) + 1 \in Nat \ {0}
    BY ConstantsAssumption DEF TypeOK
  <2>3. Encode(Len(packets) + 1, n) \in Seq(Message)
    BY <2>2, EncodeType
  <2>4. packets' \in Seq(Nat)
    BY <2>1, <2>2 DEF TypeOK
  <2>5. wire' \in Seq(Message)
    BY <2>1, <2>3 DEF TypeOK
  <2> QED BY <1>1, <2>4, <2>5 DEF SendPacket, TypeOK
<1>2. CASE SendElsewhere
  BY <1>2 DEF SendElsewhere, TypeOK
<1>3. CASE MessageLost
  BY <1>3, ArrivingType DEF MessageLost, TypeOK, Message
<1>4. CASE ParseWhole
  BY <1>4, ArrivingType DEF ParseWhole, TypeOK, Message
<1>5. CASE WholeFails
  BY <1>5, ArrivingType DEF WholeFails, TypeOK, Message
<1>6. CASE RejectOversize
  BY <1>6, ArrivingType DEF RejectOversize, TypeOK
<1>7. CASE StoreFragment
  <2>1. PICK m \in Arriving : /\ wire' = Tail(wire)
                              /\ slots' = [slots EXCEPT ![SlotFor(m)] = Stored(m)]
    BY <1>7 DEF StoreFragment
  <2>2. DOMAIN slots' = Slot /\ \A i \in Slot : EntryOK(slots'[i])
    BY <2>1, ArrivingType, StoredType, SlotUpdateType
  <2> QED BY <1>7, <2>1, <2>2, ArrivingType DEF StoreFragment, TypeOK
<1>8. CASE CompleteFrame
  <2>1. PICK m \in Arriving : /\ wire' = Tail(wire)
                              /\ slots' = [slots EXCEPT ![SlotFor(m)] = Free]
                              /\ handed' = Append(handed, Reassembled(Stored(m)))
    BY <1>8 DEF CompleteFrame
  <2>2. DOMAIN slots' = Slot /\ \A i \in Slot : EntryOK(slots'[i])
    BY <2>1, FreeType, SlotUpdateType
  <2> DEFINE e == Stored(m)
  <2>3. EntryOK(e)
    BY ArrivingType, StoredType
  <2> HIDE DEF e
  <2>4. Reassembled(e) \in [meta : Nat, parts : Seq(Nat)]
    <3>1. \A i \in 1..e.total : ChunkAt(e, i - 1) \in Nat
      BY <2>3 DEF EntryOK, ChunkAt
    <3> QED BY <2>3, <3>1 DEF Reassembled, EntryOK
  <2>5. handed' \in Seq([meta : Nat, parts : Seq(Nat)])
    BY <2>1, <2>4 DEF TypeOK, e
  <2> QED BY <1>8, <2>1, <2>2, <2>5, ArrivingType DEF CompleteFrame, TypeOK
<1>9. CASE ChunkFails
  <2>1. PICK m \in Arriving : /\ wire' = Tail(wire)
                              /\ slots' = [slots EXCEPT ![SlotFor(m)] = Described(m)]
                              /\ lossy' = lossy \cup {m.frame}
    BY <1>9 DEF ChunkFails
  <2>2. DOMAIN slots' = Slot /\ \A i \in Slot : EntryOK(slots'[i])
    BY <2>1, ArrivingType, DescribedType, SlotUpdateType
  <2> QED BY <1>9, <2>1, <2>2, ArrivingType DEF ChunkFails, TypeOK, Message
<1>10. CASE ResultFails
  <2>1. PICK m \in Arriving : /\ wire' = Tail(wire)
                              /\ slots' = [slots EXCEPT ![SlotFor(m)] = Free]
                              /\ lossy' = lossy \cup {m.frame}
    BY <1>10 DEF ResultFails
  <2>2. DOMAIN slots' = Slot /\ \A i \in Slot : EntryOK(slots'[i])
    BY <2>1, FreeType, SlotUpdateType
  <2> QED BY <1>10, <2>1, <2>2, ArrivingType DEF ResultFails, TypeOK, Message
<1>11. CASE TablesFail
  <2>1. PICK m \in Arriving :
          /\ wire' = Tail(wire)
          /\ slots' = [slots EXCEPT ![SlotFor(m)] = Fresh(m, FALSE)]
          /\ lossy' = lossy \cup {m.frame}
    BY <1>11 DEF TablesFail
  <2>2. EntryOK(Fresh(m, FALSE))
    BY ArrivingType DEF Fresh, EntryOK, Message
  <2>3. DOMAIN slots' = Slot /\ \A i \in Slot : EntryOK(slots'[i])
    BY <2>1, <2>2, SlotUpdateType
  <2> QED BY <1>11, <2>1, <2>3, ArrivingType DEF TablesFail, TypeOK, Message
<1>12. CASE MissingTable
  BY <1>12 DEF MissingTable, TypeOK
<1>13. CASE Destroy
  BY <1>13, FreeType DEF Destroy, TypeOK
<1>14. CASE UNCHANGED vars
  BY <1>14 DEF vars, TypeOK
<1> QED BY <1>1, <1>2, <1>3, <1>4, <1>5, <1>6, <1>7, <1>8, <1>9, <1>10, <1>11,
           <1>12, <1>13, <1>14 DEF Next, Parse

\* Every variable of the parser and of the wire keeps its type: fragments
\* are stored inside the arrays of the entry, for any sizes and any table.
THEOREM TypeCorrect == Spec => []TypeOK
BY InitType, StepType, PTL DEF Spec

----------------------------------------------------------------------------
(* Entries hold one packet each.                                           *)

LEMMA PacketNumbers ==
    ASSUME IInv
    PROVE  /\ Len(packets) \in Nat /\ DOMAIN packets = 1..Len(packets)
           /\ DOMAIN packets \subseteq 1..MaxPackets
<1>1. Len(packets) \in Nat /\ DOMAIN packets = 1..Len(packets)
  BY DEF IInv, TypeOK
<1> QED BY <1>1, ConstantsAssumption DEF IInv

\* The message the parser is about to see.
LEMMA ArrivingPure ==
    ASSUME IInv, NEW m \in Arriving
    PROVE  /\ m.frame \in DOMAIN packets /\ m.frame \in 1..MaxPackets
           /\ m.total = packets[m.frame] /\ m.fragment = (m.total > 1)
           /\ m.id = FrameId(m.frame) /\ m.index \in 0..(m.total - 1)
<1>1. wire # <<>> /\ m = wire[1] /\ 1 \in DOMAIN wire
  BY DEF Arriving, IInv, TypeOK
<1>2. \A k \in DOMAIN packets : k \in 1..MaxPackets
  BY PacketNumbers
<1> QED BY <1>1, <1>2 DEF IInv, WirePure

\* What is left on the wire.
LEMMA TailPure ==
    ASSUME IInv, wire # <<>>, wire' = Tail(wire), packets' = packets
    PROVE  WirePure'
<1>1. \A i \in DOMAIN wire' : i + 1 \in DOMAIN wire /\ wire'[i] = wire[i + 1]
  BY DEF IInv, TypeOK
<1> QED BY <1>1 DEF IInv, WirePure, FrameId

\* An entry just opened.
LEMMA FreshPure ==
    ASSUME IInv, NEW m \in Arriving, m.fragment, NEW ok
    PROVE  Pure(Fresh(m, ok)) /\ Fresh(m, ok).born = m.frame
<1>1. /\ Fresh(m, ok).born = m.frame /\ Fresh(m, ok).total = m.total
      /\ Fresh(m, ok).id = m.id /\ Fresh(m, ok).got = <<>>
  BY DEF Fresh
<1>2. DOMAIN Fresh(m, ok).got = {}
  BY <1>1
<1> QED BY <1>1, <1>2, ArrivingPure DEF Pure

\* Frame ids tell packets apart, so the entry of a message is its packet's.
LEMMA OpenedPure ==
    ASSUME UniqueIds, IInv, NEW m \in Arriving, m.fragment
    PROVE  Pure(Opened(m)) /\ Opened(m).born = m.frame
<1>1. CASE Holding(m.id) # {}
  <2>1. SlotFor(m) \in Holding(m.id)
    BY <1>1, FirstInSet DEF SlotFor, Holding, Slot
  <2>2. Opened(m) = slots[SlotFor(m)] /\ Pure(Opened(m)) /\ Opened(m).id = m.id
    BY <1>1, <2>1 DEF Opened, Holding, IInv, EntriesPure
  <2>3. Opened(m).born \in 1..MaxPackets
    BY <2>2, PacketNumbers DEF Pure
  <2>4. m.frame \in 1..MaxPackets /\ FrameId(m.frame) = FrameId(Opened(m).born)
    BY <2>2, ArrivingPure DEF Pure
  <2> QED BY <2>2, <2>3, <2>4, FrameIdInjective
<1>2. CASE Holding(m.id) = {}
  <2>1. Opened(m) = Fresh(m, TRUE)
    BY <1>2 DEF Opened
  <2> QED BY <2>1, FreshPure
<1> QED BY <1>1, <1>2

LEMMA DescribedPure ==
    ASSUME UniqueIds, IInv, NEW m \in Arriving, m.fragment
    PROVE  /\ Pure(Described(m)) /\ Described(m).born = m.frame
           /\ m.index = 0 => Described(m).meta = m.frame
<1> DEFINE e == Opened(m)
<1>1. Pure(e) /\ e.born = m.frame /\ EntryOK(e)
  BY OpenedPure, OpenedType, ArrivingType DEF IInv
<1>2. Described(m) = IF m.index = 0 THEN [e EXCEPT !.meta = m.frame] ELSE e
  BY DEF Described
<1> HIDE DEF e
<1> QED BY <1>1, <1>2 DEF Pure, EntryOK

LEMMA StoredPure ==
    ASSUME UniqueIds, IInv, NEW m \in Arriving, m.fragment
    PROVE  Pure(Stored(m)) /\ Stored(m).born = m.frame
<1> DEFINE e == Described(m)
           new == [i \in DOMAIN e.got \cup {m.index} |->
                      IF i = m.index THEN m.frame ELSE e.got[i]]
<1>1. /\ Pure(e) /\ e.born = m.frame /\ EntryOK(e)
      /\ m.index = 0 => e.meta = m.frame
  BY DescribedPure, DescribedType, ArrivingType DEF IInv
<1>2. Stored(m) = IF ~Wanted(m) THEN e ELSE [e EXCEPT !.got = new]
  BY DEF Stored
<1> HIDE DEF e
<1>3. \A j \in DOMAIN new : new[j] = m.frame
  BY <1>1 DEF Pure
<1>4. 0 \in DOMAIN new => e.meta = m.frame
  BY <1>1 DEF Pure
<1>5. Pure([e EXCEPT !.got = new]) /\ [e EXCEPT !.got = new].born = m.frame
  <2> HIDE DEF new
  <2> QED BY <1>1, <1>3, <1>4 DEF Pure, EntryOK
<1> QED BY <1>1, <1>2, <1>5

\* A complete pure entry reassembles to its packet.
LEMMA ReassembledIsPacket ==
    ASSUME NEW e, EntryOK(e), Pure(e), Complete(e)
    PROVE  IsPacket(Reassembled(e), e.born)
<1>1. DOMAIN e.got = 0..(e.total - 1)
  BY CompleteHasAll DEF EntryOK
<1>2. e.meta = e.born
  BY <1>1 DEF Pure, EntryOK
<1>3. \A i \in 1..e.total : ChunkAt(e, i - 1) = e.born
  BY <1>1 DEF Pure, EntryOK, ChunkAt
<1> QED BY <1>2, <1>3 DEF Reassembled, IsPacket, Pure

----------------------------------------------------------------------------
(* The inductive invariant.                                                *)

LEMMA InitInv == Init => IInv
BY InitType, ConstantsAssumption
   DEF Init, IInv, WirePure, EntriesPure, FramesIntact, Free

\* Packets already sent keep their number and size.
LEMMA PacketSent ==
    ASSUME IInv, NEW n \in Nat, packets' = Append(packets, n),
           Len(packets) < MaxPackets, UNCHANGED <<slots, handed>>
    PROVE  /\ Len(packets') <= MaxPackets
           /\ DOMAIN packets' = DOMAIN packets \cup {Len(packets) + 1}
           /\ \A k \in DOMAIN packets : packets'[k] = packets[k]
           /\ packets'[Len(packets) + 1] = n
           /\ EntriesPure' /\ FramesIntact'
<1>1. /\ Len(packets') <= MaxPackets
      /\ DOMAIN packets' = DOMAIN packets \cup {Len(packets) + 1}
      /\ \A k \in DOMAIN packets : packets'[k] = packets[k]
      /\ packets'[Len(packets) + 1] = n
  BY ConstantsAssumption DEF IInv, TypeOK
<1>2. EntriesPure'
  BY <1>1 DEF IInv, EntriesPure, Pure, FrameId
<1>3. FramesIntact'
  BY <1>1 DEF IInv, FramesIntact, IsPacket
<1> QED BY <1>1, <1>2, <1>3

\* Storing a pure entry, or freeing a slot, keeps the table pure.
LEMMA SlotUpdatePure ==
    ASSUME IInv, packets' = packets, NEW m, NEW e, e.active => Pure(e),
           slots' = [slots EXCEPT ![SlotFor(m)] = e]
    PROVE  EntriesPure'
<1>1. \A i \in Slot : slots'[i] = e \/ slots'[i] = slots[i]
  BY SlotForType DEF IInv, TypeOK
<1>2. \A i \in Slot : slots'[i].active => Pure(slots'[i])
  BY <1>1 DEF IInv, EntriesPure
<1> QED BY <1>2 DEF EntriesPure, Pure, FrameId

\* Handing over a packet keeps FramesIntact.
LEMMA HandOver ==
    ASSUME IInv, packets' = packets, NEW r, NEW k, IsPacket(r, k),
           handed' = Append(handed, r)
    PROVE  FramesIntact'
<1>1. DOMAIN handed' = DOMAIN handed \cup {Len(handed) + 1}
  BY DEF IInv, TypeOK
<1>2. handed'[Len(handed) + 1] = r /\ \A i \in DOMAIN handed : handed'[i] = handed[i]
  BY DEF IInv, TypeOK
<1> DEFINE whole(j) == [meta |-> j, parts |-> [x \in 1..packets[j] |-> j]]
<1>3. r = whole(k) /\ k \in DOMAIN packets
  BY DEF IsPacket
<1>4. \A i \in DOMAIN handed : \E j \in DOMAIN packets : handed[i] = whole(j)
  BY DEF IInv, FramesIntact, IsPacket
<1> HIDE DEF whole
<1>5. \A i \in DOMAIN handed' : \E j \in DOMAIN packets : handed'[i] = whole(j)
  BY <1>1, <1>2, <1>3, <1>4
<1> QED BY <1>5 DEF FramesIntact, IsPacket, whole

LEMMA StepInv == ASSUME UniqueIds PROVE IInv /\ [Next]_vars => IInv'
<1> SUFFICES ASSUME IInv, [Next]_vars PROVE IInv'
  OBVIOUS
<1>t. TypeOK'
  BY StepType DEF IInv
<1>1. CASE SendPacket
  <2> DEFINE k == Len(packets) + 1
  <2>1. PICK n \in Sizes : /\ packets' = Append(packets, n)
                           /\ wire' = wire \o Encode(k, n)
    BY <1>1 DEF SendPacket
  <2>2. n \in Nat \ {0} /\ k \in Nat \ {0} /\ k \notin DOMAIN packets
    BY ConstantsAssumption DEF IInv, TypeOK
  <2>3. /\ Len(packets') <= MaxPackets
        /\ DOMAIN packets' = DOMAIN packets \cup {k}
        /\ \A j \in DOMAIN packets : packets'[j] = packets[j]
        /\ packets'[k] = n
        /\ EntriesPure' /\ FramesIntact'
    BY <1>1, <2>1, <2>2, PacketSent DEF SendPacket
  <2>4. Encode(k, n) \in Seq(Message) /\ Len(Encode(k, n)) = n
    BY <2>2, EncodeType DEF Encode
  <2>5. ASSUME NEW i \in DOMAIN wire'
        PROVE  \/ i \in DOMAIN wire /\ wire'[i] = wire[i]
               \/ \E j \in 1..n : wire'[i] = Encode(k, n)[j]
    <3> DEFINE w == wire
               t == Encode(k, n)
    <3>1. w \in Seq(Message) /\ t \in Seq(Message) /\ wire' = w \o t
      BY <2>1, <2>4 DEF IInv, TypeOK
    <3> HIDE DEF w, t
    <3>2. /\ i \in 1..(Len(w) + Len(t)) /\ Len(w) \in Nat /\ Len(t) \in Nat
          /\ wire'[i] = IF i <= Len(w) THEN w[i] ELSE t[i - Len(w)]
      BY <3>1
    <3>3. CASE i <= Len(w)
      BY <3>1, <3>2, <3>3 DEF w
    <3>4. CASE i > Len(w)
      BY <2>4, <3>2, <3>4 DEF t
    <3> QED BY <3>2, <3>3, <3>4
  <2>6. \A j \in 1..n : Encode(k, n)[j] =
           [frame |-> k, fragment |-> n > 1, id |-> FrameId(k), index |-> j - 1, total |-> n]
    BY DEF Encode
  <2>7. \A j \in 1..n : j - 1 \in 0..(n - 1)
    BY <2>2
  <2> HIDE DEF k
  <2>8. ASSUME NEW i \in DOMAIN wire'
        PROVE  /\ wire'[i].frame \in DOMAIN packets'
               /\ wire'[i].total = packets'[wire'[i].frame]
               /\ wire'[i].fragment = (wire'[i].total > 1)
               /\ wire'[i].id = FrameId(wire'[i].frame)
               /\ wire'[i].index \in 0..(wire'[i].total - 1)
    <3>1. CASE i \in DOMAIN wire /\ wire'[i] = wire[i]
      BY <2>3, <3>1 DEF IInv, WirePure
    <3>2. CASE \E j \in 1..n : wire'[i] = Encode(k, n)[j]
      <4>1. PICK j \in 1..n : wire'[i] = Encode(k, n)[j]
        BY <3>2
      <4>2. wire'[i] = [frame |-> k, fragment |-> n > 1, id |-> FrameId(k),
                        index |-> j - 1, total |-> n]
        BY <2>6, <4>1
      <4>3. j - 1 \in 0..(n - 1)
        BY <2>7
      <4> QED BY <2>3, <4>2, <4>3
    <3> QED BY <2>5, <3>1, <3>2
  <2>9. WirePure'
    BY <2>8 DEF WirePure, FrameId
  <2> QED BY <1>t, <2>3, <2>9 DEF IInv
<1>2. CASE SendElsewhere
  <2>1. /\ Len(packets') <= MaxPackets
        /\ DOMAIN packets' = DOMAIN packets \cup {Len(packets) + 1}
        /\ \A j \in DOMAIN packets : packets'[j] = packets[j]
        /\ EntriesPure' /\ FramesIntact'
    BY <1>2, PacketSent DEF SendElsewhere
  <2>2. WirePure'
    BY <1>2, <2>1 DEF SendElsewhere, IInv, WirePure, FrameId
  <2> QED BY <1>t, <2>1, <2>2 DEF IInv
<1>3. ASSUME MessageLost \/ WholeFails \/ RejectOversize PROVE IInv'
  <2>1. wire # <<>> /\ wire' = Tail(wire) /\ UNCHANGED <<packets, slots, handed>>
    BY <1>3, ArrivingType DEF IInv, MessageLost, WholeFails, RejectOversize
  <2>2. EntriesPure' /\ FramesIntact'
    BY <2>1 DEF IInv, EntriesPure, Pure, FrameId, FramesIntact, IsPacket
  <2> QED BY <1>t, <2>1, <2>2, TailPure DEF IInv
<1>4. CASE ParseWhole
  <2>1. PICK m \in Arriving :
          /\ ~m.fragment /\ wire' = Tail(wire)
          /\ handed' = Append(handed, [meta |-> m.frame, parts |-> <<m.frame>>])
    BY <1>4 DEF ParseWhole
  <2>2. wire # <<>> /\ m \in Message
    BY ArrivingType DEF IInv
  <2>3. packets[m.frame] = 1
    BY <2>1, <2>2, ArrivingPure DEF Message
  <2>4. <<m.frame>> = [i \in 1..1 |-> m.frame]
    OBVIOUS
  <2>5. IsPacket([meta |-> m.frame, parts |-> <<m.frame>>], m.frame)
    BY <2>3, <2>4, ArrivingPure DEF IsPacket
  <2>6. FramesIntact' /\ WirePure'
    BY <1>4, <2>1, <2>2, <2>5, HandOver, TailPure DEF ParseWhole
  <2>7. EntriesPure'
    BY <1>4 DEF ParseWhole, IInv, EntriesPure, Pure, FrameId
  <2> QED BY <1>4, <1>t, <2>6, <2>7 DEF ParseWhole, IInv
<1>5. ASSUME NEW m \in Arriving, NEW e, m.fragment, e.active => Pure(e),
             wire' = Tail(wire), slots' = [slots EXCEPT ![SlotFor(m)] = e],
             packets' = packets, FramesIntact'
      PROVE  IInv'
  <2>1. WirePure'
    BY <1>5, ArrivingType, TailPure DEF IInv
  <2>2. EntriesPure'
    BY <1>5, SlotUpdatePure
  <2> QED BY <1>t, <1>5, <2>1, <2>2 DEF IInv
<1>6. handed' = handed /\ packets' = packets => FramesIntact'
  BY DEF IInv, FramesIntact, IsPacket
<1>7. CASE StoreFragment
  BY <1>5, <1>6, <1>7, StoredPure DEF StoreFragment, Fragment
<1>8. CASE CompleteFrame
  <2>1. PICK m \in Arriving :
          /\ m.fragment /\ Complete(Stored(m)) /\ wire' = Tail(wire)
          /\ slots' = [slots EXCEPT ![SlotFor(m)] = Free]
          /\ handed' = Append(handed, Reassembled(Stored(m)))
    BY <1>8 DEF CompleteFrame, Fragment
  <2>2. IsPacket(Reassembled(Stored(m)), Stored(m).born)
    BY <2>1, ArrivingType, StoredType, StoredPure, ReassembledIsPacket DEF IInv
  <2>3. FramesIntact' /\ packets' = packets
    BY <1>8, <2>1, <2>2, HandOver DEF CompleteFrame
  <2> QED BY <1>5, <2>1, <2>3 DEF Free
<1>9. CASE ChunkFails
  BY <1>5, <1>6, <1>9, DescribedPure DEF ChunkFails, Fragment
<1>10. CASE ResultFails
  BY <1>5, <1>6, <1>10 DEF ResultFails, Fragment, Free
<1>11. CASE TablesFail
  <2>1. PICK m \in Arriving :
          /\ m.fragment /\ wire' = Tail(wire)
          /\ slots' = [slots EXCEPT ![SlotFor(m)] = Fresh(m, FALSE)]
    BY <1>11 DEF TablesFail, Fragment
  <2>2. Pure(Fresh(m, FALSE))
    BY <2>1, FreshPure
  <2> QED BY <1>5, <1>6, <1>11, <2>1, <2>2 DEF TablesFail
<1>12. ASSUME MissingTable \/ UNCHANGED vars PROVE IInv'
  <2>1. UNCHANGED <<packets, wire, slots, handed>>
    BY <1>12 DEF MissingTable, vars
  <2> QED BY <1>t, <2>1
          DEF IInv, WirePure, EntriesPure, Pure, FrameId, FramesIntact, IsPacket
<1>13. CASE Destroy
  <2>1. UNCHANGED <<packets, wire, handed>> /\ \A i \in Slot : ~slots'[i].active
    BY <1>13 DEF Destroy, Free
  <2> QED BY <1>t, <2>1
          DEF IInv, WirePure, EntriesPure, FrameId, FramesIntact, IsPacket
<1> QED BY <1>1, <1>2, <1>3, <1>4, <1>7, <1>8, <1>9, <1>10, <1>11, <1>12, <1>13
        DEF Next, Parse

\* Every frame the parser calls complete is one packet of the server, header
\* and all chunks in order, whatever allocations fail and whatever entries
\* are evicted, as long as no frame id has been used twice.
THEOREM FramesIntactHolds ==
    ASSUME UniqueIds
    PROVE  Spec => []FramesIntact
<1>1. IInv => FramesIntact
  BY DEF IInv
<1> QED BY <1>1, InitInv, StepInv, PTL DEF Spec

----------------------------------------------------------------------------
(***************************************************************************)
(* Proofs that FragmentReassembly delivers: what is handed over is in      *)
(* order, and a packet whose messages all arrived is handed over.  The     *)
(* messages of a packet are one stretch of the wire (WireOrder, WireWhole),*)
(* so while an entry is filled no other packet's message comes and takes   *)
(* its slot: the entry holds just the indices before the next message      *)
(* (GotBefore, FrontIsStored), and it is complete with the last.           *)
(***************************************************************************)

\* Packets follow one another on the wire, and the chunks of each.
WireOrder ==
    \A i, j \in DOMAIN wire : i < j =>
        \/ wire[i].frame < wire[j].frame
        \/ wire[i].frame = wire[j].frame /\ wire[i].index < wire[j].index

\* No chunk is missing between them.
WireWhole ==
    \A i \in DOMAIN wire :
        /\ i + 1 \in DOMAIN wire /\ wire[i + 1].frame = wire[i].frame =>
              wire[i + 1].index = wire[i].index + 1
        /\ i + 1 \in DOMAIN wire /\ wire[i + 1].frame # wire[i].frame => wire[i + 1].index = 0
        /\ i + 1 \notin DOMAIN wire \/ wire[i + 1].frame # wire[i].frame =>
              wire[i].index = wire[i].total - 1

GotBefore ==
    \A s \in Slot, i \in DOMAIN wire :
        slots[s].active /\ slots[s].born = wire[i].frame
            => \A j \in DOMAIN slots[s].got : j < wire[i].index

HandedBefore ==
    \A h \in DOMAIN handed, i \in DOMAIN wire : handed[h].meta < wire[i].frame

\* The chunks before the next message, unless one of them was lost.
FrontIsStored ==
    \A m \in Arriving :
        parser = "ready" /\ m.index > 0 /\ m.frame \notin lossy /\ m.total <= MAX_FRAGMENTS
            => /\ Holding(m.id) # {}
               /\ slots[First(Holding(m.id))].tables
               /\ DOMAIN slots[First(Holding(m.id))].got = 0..(m.index - 1)

Flow == WireOrder /\ WireWhole /\ GotBefore /\ HandedBefore /\ FrontIsStored

----------------------------------------------------------------------------
(* The wire.                                                               *)

LEMMA HeadOf ==
    ASSUME NEW T, NEW s \in Seq(T), s # <<>>
    PROVE  /\ 1 \in DOMAIN s /\ Head(s) = s[1]
           /\ \A i \in Nat : i > 0 => (i \in DOMAIN Tail(s) <=> i + 1 \in DOMAIN s)
           /\ \A i \in DOMAIN Tail(s) : i \in Nat /\ i > 0 /\ Tail(s)[i] = s[i + 1]
           /\ \A i \in DOMAIN s : i = 1 \/ (i - 1 \in DOMAIN Tail(s) /\ s[i] = Tail(s)[i - 1])
           /\ Tail(s) # <<>> => 1 \in DOMAIN Tail(s) /\ Head(Tail(s)) = Tail(s)[1]
<1>1. /\ Len(s) \in Nat /\ Len(s) > 0 /\ DOMAIN s = 1..Len(s) /\ Head(s) = s[1]
      /\ Tail(s) \in Seq(T) /\ DOMAIN Tail(s) = 1..(Len(s) - 1)
      /\ \A i \in 1..(Len(s) - 1) : Tail(s)[i] = s[i + 1]
  OBVIOUS
<1>2. \A i \in DOMAIN s : i = 1 \/ (i - 1 \in DOMAIN Tail(s) /\ s[i] = Tail(s)[i - 1])
  <2>1. SUFFICES ASSUME NEW i \in 1..Len(s), i # 1
                 PROVE  i - 1 \in 1..(Len(s) - 1) /\ s[i] = Tail(s)[i - 1]
    BY <1>1
  <2>2. i - 1 \in 1..(Len(s) - 1) /\ (i - 1) + 1 = i
    BY <1>1, <2>1
  <2> QED BY <1>1, <2>2
<1>3. Tail(s) # <<>> => 1 \in DOMAIN Tail(s) /\ Head(Tail(s)) = Tail(s)[1]
  BY <1>1
<1> QED BY <1>1, <1>2, <1>3

LEMMA AppendKeeps ==
    ASSUME NEW T, NEW s \in Seq(T), NEW e
    PROVE  \A i \in DOMAIN s : i \in DOMAIN Append(s, e) /\ Append(s, e)[i] = s[i]
OBVIOUS

LEMMA TailFlow ==
    ASSUME IInv, WireOrder, WireWhole, wire # <<>>, wire' = Tail(wire)
    PROVE  WireOrder' /\ WireWhole'
<1>1. wire \in Seq(Message)
  BY DEF IInv, TypeOK
<1>2. \A i \in DOMAIN wire' : /\ i \in Nat /\ i > 0 /\ i + 1 \in DOMAIN wire /\ wire'[i] = wire[i + 1]
                              /\ i + 1 \in DOMAIN wire' <=> (i + 1) + 1 \in DOMAIN wire
                              /\ i + 1 \in DOMAIN wire' => wire'[i + 1] = wire[(i + 1) + 1]
  BY <1>1, HeadOf
<1>3. WireOrder'
  BY <1>2 DEF WireOrder
<1>4. WireWhole'
  BY <1>2 DEF WireWhole
<1> QED BY <1>3, <1>4

\* What is behind the message that is taken.
LEMMA Behind ==
    ASSUME IInv, Flow, NEW m \in Arriving, wire' = Tail(wire)
    PROVE  /\ wire # <<>> /\ m = wire[1] /\ m \in Message
           /\ \A i \in DOMAIN wire : wire[i] = m \/ \E j \in DOMAIN wire' : wire'[j] = wire[i]
           /\ \A j \in DOMAIN wire' : \E i \in DOMAIN wire : wire'[j] = wire[i]
           /\ \A j \in DOMAIN wire' : \/ m.frame < wire'[j].frame
                                      \/ m.frame = wire'[j].frame /\ m.index < wire'[j].index
           /\ m.index = m.total - 1 => \A j \in DOMAIN wire' : m.frame < wire'[j].frame
           /\ m.index # m.total - 1 =>
                 1 \in DOMAIN wire' /\ wire'[1].frame = m.frame /\ wire'[1].index = m.index + 1
           /\ \A w \in Arriving' : /\ w = wire'[1] /\ 1 \in DOMAIN wire'
                                   /\ w.frame # m.frame => w.index = 0
                                   /\ w.frame = m.frame => w.index = m.index + 1
<1>1. wire # <<>> /\ m = Head(wire) /\ m \in Message /\ wire \in Seq(Message)
  BY ArrivingType DEF IInv, TypeOK
<1>2. 1 \in DOMAIN wire /\ m = wire[1]
  BY <1>1, HeadOf
<1>3. \A j \in DOMAIN wire' : j \in Nat /\ j > 0 /\ j + 1 \in DOMAIN wire /\ wire'[j] = wire[j + 1]
  BY <1>1, HeadOf
<1>4. \A j \in DOMAIN wire' : \/ m.frame < wire'[j].frame
                              \/ m.frame = wire'[j].frame /\ m.index < wire'[j].index
  BY <1>2, <1>3 DEF Flow, WireOrder
<1>5. \A j \in DOMAIN wire' : /\ wire'[j].frame \in Nat /\ wire'[j].index \in Int
                              /\ wire'[j].total = packets[wire'[j].frame]
                              /\ wire'[j].index <= wire'[j].total - 1 /\ wire'[j].total \in Nat
  <2>1. \A i \in DOMAIN wire : wire[i] \in Message
    BY <1>1
  <2>2. \A i \in DOMAIN wire : wire[i].frame \in Nat /\ wire[i].index \in Nat /\ wire[i].total \in Nat
    BY <2>1 DEF Message
  <2> QED BY <1>3, <2>2 DEF IInv, WirePure
<1>6. m.index = m.total - 1 => \A j \in DOMAIN wire' : m.frame < wire'[j].frame
  <2>1. m.total = packets[m.frame]
    BY ArrivingPure
  <2> QED BY <1>4, <1>5, <2>1
<1>7. 1 \in DOMAIN wire' <=> 2 \in DOMAIN wire
  BY <1>1, HeadOf
<1>8. 2 \in DOMAIN wire => wire'[1] = wire[2]
  BY <1>3, <1>7
<1>9. /\ 2 \in DOMAIN wire /\ wire[2].frame = m.frame => wire[2].index = m.index + 1
      /\ 2 \in DOMAIN wire /\ wire[2].frame # m.frame => wire[2].index = 0
      /\ 2 \notin DOMAIN wire \/ wire[2].frame # m.frame => m.index = m.total - 1
  <2>1. 1 + 1 = 2
    OBVIOUS
  <2> QED BY <1>2, <2>1 DEF Flow, WireWhole
<1>10. \A w \in Arriving' : w = wire'[1] /\ 1 \in DOMAIN wire'
  BY <1>1, HeadOf DEF Arriving
<1>11. \A i \in DOMAIN wire : wire[i] = m \/ \E j \in DOMAIN wire' : wire'[j] = wire[i]
  BY <1>1, <1>2, HeadOf
<1> QED BY <1>1, <1>2, <1>3, <1>4, <1>6, <1>7, <1>8, <1>9, <1>10, <1>11

\* What SendPacket puts behind what is there.
LEMMA SentIs ==
    ASSUME IInv, SendPacket
    PROVE  \E n \in Nat \ {0} :
             /\ packets' = Append(packets, n)
             /\ DOMAIN wire' = 1..(Len(wire) + n) /\ DOMAIN wire = 1..Len(wire) /\ Len(wire) \in Nat
             /\ \A i \in 1..(Len(wire) + n) :
                   /\ i <= Len(wire) => wire'[i] = wire[i]
                   /\ i > Len(wire) => /\ wire'[i].frame = Len(packets) + 1
                                       /\ wire'[i].index = i - Len(wire) - 1
                                       /\ wire'[i].total = n
<1> DEFINE k == Len(packets) + 1
<1>1. PICK n \in Sizes : packets' = Append(packets, n) /\ wire' = wire \o Encode(k, n)
  BY DEF SendPacket
<1>2. n \in Nat \ {0} /\ k \in Nat \ {0}
  BY ConstantsAssumption DEF IInv, TypeOK
<1>3. Encode(k, n) \in Seq(Message) /\ Len(Encode(k, n)) = n
  BY <1>2, EncodeType DEF Encode
<1>4. \A i \in 1..n : /\ Encode(k, n)[i].frame = k /\ Encode(k, n)[i].index = i - 1
                      /\ Encode(k, n)[i].total = n
  BY DEF Encode
<1> HIDE DEF k
<1> DEFINE t == Encode(k, n)
<1>5. wire \in Seq(Message) /\ t \in Seq(Message) /\ Len(t) = n
  BY <1>3 DEF IInv, TypeOK
<1> HIDE DEF t
<1>6. /\ DOMAIN wire' = 1..(Len(wire) + n) /\ DOMAIN wire = 1..Len(wire) /\ Len(wire) \in Nat
      /\ \A i \in 1..(Len(wire) + n) :
            wire'[i] = IF i <= Len(wire) THEN wire[i] ELSE t[i - Len(wire)]
  BY <1>1, <1>2, <1>5 DEF t
<1>7. \A i \in 1..(Len(wire) + n) : i > Len(wire) => i - Len(wire) \in 1..n
  BY <1>2, <1>6
<1>8. \A i \in 1..(Len(wire) + n) : i > Len(wire) =>
         /\ wire'[i].frame = k /\ wire'[i].index = i - Len(wire) - 1 /\ wire'[i].total = n
  <2>1. SUFFICES ASSUME NEW i \in 1..(Len(wire) + n), i > Len(wire)
                 PROVE  wire'[i].frame = k /\ wire'[i].index = i - Len(wire) - 1 /\ wire'[i].total = n
    OBVIOUS
  <2>2. wire'[i] = t[i - Len(wire)] /\ i - Len(wire) \in 1..n
    BY <1>6, <1>7, <2>1
  <2> QED BY <1>4, <2>2 DEF t
<1> QED BY <1>1, <1>2, <1>6, <1>8 DEF k

LEMMA SendFlow ==
    ASSUME IInv, Flow, SendPacket
    PROVE  Flow'
<1> DEFINE L == Len(wire)
           k == Len(packets) + 1
<1>1. PICK n \in Nat \ {0} :
         /\ DOMAIN wire' = 1..(L + n) /\ DOMAIN wire = 1..L /\ L \in Nat
         /\ \A i \in 1..(L + n) :
               /\ i <= L => wire'[i] = wire[i]
               /\ i > L => wire'[i].frame = k /\ wire'[i].index = i - L - 1 /\ wire'[i].total = n
  BY SentIs
<1>2. UNCHANGED <<slots, handed, lossy, parser>> /\ k \in Nat /\ \A j \in DOMAIN packets : j < k
  BY DEF SendPacket, IInv, TypeOK
<1>3. \A i \in 1..L : wire[i].frame \in DOMAIN packets /\ wire[i].frame < k
  BY <1>1, <1>2 DEF IInv, WirePure
<1> HIDE DEF L, k
<1>4. WireOrder'
  <2>1. SUFFICES ASSUME NEW i \in 1..(L + n), NEW j \in 1..(L + n), i < j
                 PROVE  \/ wire'[i].frame < wire'[j].frame
                        \/ wire'[i].frame = wire'[j].frame /\ wire'[i].index < wire'[j].index
    BY <1>1 DEF WireOrder
  <2>2. CASE j <= L
    BY <1>1, <2>1, <2>2 DEF Flow, WireOrder
  <2>3. CASE i <= L /\ j > L
    <3>1. i \in 1..L
      BY <1>1, <2>3
    <3> QED BY <1>1, <1>3, <2>3, <3>1
  <2>4. CASE i > L
    BY <1>1, <2>1, <2>4
  <2> QED BY <1>1, <2>1, <2>2, <2>3, <2>4
<1>5. WireWhole'
  <2>1. SUFFICES ASSUME NEW i \in 1..(L + n)
                 PROVE  /\ i + 1 \in 1..(L + n) /\ wire'[i + 1].frame = wire'[i].frame =>
                              wire'[i + 1].index = wire'[i].index + 1
                        /\ i + 1 \in 1..(L + n) /\ wire'[i + 1].frame # wire'[i].frame => wire'[i + 1].index = 0
                        /\ i + 1 \notin 1..(L + n) \/ wire'[i + 1].frame # wire'[i].frame =>
                              wire'[i].index = wire'[i].total - 1
    BY <1>1 DEF WireWhole
  <2>2. CASE i + 1 <= L
    <3>1. i \in DOMAIN wire /\ i + 1 \in DOMAIN wire /\ i + 1 \in 1..(L + n)
      BY <1>1, <2>2
    <3>2. wire'[i] = wire[i] /\ wire'[i + 1] = wire[i + 1]
      BY <1>1, <2>2, <3>1
    <3> QED BY <3>1, <3>2 DEF Flow, WireWhole
  <2>3. CASE i = L
    <3>1. i \in DOMAIN wire /\ i + 1 \notin DOMAIN wire /\ i + 1 \in 1..(L + n) /\ i + 1 > L
      BY <1>1, <2>3
    <3>2. wire'[i] = wire[i] /\ wire[i].index = wire[i].total - 1
      BY <1>1, <2>3, <3>1 DEF Flow, WireWhole
    <3>3. wire'[i + 1].frame = k /\ wire'[i + 1].index = 0 /\ wire[i].frame # k
      <4>1. wire[i].frame < k /\ wire[i].frame \in Nat
        BY <1>1, <1>3, <3>1 DEF IInv, TypeOK
      <4>2. (i + 1) - L - 1 = 0
        BY <1>1, <2>3
      <4> QED BY <1>1, <1>2, <3>1, <4>1, <4>2
    <3> QED BY <3>1, <3>2, <3>3
  <2>4. CASE i > L
    BY <1>1, <2>4
  <2> QED BY <1>1, <2>2, <2>3, <2>4
<1>6. \A i \in DOMAIN wire' : (i \in DOMAIN wire /\ wire'[i] = wire[i]) \/ wire'[i].frame = k
  BY <1>1
<1>7. GotBefore'
  <2>1. \A s \in Slot : slots[s].active => slots[s].born \in DOMAIN packets
    BY DEF IInv, EntriesPure, Pure
  <2>2. \A s \in Slot : slots[s].active => slots[s].born # k
    BY <1>2, <2>1 DEF IInv, TypeOK
  <2> QED BY <1>2, <1>6, <2>2 DEF Flow, GotBefore
<1>8. HandedBefore'
  <2>1. \A h \in DOMAIN handed : handed[h].meta \in DOMAIN packets
    BY DEF IInv, FramesIntact, IsPacket
  <2> QED BY <1>2, <1>6, <2>1 DEF Flow, HandedBefore
<1>9. FrontIsStored'
  <2>1. \A w \in Arriving' : w \in Arriving \/ w.index = 0
    <3>1. \A w \in Arriving' : w = wire'[1] /\ wire' # <<>>
      BY DEF Arriving
    <3>2. wire # <<>> => wire'[1] = wire[1] /\ wire[1] \in Arriving
      <4>1. SUFFICES ASSUME wire # <<>> PROVE wire'[1] = wire[1] /\ wire[1] \in Arriving
        OBVIOUS
      <4>2. 1 \in DOMAIN wire /\ Head(wire) = wire[1]
        BY <4>1, HeadOf DEF IInv, TypeOK
      <4>3. 1 \in 1..(L + n) /\ 1 <= L
        BY <1>1, <4>2
      <4> QED BY <1>1, <4>1, <4>2, <4>3 DEF Arriving
    <3>3. wire = <<>> => wire'[1].index = 0
      <4>1. SUFFICES ASSUME wire = <<>> PROVE wire'[1].index = 0
        OBVIOUS
      <4>2. L = 0
        BY <4>1 DEF L
      <4>3. 1 \in 1..(L + n) /\ 1 > L /\ 1 - L - 1 = 0
        BY <4>2
      <4> QED BY <1>1, <4>3
    <3> QED BY <3>1, <3>2, <3>3
  <2> QED BY <1>2, <2>1 DEF Flow, FrontIsStored, Holding
<1> QED BY <1>4, <1>5, <1>7, <1>8, <1>9 DEF Flow

----------------------------------------------------------------------------
(* The parser's table.                                                     *)

\* The entry a fragment is stored in has indices before it only.
LEMMA OpenedBefore ==
    ASSUME UniqueIds, IInv, Flow, NEW m \in Arriving, m.fragment
    PROVE  /\ \A j \in DOMAIN Opened(m).got : j \in 0..(m.index - 1)
           /\ Opened(m).total = m.total /\ Wanted(m)
<1>1. Pure(Opened(m)) /\ Opened(m).born = m.frame /\ EntryOK(Opened(m))
  BY OpenedPure, OpenedType, ArrivingType DEF IInv
<1>2. m.total = packets[m.frame] /\ m.index \in 0..(m.total - 1) /\ m.total \in Nat /\ m.index \in Nat
  BY ArrivingPure, ArrivingType DEF IInv, Message
<1>3. Opened(m).total = m.total
  BY <1>1, <1>2 DEF Pure
<1>4. wire # <<>> /\ m = wire[1] /\ 1 \in DOMAIN wire
  BY HeadOf DEF Arriving, IInv, TypeOK
<1>5. \A j \in DOMAIN Opened(m).got : j < m.index
  <2>1. CASE Holding(m.id) # {}
    <3>1. SlotFor(m) \in Slot /\ SlotFor(m) \in Holding(m.id)
      BY <2>1, FirstInSet DEF SlotFor, Holding
    <3>2. Opened(m) = slots[SlotFor(m)] /\ slots[SlotFor(m)].active
      BY <2>1, <3>1 DEF Opened, Holding
    <3> QED BY <1>1, <1>4, <3>1, <3>2 DEF Flow, GotBefore
  <2>2. CASE Holding(m.id) = {}
    BY <2>2 DEF Opened, Fresh
  <2> QED BY <2>1, <2>2
<1>6. \A j \in DOMAIN Opened(m).got : j \in 0..(m.index - 1)
  <2>1. \A j \in DOMAIN Opened(m).got : j \in 0..(m.total - 1)
    BY <1>1, <1>3 DEF EntryOK
  <2> QED BY <1>2, <1>5, <2>1
<1>7. m.index \notin DOMAIN Opened(m).got
  BY <1>2, <1>6
<1> QED BY <1>2, <1>3, <1>6, <1>7 DEF Wanted

LEMMA DescribedKeeps ==
    ASSUME TypeOK, NEW m, m \in Message
    PROVE  /\ Described(m).got = Opened(m).got /\ Described(m).total = Opened(m).total
           /\ Described(m).tables = Opened(m).tables
<1> DEFINE e == Opened(m)
<1>1. EntryOK(e)
  BY OpenedType
<1>2. Described(m) = IF m.index = 0 THEN [e EXCEPT !.meta = m.frame] ELSE e
  BY DEF Described
<1> HIDE DEF e
<1>3. Described(m).got = e.got /\ Described(m).total = e.total /\ Described(m).tables = e.tables
  BY <1>1, <1>2 DEF EntryOK
<1> QED BY <1>3 DEF e

\* Storing adds the message's index.
LEMMA StoredAdds ==
    ASSUME UniqueIds, IInv, Flow, NEW m \in Arriving, m.fragment
    PROVE  /\ DOMAIN Stored(m).got = DOMAIN Opened(m).got \cup {m.index}
           /\ Stored(m).tables = Opened(m).tables
           /\ Stored(m).total = m.total
           /\ Complete(Stored(m)) => m.index = m.total - 1
<1> DEFINE e == Described(m)
           new == [i \in DOMAIN e.got \cup {m.index} |-> IF i = m.index THEN m.frame ELSE e.got[i]]
<1>1. m \in Message /\ TypeOK
  BY ArrivingType DEF IInv
<1>2. EntryOK(e) /\ e.got = Opened(m).got /\ e.total = Opened(m).total /\ e.tables = Opened(m).tables
  BY <1>1, DescribedType, DescribedKeeps
<1>3. Wanted(m) /\ Opened(m).total = m.total /\ \A j \in DOMAIN Opened(m).got : j \in 0..(m.index - 1)
  BY OpenedBefore
<1>4. Stored(m) = [e EXCEPT !.got = new]
  BY <1>3 DEF Stored
<1> HIDE DEF e
<1>5. DOMAIN new = DOMAIN e.got \cup {m.index}
  OBVIOUS
<1> HIDE DEF new
<1>6. Stored(m).got = new /\ Stored(m).tables = e.tables /\ Stored(m).total = e.total
  BY <1>2, <1>4 DEF EntryOK
<1>7. DOMAIN Stored(m).got = DOMAIN Opened(m).got \cup {m.index} /\ Stored(m).total = m.total
  BY <1>2, <1>3, <1>5, <1>6
<1>8. m.total \in Nat /\ m.index \in 0..(m.total - 1)
  BY <1>1, ArrivingPure DEF Message
<1>9. ASSUME Complete(Stored(m)) PROVE m.index = m.total - 1
  <2>1. DOMAIN Stored(m).got \subseteq 0..(Stored(m).total - 1)
    BY <1>3, <1>7, <1>8
  <2>2. DOMAIN Stored(m).got = 0..(m.total - 1)
    BY <1>7, <1>8, <1>9, <2>1, CompleteHasAll
  <2>3. m.total - 1 \in DOMAIN Stored(m).got
    BY <1>8, <2>2
  <2> QED BY <1>3, <1>7, <1>8, <2>3
<1> QED BY <1>2, <1>6, <1>7, <1>9

\* An entry with every index is complete.
LEMMA AllIsComplete ==
    ASSUME NEW e, e.total \in Nat, DOMAIN e.got = 0..(e.total - 1)
    PROVE  Complete(e)
<1>1. Cardinality(0..(e.total - 1)) = IF 0 > e.total - 1 THEN 0 ELSE (e.total - 1) - 0 + 1
  <2>1. e.total - 1 \in Int /\ 0 \in Int
    OBVIOUS
  <2> QED BY <2>1, FS_Interval
<1> QED BY <1>1 DEF Complete

\* Nothing was lost of what has come, so with the last fragment all are there.
LEMMA FrontStored ==
    ASSUME UniqueIds, IInv, Flow, NEW m \in Arriving, Fragment(m), Opened(m).tables, m.frame \notin lossy
    PROVE  /\ DOMAIN Stored(m).got = 0..m.index
           /\ m.index = m.total - 1 => Complete(Stored(m))
<1>1. parser = "ready" /\ m.fragment /\ m.total <= MAX_FRAGMENTS
  BY DEF Fragment
<1>2. m.index \in Nat /\ m.total \in Nat
  BY ArrivingType DEF IInv, Message
<1>3. DOMAIN Opened(m).got = 0..(m.index - 1)
  <2>1. CASE m.index = 0
    BY <1>1, <2>1, OpenedBefore
  <2>2. CASE m.index > 0
    <3>1. Holding(m.id) # {} /\ DOMAIN slots[First(Holding(m.id))].got = 0..(m.index - 1)
      BY <1>1, <2>2 DEF Flow, FrontIsStored
    <3> QED BY <3>1 DEF Opened, SlotFor
  <2> QED BY <1>2, <2>1, <2>2
<1>4. DOMAIN Stored(m).got = 0..m.index
  <2>1. 0..m.index = 0..(m.index - 1) \cup {m.index}
    BY <1>2
  <2> QED BY <1>1, <1>3, <2>1, StoredAdds
<1>5. m.index = m.total - 1 => Complete(Stored(m))
  BY <1>1, <1>2, <1>4, StoredAdds, AllIsComplete
<1> QED BY <1>4, <1>5

----------------------------------------------------------------------------
(* The parser's steps.                                                     *)

\* The entry that is written belongs to the packet at the front.
LEMMA SlotFlow ==
    ASSUME UniqueIds, IInv, Flow, NEW m \in Arriving, wire' = Tail(wire), NEW e,
           slots' = [slots EXCEPT ![SlotFor(m)] = e],
           e.active => /\ e.born = m.frame
                       /\ \A j \in DOMAIN e.got : j \in 0..m.index
    PROVE  GotBefore'
<1>1. \A s \in Slot : slots'[s] = e \/ slots'[s] = slots[s]
  BY SlotForType DEF IInv, TypeOK
<1>2. m.index \in Nat
  BY ArrivingType DEF IInv, Message
<1>3. \A i \in DOMAIN wire' : wire'[i].index \in Nat
  <2>1. \A i \in DOMAIN wire : wire[i] \in Message
    BY DEF IInv, TypeOK
  <2> QED BY <2>1, Behind DEF Message
<1>4. SUFFICES ASSUME NEW s \in Slot, NEW i \in DOMAIN wire',
                      slots'[s].active, slots'[s].born = wire'[i].frame,
                      NEW j \in DOMAIN slots'[s].got
               PROVE  j < wire'[i].index
  BY DEF GotBefore
<1>5. CASE slots'[s] = slots[s]
  BY <1>4, <1>5, Behind DEF Flow, GotBefore
<1>6. CASE slots'[s] = e
  <2>1. wire'[i].frame = m.frame /\ j \in 0..m.index
    BY <1>4, <1>6
  <2>2. m.index < wire'[i].index
    <3>1. m.frame \in Nat
      BY ArrivingType DEF IInv, Message
    <3>2. m.frame < wire'[i].frame \/ m.index < wire'[i].index
      BY Behind
    <3> QED BY <2>1, <3>1, <3>2
  <2> QED BY <1>2, <1>3, <2>1, <2>2
<1> QED BY <1>1, <1>5, <1>6

\* The next message of the packet finds what has been stored.
LEMMA NextIsStored ==
    ASSUME UniqueIds, IInv, Flow, NEW m \in Arriving, wire' = Tail(wire), Fragment(m),
           Opened(m).tables, slots' = [slots EXCEPT ![SlotFor(m)] = Stored(m)],
           UNCHANGED <<packets, lossy, parser>>
    PROVE  FrontIsStored'
<1> DEFINE s == SlotFor(m)
           e == Stored(m)
<1>1. m.fragment /\ m.total <= MAX_FRAGMENTS /\ parser = "ready"
  BY DEF Fragment
<1>2. e.active /\ e.id = m.id /\ e.tables
  <2>1. Pure(e) /\ e.born = m.frame
    BY <1>1, StoredPure
  <2>2. e.id = m.id
    BY <2>1, ArrivingPure DEF Pure
  <2>3. e.active
    BY ArrivingType, StoredType DEF IInv
  <2> QED BY <1>1, <2>2, <2>3, StoredAdds
<1>3. s \in Slot /\ DOMAIN slots = Slot
  BY SlotForType DEF IInv, TypeOK
<1> HIDE DEF e, s
<1>4. slots'[s] = e /\ \A i \in Slot : i # s => slots'[i] = slots[i]
  BY <1>3 DEF e, s
<1> DEFINE H == {i \in Slot : slots'[i].active /\ slots'[i].id = m.id}
<1>5. H # {} /\ First(H) = s
  <2>1. CASE Holding(m.id) # {}
    <3>1. s \in Holding(m.id) /\ s = First(Holding(m.id))
      BY <2>1, FirstInSet DEF SlotFor, Holding, s
    <3>2. H = Holding(m.id)
      BY <1>2, <1>3, <1>4, <3>1 DEF Holding
    <3> QED BY <3>1, <3>2
  <2>2. CASE Holding(m.id) = {}
    <3>1. H = {s}
      BY <1>2, <1>3, <1>4, <2>2 DEF Holding
    <3>2. First({s}) \in {s}
      BY <1>3, FirstInSet
    <3> QED BY <3>1, <3>2
  <2> QED BY <2>1, <2>2
<1>6. ASSUME NEW w \in Arriving', w.index > 0, w.frame \notin lossy
      PROVE  H # {} /\ slots'[First(H)].tables /\ DOMAIN slots'[First(H)].got = 0..(w.index - 1) /\ w.id = m.id
  <2>1. w.frame = m.frame /\ w.index = m.index + 1 /\ w = wire'[1] /\ 1 \in DOMAIN wire'
    <3>1. w.index # 0
      BY <1>6
    <3> QED BY <3>1, Behind
  <2>2. PICK i \in DOMAIN wire : w = wire[i]
    BY <2>1, Behind
  <2>3. w.id = m.id
    BY <2>1, <2>2, ArrivingPure DEF IInv, WirePure
  <2>4. m.index \in Nat
    BY ArrivingType DEF IInv, Message
  <2>5. DOMAIN e.got = 0..m.index
    BY <1>6, <2>1, FrontStored DEF e
  <2>6. w.index - 1 = m.index
    BY <2>1, <2>4
  <2> QED BY <1>2, <1>4, <1>5, <2>3, <2>5, <2>6
<1> QED BY <1>6 DEF FrontIsStored, Holding

\* When no chunk of the packet at the front is still to come, or it is lossy.
LEMMA NextIsFirst ==
    ASSUME IInv, Flow, NEW m \in Arriving, wire' = Tail(wire), UNCHANGED <<packets, parser>>,
           \/ parser # "ready"
           \/ m.frame \in lossy'
           \/ m.total > MAX_FRAGMENTS
           \/ m.index = m.total - 1
    PROVE  FrontIsStored'
<1>1. SUFFICES ASSUME NEW w \in Arriving', parser = "ready", w.index > 0, w.frame \notin lossy',
                      w.total <= MAX_FRAGMENTS
               PROVE  FALSE
  BY DEF FrontIsStored
<1>2. w.frame = m.frame /\ w = wire'[1] /\ 1 \in DOMAIN wire'
  <2>1. w.index # 0
    BY <1>1
  <2> QED BY <2>1, Behind
<1>3. PICK i \in DOMAIN wire : w = wire[i]
  BY <1>2, Behind
<1>4. w.total = m.total
  BY <1>2, <1>3, ArrivingPure DEF IInv, WirePure
<1>5. m.index # m.total - 1
  <2>1. m.frame \in Nat
    BY ArrivingType DEF IInv, Message
  <2>2. m.index = m.total - 1 => m.frame < wire'[1].frame
    BY <1>2, Behind
  <2> QED BY <1>2, <2>1, <2>2
<1>6. m.total \in Nat
  BY ArrivingType DEF IInv, Message
<1> QED BY <1>1, <1>2, <1>4, <1>5, <1>6, ConstantsAssumption

\* The frame handed over is the one at the front, with its last message.
LEMMA HandedFlow ==
    ASSUME IInv, Flow, NEW m \in Arriving, wire' = Tail(wire), NEW r,
           \/ UNCHANGED handed
           \/ handed' = Append(handed, r) /\ r.meta = m.frame /\ m.index = m.total - 1
    PROVE  HandedBefore'
<1>1. \A h \in DOMAIN handed, i \in DOMAIN wire' : handed[h].meta < wire'[i].frame
  BY Behind DEF Flow, HandedBefore
<1>2. CASE UNCHANGED handed
  BY <1>1, <1>2 DEF HandedBefore
<1>3. CASE handed' = Append(handed, r) /\ r.meta = m.frame /\ m.index = m.total - 1
  <2>1. \A h \in DOMAIN handed' : (h \in DOMAIN handed /\ handed'[h] = handed[h]) \/ handed'[h] = r
    <3>1. PICK T : handed \in Seq(T)
      BY DEF IInv, TypeOK
    <3>2. \A h \in DOMAIN Append(handed, r) :
             (h \in DOMAIN handed /\ Append(handed, r)[h] = handed[h]) \/ Append(handed, r)[h] = r
      BY <3>1
    <3> QED BY <1>3, <3>2
  <2>2. \A i \in DOMAIN wire' : r.meta < wire'[i].frame
    BY <1>3, Behind
  <2> QED BY <1>1, <2>1, <2>2 DEF HandedBefore
<1> QED BY <1>2, <1>3

LEMMA ParseFlow ==
    ASSUME UniqueIds, IInv, Flow, Parse \/ MessageLost
    PROVE  Flow'
<1>1. ASSUME NEW m \in Arriving, wire' = Tail(wire), GotBefore', HandedBefore', FrontIsStored' PROVE Flow'
  BY <1>1, ArrivingType, TailFlow DEF Flow, IInv
<1>2. ASSUME NEW m \in Arriving, wire' = Tail(wire), UNCHANGED slots PROVE GotBefore'
  BY <1>2, Behind DEF Flow, GotBefore
<1>3. ASSUME NEW m \in Arriving, wire' = Tail(wire), UNCHANGED handed PROVE HandedBefore'
  BY <1>3, HandedFlow
<1>4. CASE MessageLost \/ WholeFails
  <2>1. PICK m \in Arriving : wire' = Tail(wire) /\ lossy' = lossy \cup {m.frame}
                              /\ UNCHANGED <<packets, slots, handed, parser>>
    BY <1>4 DEF MessageLost, WholeFails
  <2>2. FrontIsStored'
    BY <2>1, NextIsFirst
  <2> QED BY <1>1, <1>2, <1>3, <2>1, <2>2
<1>5. CASE RejectOversize
  <2>1. PICK m \in Arriving : wire' = Tail(wire) /\ m.total > MAX_FRAGMENTS
                              /\ UNCHANGED <<packets, slots, handed, lossy, parser>>
    BY <1>5 DEF RejectOversize
  <2>2. FrontIsStored'
    BY <2>1, NextIsFirst
  <2> QED BY <1>1, <1>2, <1>3, <2>1, <2>2
<1>6. CASE ParseWhole
  <2>1. PICK m \in Arriving :
          /\ ~m.fragment /\ wire' = Tail(wire) /\ UNCHANGED <<packets, slots, lossy, parser>>
          /\ handed' = Append(handed, [meta |-> m.frame, parts |-> <<m.frame>>])
    BY <1>6 DEF ParseWhole
  <2>2. m.index = m.total - 1
    <3>1. m.total \in Nat /\ ~(m.total > 1) /\ m.index \in 0..(m.total - 1)
      BY <2>1, ArrivingType, ArrivingPure DEF IInv, Message
    <3> QED BY <3>1
  <2>3. HandedBefore' /\ FrontIsStored'
    BY <2>1, <2>2, HandedFlow, NextIsFirst
  <2> QED BY <1>1, <1>2, <2>1, <2>3
<1>7. CASE StoreFragment
  <2>1. PICK m \in Arriving :
          /\ Fragment(m) /\ Opened(m).tables /\ wire' = Tail(wire)
          /\ slots' = [slots EXCEPT ![SlotFor(m)] = Stored(m)]
          /\ UNCHANGED <<packets, handed, lossy, parser>>
    BY <1>7 DEF StoreFragment
  <2>2. Stored(m).born = m.frame /\ \A j \in DOMAIN Stored(m).got : j \in 0..m.index
    <3>1. m.fragment /\ m.index \in Nat
      BY <2>1, ArrivingType DEF Fragment, IInv, Message
    <3> QED BY <3>1, StoredPure, StoredAdds, OpenedBefore
  <2>3. GotBefore' /\ FrontIsStored'
    BY <2>1, <2>2, SlotFlow, NextIsStored
  <2> QED BY <1>1, <1>3, <2>1, <2>3
<1>8. CASE CompleteFrame \/ ResultFails
  <2>1. PICK m \in Arriving :
          /\ m.fragment /\ Complete(Stored(m)) /\ wire' = Tail(wire)
          /\ slots' = [slots EXCEPT ![SlotFor(m)] = Free] /\ UNCHANGED <<packets, parser>>
          /\ UNCHANGED handed \/ handed' = Append(handed, Reassembled(Stored(m)))
    BY <1>8 DEF CompleteFrame, ResultFails, Fragment
  <2>2. m.index = m.total - 1
    BY <2>1, StoredAdds
  <2>3. Reassembled(Stored(m)).meta = m.frame
    BY <2>1, ArrivingType, StoredType, StoredPure, ReassembledIsPacket DEF IInv, IsPacket
  <2>4. HandedBefore' /\ FrontIsStored'
    BY <2>1, <2>2, <2>3, HandedFlow, NextIsFirst
  <2>5. GotBefore'
    BY <2>1, SlotFlow DEF Free
  <2> QED BY <1>1, <2>1, <2>4, <2>5
<1>9. CASE ChunkFails
  <2>1. PICK m \in Arriving :
          /\ m.fragment /\ wire' = Tail(wire) /\ slots' = [slots EXCEPT ![SlotFor(m)] = Described(m)]
          /\ lossy' = lossy \cup {m.frame} /\ UNCHANGED <<packets, handed, parser>>
    BY <1>9 DEF ChunkFails, Fragment
  <2>2. Described(m).born = m.frame /\ \A j \in DOMAIN Described(m).got : j \in 0..m.index
    <3>1. m \in Message /\ m.index \in Nat
      BY ArrivingType DEF IInv, Message
    <3>2. \A j \in DOMAIN Opened(m).got : j \in 0..(m.index - 1)
      BY <2>1, OpenedBefore
    <3>3. Described(m).got = Opened(m).got
      BY <3>1, DescribedKeeps DEF IInv
    <3> QED BY <2>1, <3>1, <3>2, <3>3, DescribedPure
  <2>3. GotBefore' /\ FrontIsStored'
    BY <2>1, <2>2, SlotFlow, NextIsFirst
  <2> QED BY <1>1, <1>3, <2>1, <2>3
<1>10. CASE TablesFail
  <2>1. PICK m \in Arriving :
          /\ wire' = Tail(wire) /\ slots' = [slots EXCEPT ![SlotFor(m)] = Fresh(m, FALSE)]
          /\ lossy' = lossy \cup {m.frame} /\ UNCHANGED <<packets, handed, parser>>
    BY <1>10 DEF TablesFail
  <2>2. Fresh(m, FALSE).born = m.frame /\ DOMAIN Fresh(m, FALSE).got = {}
    BY DEF Fresh
  <2>3. GotBefore' /\ FrontIsStored'
    BY <2>1, <2>2, SlotFlow, NextIsFirst
  <2> QED BY <1>1, <1>3, <2>1, <2>3
<1>11. CASE MissingTable
  BY <1>11 DEF MissingTable, Flow, WireOrder, WireWhole, GotBefore, HandedBefore, FrontIsStored
<1> QED BY <1>4, <1>5, <1>6, <1>7, <1>8, <1>9, <1>10, <1>11 DEF Parse

----------------------------------------------------------------------------
(* The inductive invariant, and what follows from it.                      *)

LEMMA InitFlow == Init => Flow /\ ReceivedIsHanded
BY DEF Init, Flow, WireOrder, WireWhole, GotBefore, HandedBefore, FrontIsStored, Arriving, Free, ReceivedIsHanded

LEMMA StepFlow ==
    ASSUME UniqueIds, IInv, Flow, [Next]_vars
    PROVE  Flow'
<1>1. CASE SendElsewhere
  BY <1>1 DEF SendElsewhere, Flow, WireOrder, WireWhole, GotBefore, HandedBefore, FrontIsStored, Arriving, Holding
<1>2. CASE Destroy
  <2>1. UNCHANGED <<packets, wire, handed, lossy>> /\ parser' # "ready" /\ \A s \in Slot : ~slots'[s].active
    BY <1>2 DEF Destroy, Free
  <2> QED BY <2>1 DEF Flow, WireOrder, WireWhole, GotBefore, HandedBefore, FrontIsStored
<1>3. CASE UNCHANGED vars
  BY <1>3 DEF vars, Flow, WireOrder, WireWhole, GotBefore, HandedBefore, FrontIsStored, Arriving, Holding
<1> QED BY <1>1, <1>2, <1>3, SendFlow, ParseFlow DEF Next

\* What has been handed over stays so, and sizes do not change.
LEMMA HandedKept ==
    ASSUME IInv, [Next]_vars, NEW k \in DOMAIN packets
    PROVE  /\ k \in DOMAIN packets' /\ packets'[k] = packets[k]
           /\ Handed(k) => Handed(k)'
           /\ lossy \subseteq lossy'
<1>1. k \in DOMAIN packets' /\ packets'[k] = packets[k]
  <2>1. UNCHANGED packets \/ \E n \in Nat : packets' = Append(packets, n)
    BY ConstantsAssumption DEF Next, Parse, SendPacket, SendElsewhere, MessageLost, ParseWhole, WholeFails, RejectOversize,
           StoreFragment, CompleteFrame, ChunkFails, ResultFails, TablesFail, MissingTable, Destroy, vars
  <2>2. packets \in Seq(Nat)
    BY DEF IInv, TypeOK
  <2> QED BY <2>1, <2>2, AppendKeeps
<1>2. UNCHANGED handed \/ \E r : handed' = Append(handed, r)
  BY DEF Next, Parse, SendPacket, SendElsewhere, MessageLost, ParseWhole, WholeFails, RejectOversize,
         StoreFragment, CompleteFrame, ChunkFails, ResultFails, TablesFail, MissingTable, Destroy, vars
<1>3. \A i \in DOMAIN handed : i \in DOMAIN handed' /\ handed'[i] = handed[i]
  <2>1. PICK T : handed \in Seq(T)
    BY DEF IInv, TypeOK
  <2>2. \A r : \A i \in DOMAIN handed : i \in DOMAIN Append(handed, r) /\ Append(handed, r)[i] = handed[i]
    BY <2>1, AppendKeeps
  <2> QED BY <1>2, <2>2
<1>4. Handed(k) => Handed(k)'
  BY <1>1, <1>3 DEF Handed, IsPacket
<1>5. lossy \subseteq lossy'
  BY DEF Next, Parse, SendPacket, SendElsewhere, MessageLost, ParseWhole, WholeFails, RejectOversize,
         StoreFragment, CompleteFrame, ChunkFails, ResultFails, TablesFail, MissingTable, Destroy, vars
<1> QED BY <1>1, <1>4, <1>5

\* A packet leaves the wire with its last message, and is then handed over.
LEMMA LastIsHanded ==
    ASSUME UniqueIds, IInv, IInv', Flow, NEW m \in Arriving, wire' = Tail(wire),
           Parse \/ MessageLost, parser' = "ready", m.frame \notin lossy', m.total <= MAX_FRAGMENTS,
           m.index = m.total - 1
    PROVE  Handed(m.frame)'
<1>1. /\ wire # <<>> /\ \A a \in Arriving : a = m
  BY DEF Arriving
<1>2. UNCHANGED packets /\ m.frame \in DOMAIN packets /\ m.total = packets[m.frame]
  BY ArrivingPure DEF Parse, MessageLost, ParseWhole, WholeFails, RejectOversize,
         StoreFragment, CompleteFrame, ChunkFails, ResultFails, TablesFail, MissingTable
<1>3. ~MessageLost /\ ~WholeFails /\ ~ChunkFails /\ ~ResultFails /\ ~TablesFail /\ ~MissingTable
  BY <1>1 DEF MessageLost, WholeFails, ChunkFails, ResultFails, TablesFail, MissingTable
<1>4. ~RejectOversize
  <2>1. m.total \in Nat
    BY ArrivingType DEF IInv, Message
  <2> QED BY <1>1, <2>1, ConstantsAssumption DEF RejectOversize
<1>5. ASSUME NEW r, handed' = Append(handed, r), IsPacket(r, m.frame)
      PROVE  Handed(m.frame)'
  <2>1. Len(handed) + 1 \in DOMAIN handed' /\ handed'[Len(handed) + 1] = r
    BY <1>5 DEF IInv, TypeOK
  <2> QED BY <1>2, <1>5, <2>1 DEF Handed, IsPacket
<1>6. CASE ParseWhole
  <2>1. ~m.fragment /\ handed' = Append(handed, [meta |-> m.frame, parts |-> <<m.frame>>])
    BY <1>1, <1>6 DEF ParseWhole
  <2>2. packets[m.frame] = 1
    <3>1. m.total \in Nat /\ ~(m.total > 1) /\ m.index \in 0..(m.total - 1)
      BY <2>1, ArrivingType, ArrivingPure DEF IInv, Message
    <3> QED BY <1>2, <3>1
  <2>3. <<m.frame>> = [i \in 1..1 |-> m.frame]
    OBVIOUS
  <2>4. IsPacket([meta |-> m.frame, parts |-> <<m.frame>>], m.frame)
    BY <1>2, <2>2, <2>3 DEF IsPacket
  <2> QED BY <1>5, <2>1, <2>4
<1>7. CASE StoreFragment
  <2>1. Fragment(m) /\ Opened(m).tables /\ ~Complete(Stored(m)) /\ lossy' = lossy
    BY <1>1, <1>7 DEF StoreFragment
  <2> QED BY <2>1, FrontStored DEF Fragment
<1>8. CASE CompleteFrame
  <2>1. m.fragment /\ Complete(Stored(m)) /\ handed' = Append(handed, Reassembled(Stored(m)))
    BY <1>1, <1>8 DEF CompleteFrame, Fragment
  <2>2. IsPacket(Reassembled(Stored(m)), m.frame)
    BY <2>1, ArrivingType, StoredType, StoredPure, ReassembledIsPacket DEF IInv
  <2> QED BY <1>5, <2>1, <2>2
<1> QED BY <1>3, <1>4, <1>6, <1>7, <1>8 DEF Parse

LEMMA StepReceived ==
    ASSUME UniqueIds, IInv, Flow, ReceivedIsHanded, [Next]_vars
    PROVE  ReceivedIsHanded'
<1>1. IInv'
  BY StepInv
<1>2. SUFFICES ASSUME parser' = "ready", NEW k \in DOMAIN packets', packets'[k] > 0, ~OnWire(k)',
                      k \notin lossy', packets'[k] <= MAX_FRAGMENTS
               PROVE  Handed(k)'
  BY DEF ReceivedIsHanded, Received
<1>3. parser = "ready"
  BY <1>2 DEF Next, Parse, SendPacket, SendElsewhere, MessageLost, ParseWhole, WholeFails, RejectOversize,
         StoreFragment, CompleteFrame, ChunkFails, ResultFails, TablesFail, MissingTable, Destroy, vars
<1>4. CASE k \in DOMAIN packets /\ ~OnWire(k)
  BY <1>2, <1>3, <1>4, HandedKept DEF ReceivedIsHanded, Received
<1>5. CASE k \in DOMAIN packets /\ OnWire(k)
  <2>1. PICK i \in DOMAIN wire : wire[i].frame = k
    BY <1>5 DEF OnWire
  <2>2. ASSUME SendPacket PROVE FALSE
    <3>1. PICK n \in Nat \ {0} :
             /\ DOMAIN wire' = 1..(Len(wire) + n) /\ DOMAIN wire = 1..Len(wire) /\ Len(wire) \in Nat
             /\ \A j \in 1..(Len(wire) + n) : j <= Len(wire) => wire'[j] = wire[j]
      BY <2>2, SentIs
    <3>2. i \in DOMAIN wire' /\ wire'[i] = wire[i]
      BY <3>1
    <3> QED BY <1>2, <2>1, <3>2 DEF OnWire
  <2>3. UNCHANGED wire => OnWire(k)'
    BY <2>1 DEF OnWire
  <2>4. Parse \/ MessageLost
    BY <1>2, <2>2, <2>3 DEF Next, SendElsewhere, Destroy, vars
  <2>5. \E m \in Arriving : wire' = Tail(wire)
    BY <1>2, <2>3, <2>4 DEF Parse, MessageLost, ParseWhole, WholeFails, RejectOversize,
         StoreFragment, CompleteFrame, ChunkFails, ResultFails, TablesFail, MissingTable
  <2>6. PICK m \in Arriving : wire' = Tail(wire)
    BY <2>5
  <2>7. m.frame = k
    BY <1>2, <2>1, <2>6, Behind DEF OnWire
  <2>8. m.index = m.total - 1
    <3>1. m.index # m.total - 1 => 1 \in DOMAIN wire' /\ wire'[1].frame = m.frame
      BY <2>6, Behind
    <3> QED BY <1>2, <2>7, <3>1 DEF OnWire
  <2>9. m.total <= MAX_FRAGMENTS
    <3>1. m.total = packets[k] /\ packets'[k] = packets[k]
      BY <1>5, <2>7, ArrivingPure, HandedKept
    <3> QED BY <1>2, <3>1
  <2> QED BY <1>1, <1>2, <2>4, <2>6, <2>7, <2>8, <2>9, LastIsHanded
<1>6. CASE k \notin DOMAIN packets
  <2>1. SendPacket
    <3>1. \A j : packets' = Append(packets, 0) /\ j \in DOMAIN packets' /\ j \notin DOMAIN packets => packets'[j] = 0
      BY DEF IInv, TypeOK
    <3>2. ~SendElsewhere
      BY <1>2, <1>6, <3>1 DEF SendElsewhere
    <3>3. ~UNCHANGED packets
      BY <1>2, <1>6
    <3> QED BY <3>2, <3>3 DEF Next, Parse, MessageLost, ParseWhole, WholeFails, RejectOversize,
         StoreFragment, CompleteFrame, ChunkFails, ResultFails, TablesFail, MissingTable, Destroy, vars
  <2>2. PICK n \in Nat \ {0} :
           /\ packets' = Append(packets, n)
           /\ DOMAIN wire' = 1..(Len(wire) + n) /\ Len(wire) \in Nat
           /\ \A i \in 1..(Len(wire) + n) : i > Len(wire) => wire'[i].frame = Len(packets) + 1
    BY <2>1, SentIs
  <2>3. k = Len(packets) + 1
    BY <1>2, <1>6, <2>2 DEF IInv, TypeOK
  <2>4. Len(wire) + 1 \in DOMAIN wire' /\ wire'[Len(wire) + 1].frame = k
    BY <2>2, <2>3
  <2> QED BY <1>2, <2>4 DEF OnWire
<1> QED BY <1>4, <1>5, <1>6

\* A packet whose messages all reached the parser, with none lost to a failed
\* allocation, is handed over, whatever incomplete entries fill the table.
THEOREM ReceivedIsHandedHolds ==
    ASSUME UniqueIds
    PROVE  Spec => []ReceivedIsHanded
<1> DEFINE Inv == IInv /\ Flow /\ ReceivedIsHanded
<1>1. Init => Inv
  BY InitInv, InitFlow
<1>2. Inv /\ [Next]_vars => Inv'
  BY StepInv, StepFlow, StepReceived
<1>3. Inv => ReceivedIsHanded
  OBVIOUS
<1> QED BY <1>1, <1>2, <1>3, PTL DEF Spec

LEMMA FlowInvariance ==
    ASSUME UniqueIds
    PROVE  Spec => [](IInv /\ Flow)
<1>1. Init => IInv /\ Flow
  BY InitInv, InitFlow
<1>2. IInv /\ Flow /\ [Next]_vars => (IInv /\ Flow)'
  BY StepInv, StepFlow
<1> QED BY <1>1, <1>2, PTL DEF Spec

----------------------------------------------------------------------------
(* The refinement.                                                         *)

Numbers(s) == [i \in DOMAIN s |-> IF IsPacket(s[i], s[i].meta) THEN s[i].meta ELSE 0]
Metas(s) == [i \in DOMAIN s |-> s[i].meta]

\* What is handed over are packets, so FrameDelivery sees their numbers.
LEMMA NumbersAreMetas ==
    /\ FramesIntact => Numbers(handed) = Metas(handed)
    /\ FramesIntact' => Numbers(handed)' = Metas(handed')
<1>1. ASSUME FramesIntact PROVE Numbers(handed) = Metas(handed)
  <2>1. \A i \in DOMAIN handed : IsPacket(handed[i], handed[i].meta)
    BY <1>1 DEF FramesIntact, IsPacket
  <2> QED BY <2>1 DEF Numbers, Metas
<1>2. ASSUME FramesIntact' PROVE Numbers(handed)' = Metas(handed')
  <2>1. \A i \in DOMAIN handed' : IsPacket(handed[i], handed[i].meta)'
    BY <1>2 DEF FramesIntact, IsPacket
  <2> QED BY <2>1 DEF Numbers, Metas
<1> QED BY <1>1, <1>2

LEMMA MetasAppend ==
    ASSUME NEW T, NEW s \in Seq(T), NEW r
    PROVE  /\ Metas(Append(s, r)) = Append(Metas(s), r.meta)
           /\ DOMAIN Metas(s) = DOMAIN s /\ \A i \in DOMAIN s : Metas(s)[i] = s[i].meta
<1>1. /\ DOMAIN Append(s, r) = 1..(Len(s) + 1) /\ DOMAIN s = 1..Len(s) /\ Len(s) \in Nat
      /\ \A i \in 1..Len(s) : Append(s, r)[i] = s[i]
      /\ Append(s, r)[Len(s) + 1] = r
  OBVIOUS
<1> DEFINE M == [i \in 1..Len(s) |-> s[i].meta]
           A == {s[i].meta : i \in 1..Len(s)}
<1>2. M \in Seq(A) /\ Len(M) = Len(s) /\ Metas(s) = M
  BY <1>1 DEF Metas
<1>3. /\ DOMAIN Append(M, r.meta) = 1..(Len(s) + 1)
      /\ \A i \in 1..Len(s) : Append(M, r.meta)[i] = s[i].meta
      /\ Append(M, r.meta)[Len(s) + 1] = r.meta
  <2>1. \A i \in 1..Len(s) : M[i] = s[i].meta
    OBVIOUS
  <2> HIDE DEF M, A
  <2> QED BY <1>1, <1>2, <2>1
<1>4. Append(M, r.meta) = [i \in 1..(Len(s) + 1) |-> Append(M, r.meta)[i]]
  <2> HIDE DEF M, A
  <2> QED BY <1>2, <1>3
<1>5. Metas(Append(s, r)) = [i \in 1..(Len(s) + 1) |-> Append(s, r)[i].meta]
  BY <1>1 DEF Metas
<1>6. \A i \in 1..(Len(s) + 1) : Append(M, r.meta)[i] = Append(s, r)[i].meta
  <2> HIDE DEF M
  <2> QED BY <1>1, <1>3
<1>7. Metas(Append(s, r)) = Append(M, r.meta)
  <2> HIDE DEF M, A
  <2> QED BY <1>4, <1>5, <1>6
<1> QED BY <1>2, <1>7 DEF Metas

\* The refinement: a frame the parser calls complete is handed over with its
\* packet's number, above all before it; nothing else changes what was.
THEOREM DeliveryHolds ==
    ASSUME UniqueIds
    PROVE  Spec => DeliverySpec
<1>1. Init => Delivery!Init
  BY DEF Init, Delivery!Init
<1>2. IInv /\ Flow /\ IInv' /\ [Next]_vars => [Delivery!Next]_<<Len(packets), Numbers(handed)>>
  <2> SUFFICES ASSUME IInv, Flow, IInv', [Next]_vars
               PROVE  [Delivery!Next]_<<Len(packets), Numbers(handed)>>
    OBVIOUS
  <2> USE DEF Delivery!Next, Delivery!Issue, Delivery!Hand
  <2>1. Numbers(handed) = Metas(handed) /\ Numbers(handed)' = Metas(handed')
    BY NumbersAreMetas DEF IInv
  <2>2. Delivery!Next <=>
          \/ Len(packets') = Len(packets) + 1 /\ Numbers(handed)' = Numbers(handed)
          \/ /\ \E k \in 1..Len(packets) :
                   /\ \A i \in DOMAIN Numbers(handed) : Numbers(handed)[i] < k
                   /\ Numbers(handed)' = Append(Numbers(handed), k)
             /\ UNCHANGED Len(packets)
    BY DEF Numbers
  <2>3. CASE SendPacket \/ SendElsewhere
    <3>1. UNCHANGED handed /\ \E n \in Nat : packets' = Append(packets, n)
      BY <2>3, ConstantsAssumption DEF SendPacket, SendElsewhere
    <3>2. Len(packets') = Len(packets) + 1
      BY <3>1 DEF IInv, TypeOK
    <3> QED BY <2>1, <2>2, <3>1, <3>2
  <2>4. CASE ParseWhole \/ CompleteFrame
    <3>1. \E m \in Arriving : \E r : handed' = Append(handed, r) /\ r.meta = m.frame /\ UNCHANGED packets
      <4>1. CASE ParseWhole
        BY <4>1 DEF ParseWhole
      <4>2. CASE CompleteFrame
        <5>1. PICK m \in Arriving : /\ m.fragment /\ Complete(Stored(m)) /\ UNCHANGED packets
                                    /\ handed' = Append(handed, Reassembled(Stored(m)))
          BY <4>2 DEF CompleteFrame, Fragment
        <5>2. Reassembled(Stored(m)).meta = m.frame
          BY <5>1, ArrivingType, StoredType, StoredPure, ReassembledIsPacket DEF IInv, IsPacket
        <5> QED BY <5>1, <5>2
      <4> QED BY <2>4, <4>1, <4>2
    <3>2. PICK m \in Arriving : \E r : handed' = Append(handed, r) /\ r.meta = m.frame /\ UNCHANGED packets
      BY <3>1
    <3>3. /\ Metas(handed') = Append(Metas(handed), m.frame)
          /\ DOMAIN Metas(handed) = DOMAIN handed /\ \A i \in DOMAIN handed : Metas(handed)[i] = handed[i].meta
      <4>1. PICK T : handed \in Seq(T)
        BY DEF IInv, TypeOK
      <4>2. /\ \A r : Metas(Append(handed, r)) = Append(Metas(handed), r.meta)
            /\ DOMAIN Metas(handed) = DOMAIN handed /\ \A i \in DOMAIN handed : Metas(handed)[i] = handed[i].meta
        BY <4>1, MetasAppend
      <4> QED BY <3>2, <4>2
    <3>4. wire # <<>> /\ m = wire[1] /\ 1 \in DOMAIN wire
      BY HeadOf DEF Arriving, IInv, TypeOK
    <3>5. \A i \in DOMAIN handed : handed[i].meta < m.frame
      BY <3>4 DEF Flow, HandedBefore
    <3>6. m.frame \in 1..Len(packets)
      BY ArrivingPure, PacketNumbers
    <3> QED BY <2>1, <2>2, <3>2, <3>3, <3>5, <3>6
  <2>5. CASE UNCHANGED <<packets, handed>>
    BY <2>1, <2>5
  <2> QED BY <2>3, <2>4, <2>5 DEF Next, Parse, MessageLost, WholeFails, RejectOversize,
         StoreFragment, ChunkFails, ResultFails, TablesFail, MissingTable, Destroy, vars
<1>3. Spec => [](IInv /\ Flow)
  BY FlowInvariance
<1>4. DeliverySpec <=> Delivery!Init /\ [][Delivery!Next]_<<Len(packets), Numbers(handed)>>
  BY DEF DeliverySpec, Delivery!Spec, Numbers
<1> QED BY <1>1, <1>2, <1>3, <1>4, PTL DEF Spec

============================================================================
