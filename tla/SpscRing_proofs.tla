-------------------------- MODULE SpscRing_proofs --------------------------
(***************************************************************************)
(* Proofs about the waveform ring for every capacity and every set of      *)
(* waveforms.  The invariant says that going round from tailSeen one meets *)
(* tail, headSeen and head in that order, that each side's copies of its   *)
(* own index are current while it works, and that every slot from tail to  *)
(* head holds a waveform.                                                  *)
(***************************************************************************)
EXTENDS SpscRing, SequenceTheorems, TLAPS

USE CapacityAssumption, NoItemAssumption

-----------------------------------------------------------------------------
(* The index arithmetic of the ring *)

\* "& kMask" wraps the successor of the last slot to slot 0.
LEMMA IncValue ==
  ASSUME NEW i \in Slots
  PROVE  /\ Inc(i) = (IF i + 1 = Capacity THEN 0 ELSE i + 1)
         /\ Inc(i) \in Slots
<1>1. CASE i + 1 = Capacity
  BY <1>1 DEF Inc, Slots
<1>2. CASE i + 1 # Capacity
  <2>1. i + 1 \in 0 .. Capacity - 1
    BY <1>2 DEF Slots
  <2>2. (i + 1) % Capacity = i + 1
    BY <2>1
  <2> QED BY <1>2, <2>1, <2>2 DEF Inc, Slots
<1> QED BY <1>1, <1>2

\* Distances around the ring.
LEMMA DistRange ==
  ASSUME NEW i \in Slots, NEW j \in Slots
  PROVE  /\ Dist(i, j) \in 0 .. Capacity - 1
         /\ Dist(i, j) = 0 <=> i = j
BY DEF Dist, Slots

\* Advancing the far end lengthens the distance, unless it meets the near end.
LEMMA DistIncRight ==
  ASSUME NEW i \in Slots, NEW j \in Slots, Inc(j) # i
  PROVE  Dist(i, Inc(j)) = Dist(i, j) + 1
BY IncValue DEF Dist, Slots

\* Advancing the near end shortens it, unless both ends are equal.
LEMMA DistIncLeft ==
  ASSUME NEW i \in Slots, NEW j \in Slots, i # j
  PROVE  Dist(Inc(i), j) = Dist(i, j) - 1
BY IncValue DEF Dist, Slots

\* The slot at the distance of j is j, and no nearer place is.
LEMMA SlotOfDist ==
  ASSUME NEW i \in Slots, NEW j \in Slots
  PROVE  /\ Slot(i, Dist(i, j)) = j
         /\ \A k \in 0 .. Dist(i, j) - 1 : Slot(i, k) \in Slots \ {j}
         /\ \A k \in 1 .. Capacity - 1 : Slot(i, k) # i
         /\ Slot(i, 0) = i
BY DEF Dist, Slot, Slots

\* The places seen from the next slot are the later places seen from this one.
LEMMA SlotOfInc ==
  ASSUME NEW i \in Slots, NEW k \in 0 .. Capacity - 2
  PROVE  Slot(Inc(i), k) = Slot(i, k + 1)
BY IncValue DEF Slot, Slots

-----------------------------------------------------------------------------
(* The inductive invariant *)

IndicesInOrder ==
  /\ Dist(tailSeen, tail) + Dist(tail, head) = Dist(tailSeen, head)
  /\ Dist(tail, headSeen) + Dist(headSeen, head) = Dist(tail, head)

ProducerInv ==
  /\ ppc # "idle" => pHead = head /\ pNext = Inc(head) /\ pItem \in Items
  /\ ppc \in {"write", "store"} => pNext # tailSeen
  /\ ppc = "store" => buf[pHead] = pItem

ConsumerInv ==
  /\ cpc # "idle" => cTail = tail
  /\ cpc \in {"read", "store"} => tail # headSeen

FilledInv == \A k \in 0 .. Dist(tail, head) - 1 : Content(Slot(tail, k)) \in Items

\* What a successful Pop has delivered is a waveform somebody pushed.
PopDeliversItem == popRes.ok => popRes.item \in Items

RingInv == /\ TypeOK /\ IndicesInOrder /\ ProducerInv /\ ConsumerInv
           /\ FilledInv /\ PopDeliversItem

\* The invariant in numbers, for arithmetic.
LEMMA DistFacts ==
  ASSUME RingInv
  PROVE  /\ Dist(tailSeen, tail) \in Nat /\ Dist(tail, headSeen) \in Nat
         /\ Dist(headSeen, head) \in Nat /\ Dist(tail, head) \in Nat
         /\ Dist(tailSeen, head) \in Nat
         /\ Dist(tailSeen, tail) + Dist(tail, head) = Dist(tailSeen, head)
         /\ Dist(tail, headSeen) + Dist(headSeen, head) = Dist(tail, head)
         /\ Dist(tail, headSeen) = 0 <=> tail = headSeen
BY DistRange DEF RingInv, TypeOK, IndicesInOrder

\* While Push may write, the next index is free; while Pop reads, the ring is
\* not empty.
LEMMA OwnEnds ==
  ASSUME RingInv
  PROVE  /\ ppc \in {"write", "store"} => Inc(head) # tail
         /\ cpc \in {"read", "store"} => head # tail
<1> USE DEF RingInv, TypeOK
<1>1. ASSUME ppc \in {"write", "store"} PROVE Inc(head) # tail
  <2>1. Inc(head) # tailSeen
    BY <1>1 DEF ProducerInv
  <2>2. Dist(tailSeen, Inc(head)) = Dist(tailSeen, head) + 1
    BY <2>1, DistIncRight
  <2>3. SUFFICES ASSUME Inc(head) = tail PROVE FALSE
    OBVIOUS
  <2> QED BY <2>2, <2>3, DistRange DEF IndicesInOrder
<1>2. ASSUME cpc \in {"read", "store"} PROVE head # tail
  <2>1. tail # headSeen
    BY <1>2 DEF ConsumerInv
  <2> QED BY <2>1, DistRange DEF IndicesInOrder
<1> QED BY <1>1, <1>2

LEMMA RingInit == Init => RingInv
<1> SUFFICES ASSUME Init PROVE RingInv
  OBVIOUS
<1>1. TypeOK
  BY DEF Init, TypeOK, Slots, Nothing
<1>2. Dist(0, 0) = 0
  BY DEF Dist
<1> QED BY <1>1, <1>2 DEF Init, RingInv, IndicesInOrder, ProducerInv, ConsumerInv,
             FilledInv, PopDeliversItem, Nothing

-----------------------------------------------------------------------------
(* What a step does to the items between tail and head *)

\* Push writes outside the filled slots: every item stays what it was.
LEMMA WriteKeepsItems ==
  ASSUME RingInv, PushWriteSlot
  PROVE  \A k \in 0 .. Dist(tail, head) - 1 :
           Content(Slot(tail, k))' = Content(Slot(tail, k))
<1> USE DEF RingInv, TypeOK
<1>1. pHead = head /\ head \in Slots
  BY DEF ProducerInv, PushWriteSlot
<1> SUFFICES ASSUME NEW k \in 0 .. Dist(tail, head) - 1
             PROVE  Content(Slot(tail, k))' = Content(Slot(tail, k))
  OBVIOUS
<1>2. Slot(tail, k) \in Slots \ {head}
  BY SlotOfDist
<1>3. Slot(tail, k)' = Slot(tail, k)
  BY DEF PushWriteSlot, Slot
<1>4. buf'[Slot(tail, k)] = buf[Slot(tail, k)]
  BY <1>1, <1>2 DEF PushWriteSlot
<1> QED BY <1>3, <1>4 DEF Content, PushWriteSlot, consumerVars

\* Pop empties only the slot it copies into out, and out stands for that slot.
LEMMA ReadKeepsItems ==
  ASSUME RingInv, PopReadSlot
  PROVE  \A k \in 0 .. Dist(tail, head) - 1 :
           Content(Slot(tail, k))' = Content(Slot(tail, k))
<1> USE DEF RingInv, TypeOK
<1>1. cTail = tail
  BY DEF ConsumerInv, PopReadSlot
<1> SUFFICES ASSUME NEW k \in 0 .. Dist(tail, head) - 1
             PROVE  Content(Slot(tail, k))' = Content(Slot(tail, k))
  OBVIOUS
<1>2. Slot(tail, k) \in Slots
  BY SlotOfDist
<1>3. Slot(tail, k)' = Slot(tail, k)
  BY DEF PopReadSlot, Slot
<1> QED BY <1>1, <1>2, <1>3 DEF Content, PopReadSlot

\* Publishing head adds the item just written after the others.
LEMMA StoreHeadAddsItem ==
  ASSUME RingInv, PushStoreHead
  PROVE  /\ Dist(tail, head)' = Dist(tail, head) + 1
         /\ \A k \in 0 .. Dist(tail, head) - 1 :
               Content(Slot(tail, k))' = Content(Slot(tail, k))
         /\ \A k \in {Dist(tail, head)} : Content(Slot(tail, k))' = pItem
<1> USE DEF RingInv, TypeOK
<1>1. /\ pHead = head /\ pNext = Inc(head) /\ buf[head] = pItem
      /\ head' = Inc(head) /\ tail' = tail /\ buf' = buf
      /\ cpc' = cpc /\ cOut' = cOut
  BY DEF ProducerInv, PushStoreHead, consumerVars
<1>2. Inc(head) # tail /\ (cpc = "store" => head # tail)
  BY OwnEnds DEF PushStoreHead
<1>3. Dist(tail, head)' = Dist(tail, head) + 1
  <2>1. Dist(tail, head)' = Dist(tail, Inc(head))
    BY <1>1 DEF Dist
  <2> QED BY <1>2, <2>1, DistIncRight
<1>4. \A k \in 0 .. Dist(tail, head) - 1 :
        Content(Slot(tail, k))' = Content(Slot(tail, k))
  BY <1>1 DEF Content, Slot
<1>5. Slot(tail, Dist(tail, head)) = head /\ tail # Inc(head)
  BY <1>2, SlotOfDist
<1>6. ASSUME NEW k \in {Dist(tail, head)}
      PROVE  Content(Slot(tail, k))' = pItem
  <2>1. Slot(tail, k)' = head
    BY <1>1, <1>5 DEF Slot
  <2> QED BY <1>1, <1>2, <2>1 DEF Content
<1> QED BY <1>3, <1>4, <1>6

\* Publishing tail drops the oldest item, the one in out.
LEMMA StoreTailDropsItem ==
  ASSUME RingInv, PopStoreTail
  PROVE  /\ Dist(tail, head)' = Dist(tail, head) - 1
         /\ Content(Slot(tail, 0)) = cOut
         /\ \A k \in 0 .. Dist(tail, head) - 2 :
               Content(Slot(tail, k))' = Content(Slot(tail, k + 1))
<1> USE DEF RingInv, TypeOK
<1>1. /\ cTail = tail /\ tail' = Inc(tail) /\ head' = head /\ buf' = buf
      /\ cpc = "store" /\ cpc' = "idle" /\ cOut' = cOut
  BY DEF ConsumerInv, PopStoreTail
<1>2. head # tail
  BY <1>1, OwnEnds
<1>3. Dist(tail, head)' = Dist(tail, head) - 1
  <2>1. Dist(tail, head)' = Dist(Inc(tail), head)
    BY <1>1 DEF Dist
  <2> QED BY <1>2, <2>1, DistIncLeft
<1>4. Content(Slot(tail, 0)) = cOut
  BY <1>1, SlotOfDist DEF Content
<1>5. ASSUME NEW k \in 0 .. Dist(tail, head) - 2
      PROVE  Content(Slot(tail, k))' = Content(Slot(tail, k + 1))
  <2>1. k \in 0 .. Capacity - 2 /\ k + 1 \in 1 .. Capacity - 1
    BY DistRange
  <2>2. Slot(tail, k)' = Slot(tail, k + 1)
    <3>1. Slot(tail, k)' = Slot(Inc(tail), k)
      BY <1>1 DEF Slot
    <3> QED BY <2>1, <3>1, SlotOfInc
  <2>3. Slot(tail, k + 1) # tail
    BY <2>1, SlotOfDist
  <2> QED BY <1>1, <2>2, <2>3 DEF Content
<1> QED BY <1>3, <1>4, <1>5
-----------------------------------------------------------------------------
(* Every step keeps the invariant *)

LEMMA ProducerStep ==
  ASSUME RingInv, Producer
  PROVE  RingInv'
<1> USE DEF RingInv, consumerVars
<1>1. ASSUME NEW x \in Items, PushLoadHead(x) PROVE RingInv'
  <2>1. TypeOK'
    BY <1>1, IncValue DEF TypeOK, PushLoadHead
  <2>2. FilledInv'
    BY <1>1 DEF FilledInv, PushLoadHead, Content, Dist, Slot
  <2> QED BY <1>1, <2>1, <2>2
       DEF PushLoadHead, IndicesInOrder, Dist, ProducerInv, ConsumerInv, PopDeliversItem
<1>2. ASSUME PushFull PROVE RingInv'
  <2>1. TypeOK'
    BY <1>2 DEF TypeOK, PushFull
  <2>2. FilledInv'
    BY <1>2 DEF FilledInv, PushFull, Content, Dist, Slot
  <2> QED BY <1>2, <2>1, <2>2
       DEF PushFull, IndicesInOrder, Dist, ProducerInv, ConsumerInv, PopDeliversItem
<1>3. ASSUME PushHasRoom PROVE RingInv'
  <2>1. TypeOK'
    BY <1>3 DEF TypeOK, PushHasRoom
  <2>2. FilledInv'
    BY <1>3 DEF FilledInv, PushHasRoom, Content, Dist, Slot
  <2> QED BY <1>3, <2>1, <2>2
       DEF PushHasRoom, IndicesInOrder, Dist, ProducerInv, ConsumerInv, PopDeliversItem
<1>4. ASSUME PushWriteSlot PROVE RingInv'
  <2>1. TypeOK'
    BY <1>4 DEF TypeOK, PushWriteSlot
  <2>2. FilledInv'
    <3>1. Dist(tail, head)' = Dist(tail, head)
      BY <1>4 DEF PushWriteSlot, Dist
    <3> QED BY <1>4, <3>1, WriteKeepsItems DEF FilledInv
  <2>3. ProducerInv'
    BY <1>4 DEF ProducerInv, PushWriteSlot, TypeOK, Inc
  <2> QED BY <1>4, <2>1, <2>2, <2>3
       DEF PushWriteSlot, IndicesInOrder, Dist, ConsumerInv, PopDeliversItem
<1>5. ASSUME PushStoreHead PROVE RingInv'
  <2>1. /\ head' = Inc(head) /\ Inc(head) # tail /\ Inc(head) # tailSeen
        /\ pItem \in Items
    BY <1>5, OwnEnds DEF PushStoreHead, ProducerInv
  <2>2. TypeOK'
    BY <1>5 DEF TypeOK, PushStoreHead
  <2>3. IndicesInOrder'
    <3>1. /\ Dist(tailSeen, Inc(head)) = Dist(tailSeen, head) + 1
          /\ Dist(tail, Inc(head)) = Dist(tail, head) + 1
      BY <2>1, DistIncRight DEF TypeOK
    <3>2. Inc(head) # headSeen
      <4>1. SUFFICES ASSUME Inc(head) = headSeen PROVE FALSE
        OBVIOUS
      <4>2. Dist(tail, headSeen) = Dist(tail, head) + 1
        BY <3>1, <4>1
      <4> QED BY <4>2, DistRange DEF IndicesInOrder, TypeOK
    <3>3. Dist(headSeen, Inc(head)) = Dist(headSeen, head) + 1
      BY <3>2, DistIncRight DEF TypeOK
    <3>4. /\ Dist(tailSeen, head)' = Dist(tailSeen, Inc(head))
          /\ Dist(tail, head)' = Dist(tail, Inc(head))
          /\ Dist(headSeen, head)' = Dist(headSeen, Inc(head))
          /\ Dist(tailSeen, tail)' = Dist(tailSeen, tail)
          /\ Dist(tail, headSeen)' = Dist(tail, headSeen)
      BY <1>5, <2>1 DEF PushStoreHead, Dist
    <3> QED BY <3>1, <3>3, <3>4, DistRange DEF IndicesInOrder, TypeOK
  <2>4. FilledInv'
    <3>1. SUFFICES ASSUME NEW k \in 0 .. Dist(tail, head)
                   PROVE  Content(Slot(tail, k))' \in Items
      BY <1>5, StoreHeadAddsItem, DistRange DEF FilledInv, TypeOK
    <3>2. CASE k = Dist(tail, head)
      BY <1>5, <2>1, <3>2, StoreHeadAddsItem
    <3>3. CASE k # Dist(tail, head)
      BY <1>5, <3>3, StoreHeadAddsItem, DistRange DEF FilledInv, TypeOK
    <3> QED BY <3>2, <3>3
  <2> QED BY <1>5, <2>2, <2>3, <2>4
       DEF PushStoreHead, ProducerInv, ConsumerInv, PopDeliversItem
<1> QED BY <1>1, <1>2, <1>3, <1>4, <1>5 DEF Producer

LEMMA ConsumerStep ==
  ASSUME RingInv, Consumer
  PROVE  RingInv'
<1> USE DEF RingInv, producerVars
<1>1. ASSUME PopLoadTail PROVE RingInv'
  <2>1. TypeOK'
    BY <1>1 DEF TypeOK, PopLoadTail
  <2>2. FilledInv'
    BY <1>1 DEF FilledInv, PopLoadTail, Content, Dist, Slot
  <2> QED BY <1>1, <2>1, <2>2
       DEF PopLoadTail, IndicesInOrder, Dist, ProducerInv, ConsumerInv, PopDeliversItem
<1>2. ASSUME PopEmpty PROVE RingInv'
  <2>1. TypeOK'
    BY <1>2 DEF TypeOK, PopEmpty, Nothing
  <2>2. FilledInv'
    BY <1>2 DEF FilledInv, PopEmpty, Content, Dist, Slot
  <2> QED BY <1>2, <2>1, <2>2
       DEF PopEmpty, IndicesInOrder, Dist, ProducerInv, ConsumerInv, PopDeliversItem,
           Nothing
<1>3. ASSUME PopHasItem PROVE RingInv'
  <2>1. TypeOK'
    BY <1>3 DEF TypeOK, PopHasItem
  <2>2. FilledInv'
    BY <1>3 DEF FilledInv, PopHasItem, Content, Dist, Slot
  <2> QED BY <1>3, <2>1, <2>2
       DEF PopHasItem, IndicesInOrder, Dist, ProducerInv, ConsumerInv, PopDeliversItem
<1>4. ASSUME PopReadSlot PROVE RingInv'
  <2>1. TypeOK'
    BY <1>4 DEF TypeOK, PopReadSlot
  <2>2. FilledInv'
    <3>1. Dist(tail, head)' = Dist(tail, head)
      BY <1>4 DEF PopReadSlot, Dist
    <3> QED BY <1>4, <3>1, ReadKeepsItems DEF FilledInv
  <2>3. ProducerInv'
    <3>1. ppc = "store" => pHead # cTail
      BY <1>4, OwnEnds DEF PopReadSlot, ProducerInv, ConsumerInv
    <3> QED BY <1>4, <3>1 DEF ProducerInv, PopReadSlot, TypeOK, Inc
  <2> QED BY <1>4, <2>1, <2>2, <2>3
       DEF PopReadSlot, IndicesInOrder, Dist, ConsumerInv, PopDeliversItem
<1>5. ASSUME PopStoreTail PROVE RingInv'
  <2>1. /\ tail' = Inc(tail) /\ tail # head /\ tail # headSeen
    BY <1>5, OwnEnds DEF PopStoreTail, ConsumerInv
  <2>2. Inc(tail) \in Slots /\ cOut \in Items
    <3>1. 0 \in 0 .. Dist(tail, head) - 1
      BY <2>1, DistRange DEF TypeOK
    <3> QED BY <1>5, <3>1, IncValue, StoreTailDropsItem DEF FilledInv, TypeOK
  <2>3. TypeOK'
    BY <1>5, <2>1, <2>2 DEF TypeOK, PopStoreTail
  <2>4. IndicesInOrder'
    <3>1. /\ Dist(Inc(tail), head) = Dist(tail, head) - 1
          /\ Dist(Inc(tail), headSeen) = Dist(tail, headSeen) - 1
      BY <2>1, DistIncLeft DEF TypeOK
    <3>2. Inc(tail) # tailSeen
      <4>1. SUFFICES ASSUME Inc(tail) = tailSeen PROVE FALSE
        OBVIOUS
      <4>2. Dist(tailSeen, head) = Dist(tail, head) - 1
        BY <3>1, <4>1
      <4> QED BY <4>2, DistRange DEF IndicesInOrder, TypeOK
    <3>3. Dist(tailSeen, Inc(tail)) = Dist(tailSeen, tail) + 1
      BY <3>2, DistIncRight DEF TypeOK
    <3>4. /\ Dist(tail, head)' = Dist(Inc(tail), head)
          /\ Dist(tail, headSeen)' = Dist(Inc(tail), headSeen)
          /\ Dist(tailSeen, tail)' = Dist(tailSeen, Inc(tail))
          /\ Dist(tailSeen, head)' = Dist(tailSeen, head)
          /\ Dist(headSeen, head)' = Dist(headSeen, head)
      BY <1>5, <2>1 DEF PopStoreTail, Dist
    <3> QED BY <3>1, <3>3, <3>4, DistRange DEF IndicesInOrder, TypeOK
  <2>5. FilledInv'
    <3>1. SUFFICES ASSUME NEW k \in 0 .. Dist(tail, head) - 2
                   PROVE  Content(Slot(tail, k))' \in Items
      BY <1>5, StoreTailDropsItem, DistRange DEF FilledInv, TypeOK
    <3>2. k + 1 \in 0 .. Dist(tail, head) - 1
      BY DistRange DEF TypeOK
    <3> QED BY <1>5, <3>2, StoreTailDropsItem DEF FilledInv
  <2> QED BY <1>5, <2>2, <2>3, <2>4, <2>5
       DEF PopStoreTail, ProducerInv, ConsumerInv, PopDeliversItem
<1> QED BY <1>1, <1>2, <1>3, <1>4, <1>5 DEF Consumer

LEMMA ShowStep ==
  ASSUME RingInv, ShowHead \/ ShowTail
  PROVE  RingInv'
<1> USE DEF RingInv, producerVars, consumerVars
<1>1. ASSUME ShowHead PROVE RingInv'
  <2>1. TypeOK'
    BY <1>1, IncValue DEF TypeOK, ShowHead
  <2>2. FilledInv'
    BY <1>1 DEF FilledInv, ShowHead, Content, Dist, Slot
  <2>3. Dist(Inc(headSeen), head) = Dist(headSeen, head) - 1
    BY <1>1, DistIncLeft DEF ShowHead, TypeOK
  <2>4. Inc(headSeen) # tail
    <3>1. SUFFICES ASSUME Inc(headSeen) = tail PROVE FALSE
      OBVIOUS
    <3>2. Dist(tail, head) = Dist(headSeen, head) - 1
      BY <2>3, <3>1
    <3> QED BY <3>2, DistRange DEF IndicesInOrder, TypeOK
  <2>5. Dist(tail, Inc(headSeen)) = Dist(tail, headSeen) + 1
    BY <2>4, DistIncRight DEF TypeOK
  <2>6. IndicesInOrder'
    <3>1. /\ Dist(headSeen, head)' = Dist(Inc(headSeen), head)
          /\ Dist(tail, headSeen)' = Dist(tail, Inc(headSeen))
          /\ Dist(tail, head)' = Dist(tail, head)
          /\ Dist(tailSeen, tail)' = Dist(tailSeen, tail)
          /\ Dist(tailSeen, head)' = Dist(tailSeen, head)
      BY <1>1 DEF ShowHead, Dist
    <3> QED BY <2>3, <2>5, <3>1, DistRange DEF IndicesInOrder, TypeOK
  <2>7. ConsumerInv'
    BY <1>1, <2>4 DEF ConsumerInv, ShowHead
  <2> QED BY <1>1, <2>1, <2>2, <2>6, <2>7 DEF ShowHead, ProducerInv, PopDeliversItem
<1>2. ASSUME ShowTail PROVE RingInv'
  <2>1. TypeOK'
    BY <1>2, IncValue DEF TypeOK, ShowTail
  <2>2. FilledInv'
    BY <1>2 DEF FilledInv, ShowTail, Content, Dist, Slot
  <2>3. Dist(Inc(tailSeen), tail) = Dist(tailSeen, tail) - 1
    BY <1>2, DistIncLeft DEF ShowTail, TypeOK
  <2>4. tailSeen # head
    <3>1. SUFFICES ASSUME tailSeen = head PROVE FALSE
      OBVIOUS
    <3>2. Dist(tailSeen, head) = 0
      BY <3>1, DistRange DEF TypeOK
    <3>3. Dist(tailSeen, tail) = 0
      BY <3>2, DistRange DEF IndicesInOrder, TypeOK
    <3> QED BY <1>2, <3>3, DistRange DEF ShowTail, TypeOK
  <2>5. Dist(Inc(tailSeen), head) = Dist(tailSeen, head) - 1
    BY <2>4, DistIncLeft DEF TypeOK
  <2>6. IndicesInOrder'
    <3>1. /\ Dist(tailSeen, tail)' = Dist(Inc(tailSeen), tail)
          /\ Dist(tailSeen, head)' = Dist(Inc(tailSeen), head)
          /\ Dist(tail, head)' = Dist(tail, head)
          /\ Dist(tail, headSeen)' = Dist(tail, headSeen)
          /\ Dist(headSeen, head)' = Dist(headSeen, head)
      BY <1>2 DEF ShowTail, Dist
    <3> QED BY <2>3, <2>5, <3>1, DistRange DEF IndicesInOrder, TypeOK
  <2>7. ProducerInv'
    <3>1. ASSUME ppc \in {"write", "store"} PROVE Inc(head) # Inc(tailSeen)
      <4>1. SUFFICES ASSUME Inc(head) = Inc(tailSeen) PROVE FALSE
        OBVIOUS
      <4> QED BY <2>4, <4>1, IncValue DEF Slots, TypeOK
    <3> QED BY <1>2, <3>1 DEF ProducerInv, ShowTail
  <2> QED BY <1>2, <2>1, <2>2, <2>6, <2>7 DEF ShowTail, ConsumerInv, PopDeliversItem
<1> QED BY <1>1, <1>2

LEMMA StutterStep ==
  ASSUME RingInv, UNCHANGED vars
  PROVE  RingInv'
<1> USE DEF RingInv, vars
<1>1. TypeOK' /\ PopDeliversItem' /\ ConsumerInv' /\ ProducerInv'
  BY DEF TypeOK, PopDeliversItem, ConsumerInv, ProducerInv, Inc
<1>2. IndicesInOrder' /\ FilledInv'
  BY DEF IndicesInOrder, FilledInv, Content, Dist, Slot
<1> QED BY <1>1, <1>2

LEMMA RingStep == RingInv /\ [Next]_vars => RingInv'
BY ProducerStep, ConsumerStep, ShowStep, StutterStep DEF Next

THEOREM RingInvariant == Spec => []RingInv
BY RingInit, RingStep, PTL DEF Spec

-----------------------------------------------------------------------------
(* Safety *)

\* The ring's variables keep their types (RingBuffer.h, all of Push and Pop).
THEOREM TypeCorrect == Spec => []TypeOK
<1>1. RingInv => TypeOK
  BY DEF RingInv
<1> QED BY <1>1, RingInvariant, PTL

\* Push and Pop never access one waveform slot at the same time, whatever the
\* capacity and however late each thread sees the other's index.
THEOREM NoRace == Spec => []NoSlotRace
<1>1. RingInv => NoSlotRace
  BY OwnEnds DEF RingInv, NoSlotRace, ProducerInv, ConsumerInv
<1> QED BY <1>1, RingInvariant, PTL
-----------------------------------------------------------------------------
(* The ring implements the bounded FIFO *)

QueueInv ==
  /\ Queue \in Seq(Items)
  /\ Len(Queue) = Dist(tail, head)
  /\ \A k \in 1 .. Dist(tail, head) : Queue[k] = Content(Slot(tail, k - 1))

LEMMA QueueIsSeq == RingInv => QueueInv
<1> SUFFICES ASSUME RingInv PROVE QueueInv
  OBVIOUS
<1>1. Dist(tail, head) \in Nat
  BY DistRange DEF RingInv, TypeOK
<1>2. ASSUME NEW k \in 1 .. Dist(tail, head)
      PROVE  Content(Slot(tail, k - 1)) \in Items
  <2>1. k - 1 \in 0 .. Dist(tail, head) - 1
    BY <1>1
  <2> QED BY <2>1 DEF RingInv, FilledInv
<1>3. Queue \in [1 .. Dist(tail, head) -> Items]
  BY <1>2 DEF Queue
<1> QED BY <1>1, <1>3 DEF Queue, QueueInv

\* The abstract queue is the same as long as the same items stand in it.
LEMMA QueueKept ==
  ASSUME RingInv, RingInv', Dist(tail, head)' = Dist(tail, head),
         \A k \in 0 .. Dist(tail, head) - 1 :
           Content(Slot(tail, k))' = Content(Slot(tail, k))
  PROVE  Queue' = Queue
<1>1. Dist(tail, head) \in Nat
  BY DistRange DEF RingInv, TypeOK
<1>2. \A k \in 1 .. Dist(tail, head) :
        Content(Slot(tail, k - 1))' = Content(Slot(tail, k - 1))
  <2>1. \A k \in 1 .. Dist(tail, head) : k - 1 \in 0 .. Dist(tail, head) - 1
    BY <1>1
  <2> QED BY <2>1
<1> QED BY <1>2 DEF Queue

\* Steps that leave the filled slots and the indices alone.
LEMMA QueueUntouched ==
  ASSUME RingInv, RingInv', UNCHANGED <<head, tail, buf, cOut>>,
         cpc' = "store" <=> cpc = "store"
  PROVE  Queue' = Queue
<1>1. Dist(tail, head)' = Dist(tail, head)
  BY DEF Dist
<1>2. \A k \in 0 .. Dist(tail, head) - 1 :
        Content(Slot(tail, k))' = Content(Slot(tail, k))
  BY DEF Content, Slot
<1> QED BY <1>1, <1>2, QueueKept

LEMMA QueueIsSeqNext == RingInv' => QueueInv'
BY QueueIsSeq, PTL

LEMMA FifoInit == Init => Fifo!Init
<1> SUFFICES ASSUME Init PROVE Fifo!Init
  OBVIOUS
<1>1. RingInv
  BY RingInit
<1>2. Dist(0, 0) = 0
  BY DEF Dist
<1>3. Queue = << >>
  BY <1>1, <1>2, QueueIsSeq, EmptySeq DEF Init, QueueInv
<1> QED BY <1>2, <1>3 DEF Init, Fifo!Init, Fifo!Nothing, Nothing

LEMMA PushIsAccept ==
  ASSUME RingInv, RingInv', PushStoreHead
  PROVE  Fifo!Accept(pItem)
<1> DEFINE n == Dist(tail, head)
<1> USE DEF RingInv, TypeOK
<1>1. /\ pItem \in Items /\ head' = Inc(head)
      /\ Inc(head) # tail /\ Inc(head) # tailSeen
  BY OwnEnds DEF PushStoreHead, ProducerInv
<1>2. n \in Nat /\ n < Capacity - 1
  <2>1. Dist(tail, Inc(head)) = n + 1
    BY <1>1, DistIncRight
  <2> QED BY <1>1, <2>1, DistRange, IncValue
<1>3. Queue' = Append(Queue, pItem)
  <2>1. /\ Queue \in Seq(Items) /\ Len(Queue) = n
        /\ \A k \in 1 .. n : Queue[k] = Content(Slot(tail, k - 1))
    BY QueueIsSeq DEF QueueInv
  <2>2. /\ Queue' \in Seq(Items) /\ Len(Queue') = n + 1
        /\ \A k \in 1 .. n + 1 : Queue'[k] = Content(Slot(tail, k - 1))'
    BY QueueIsSeqNext, StoreHeadAddsItem DEF QueueInv
  <2>3. ASSUME NEW k \in 1 .. n + 1
        PROVE  Queue'[k] = Append(Queue, pItem)[k]
    <3>1. CASE k = n + 1
      <4>1. Append(Queue, pItem)[k] = pItem
        BY <1>1, <2>1, <3>1, AppendProperties
      <4>2. k - 1 = n
        BY <1>2, <3>1
      <4>3. Content(Slot(tail, k - 1))' = pItem
        BY <4>2, StoreHeadAddsItem
      <4> QED BY <2>2, <4>1, <4>3
    <3>2. CASE k # n + 1
      <4>1. k \in 1 .. n /\ k - 1 \in 0 .. n - 1
        BY <1>2, <3>2
      <4>2. Append(Queue, pItem)[k] = Queue[k]
        BY <1>1, <2>1, <4>1, AppendProperties
      <4>3. Content(Slot(tail, k - 1))' = Content(Slot(tail, k - 1))
        BY <4>1, StoreHeadAddsItem
      <4> QED BY <2>1, <2>2, <4>1, <4>2, <4>3
    <3> QED BY <3>1, <3>2
  <2>4. /\ Append(Queue, pItem) \in Seq(Items)
        /\ Len(Append(Queue, pItem)) = n + 1
    BY <1>1, <2>1, AppendProperties
  <2> QED BY <2>2, <2>3, <2>4, SeqEqual
<1>4. Len(Queue) + Dist(tailSeen, tail) < Capacity - 1
  <2>1. Dist(tailSeen, Inc(head)) = Dist(tailSeen, head) + 1
    BY <1>1, DistIncRight
  <2>2. Dist(tailSeen, head) < Capacity - 1
    BY <1>1, <2>1, DistRange, IncValue
  <2>3. Len(Queue) = Dist(tail, head)
    BY QueueIsSeq DEF QueueInv
  <2> HIDE DEF RingInv, TypeOK
  <2> QED BY <2>2, <2>3, DistFacts
<1>5. Dist(headSeen, head)' = Dist(headSeen, head) + 1
  <2>1. Dist(headSeen, head)' = Dist(headSeen, Inc(head))
    BY <1>1 DEF Dist, PushStoreHead
  <2>2. Inc(head) # headSeen
    <3>1. SUFFICES ASSUME Inc(head) = headSeen PROVE FALSE
      OBVIOUS
    <3>2. Dist(tail, headSeen) = n + 1
      BY <1>1, <3>1, DistIncRight
    <3> QED BY <3>2, DistRange DEF IndicesInOrder
  <2> QED BY <2>1, <2>2, DistIncRight
<1>6. Dist(tailSeen, tail)' = Dist(tailSeen, tail)
  BY DEF Dist, PushStoreHead
<1> QED BY <1>3, <1>4, <1>5, <1>6 DEF Fifo!Accept, PushStoreHead

LEMMA PopIsTake ==
  ASSUME RingInv, RingInv', PopStoreTail
  PROVE  Fifo!Take
<1> DEFINE n == Dist(tail, head)
<1> USE DEF RingInv, TypeOK
<1>1. /\ tail' = Inc(tail) /\ tail # head /\ tail # headSeen
  BY OwnEnds DEF PopStoreTail, ConsumerInv
<1>2. n \in Nat /\ n > 0
  BY <1>1, DistRange
<1>3. /\ Queue \in Seq(Items) /\ Len(Queue) = n
      /\ \A k \in 1 .. n : Queue[k] = Content(Slot(tail, k - 1))
  BY QueueIsSeq DEF QueueInv
<1>4. Queue # << >>
  BY <1>2, <1>3
<1>5. Head(Queue) = cOut
  <2>1. Queue[1] = Content(Slot(tail, 0))
    BY <1>2, <1>3
  <2> QED BY <1>3, <1>4, <2>1, StoreTailDropsItem
<1>6. Queue' = Tail(Queue)
  <2>1. /\ Queue' \in Seq(Items) /\ Len(Queue') = n - 1
        /\ \A k \in 1 .. n - 1 : Queue'[k] = Content(Slot(tail, k - 1))'
    BY QueueIsSeqNext, StoreTailDropsItem DEF QueueInv
  <2>2. /\ Tail(Queue) \in Seq(Items) /\ Len(Tail(Queue)) = n - 1
        /\ \A k \in 1 .. n - 1 : Tail(Queue)[k] = Queue[k + 1]
    BY <1>3, <1>4, HeadTailProperties
  <2>3. ASSUME NEW k \in 1 .. n - 1
        PROVE  Queue'[k] = Tail(Queue)[k]
    <3>1. k - 1 \in 0 .. n - 2 /\ k + 1 \in 1 .. n /\ k = (k - 1) + 1 /\ k = (k + 1) - 1
      BY <1>2
    <3>2. Content(Slot(tail, k - 1))' = Content(Slot(tail, k))
      BY <3>1, StoreTailDropsItem
    <3> QED BY <1>3, <2>1, <2>2, <3>1, <3>2
  <2> QED BY <2>1, <2>2, <2>3, SeqEqual
<1>7. Dist(headSeen, head) < Len(Queue)
  <2> HIDE DEF RingInv, TypeOK
  <2> QED BY <1>1, <1>3, DistFacts
<1>8. Dist(tailSeen, tail)' = Dist(tailSeen, tail) + 1
  <2>1. Dist(tailSeen, tail)' = Dist(tailSeen, Inc(tail))
    BY <1>1 DEF Dist, PopStoreTail
  <2>2. Inc(tail) # tailSeen
    <3>1. SUFFICES ASSUME Inc(tail) = tailSeen PROVE FALSE
      OBVIOUS
    <3>2. Dist(tailSeen, head) = n - 1
      BY <1>1, <3>1, DistIncLeft
    <3> QED BY <3>2, DistRange DEF IndicesInOrder
  <2> QED BY <2>1, <2>2, DistIncRight
<1>9. Dist(headSeen, head)' = Dist(headSeen, head)
  BY DEF Dist, PopStoreTail
<1> QED BY <1>5, <1>6, <1>7, <1>8, <1>9 DEF Fifo!Take, PopStoreTail

\* Every step of the ring is a step of the FIFO or leaves it unchanged.
LEMMA FifoStep ==
  ASSUME RingInv, RingInv', [Next]_vars
  PROVE  [Fifo!Next]_(Fifo!vars)
<1> USE DEF RingInv, TypeOK
<1> DEFINE fifoSame == UNCHANGED <<Queue, Dist(headSeen, head), Dist(tailSeen, tail),
                                   pushRes, popRes>>
<1>1. ASSUME PushStoreHead PROVE [Fifo!Next]_(Fifo!vars)
  BY <1>1, PushIsAccept DEF Fifo!Next, ProducerInv, PushStoreHead
<1>2. ASSUME PopStoreTail PROVE [Fifo!Next]_(Fifo!vars)
  BY <1>2, PopIsTake DEF Fifo!Next
<1>3. ASSUME PushFull PROVE [Fifo!Next]_(Fifo!vars)
  <2>1. UNCHANGED <<Queue, Dist(headSeen, head), Dist(tailSeen, tail)>>
    BY <1>3, QueueUntouched DEF PushFull, consumerVars, Dist
  <2>2. Len(Queue) + Dist(tailSeen, tail) = Capacity - 1
    <3>1. Inc(head) = tailSeen
      BY <1>3 DEF PushFull, ProducerInv
    <3>2. head \in Slots /\ tailSeen = IF head + 1 = Capacity THEN 0 ELSE head + 1
      BY <3>1, IncValue
    <3>3. Dist(tailSeen, head) = Capacity - 1
      BY <3>2 DEF Dist, Slots
    <3>4. Len(Queue) = Dist(tail, head)
      BY QueueIsSeq DEF QueueInv
    <3> HIDE DEF RingInv, TypeOK
    <3> QED BY <3>3, <3>4, DistFacts
  <2>3. pItem \in Items
    BY <1>3 DEF PushFull, ProducerInv
  <2> QED BY <1>3, <2>1, <2>2, <2>3 DEF Fifo!Next, Fifo!Refuse, PushFull
<1>4. ASSUME PopEmpty PROVE [Fifo!Next]_(Fifo!vars)
  <2>1. UNCHANGED <<Queue, Dist(headSeen, head), Dist(tailSeen, tail)>>
    BY <1>4, QueueUntouched DEF PopEmpty, producerVars, Dist
  <2>2. Dist(headSeen, head) = Len(Queue)
    <3>1. Dist(tail, headSeen) = 0
      BY <1>4, DistRange DEF PopEmpty, ConsumerInv
    <3>2. Len(Queue) = Dist(tail, head)
      BY QueueIsSeq DEF QueueInv
    <3> HIDE DEF RingInv, TypeOK
    <3> QED BY <3>1, <3>2, DistFacts
  <2> QED BY <1>4, <2>1, <2>2 DEF Fifo!Next, Fifo!FindEmpty, Fifo!Nothing, Nothing, PopEmpty
<1>5. ASSUME ShowHead PROVE [Fifo!Next]_(Fifo!vars)
  <2>1. Queue' = Queue
    BY <1>5, QueueUntouched DEF ShowHead, consumerVars
  <2>2. Dist(tailSeen, tail)' = Dist(tailSeen, tail)
    BY <1>5 DEF ShowHead, Dist
  <2>3. Dist(headSeen, head)' = Dist(Inc(headSeen), head)
    BY <1>5 DEF ShowHead, Dist
  <2>4. Dist(headSeen, head)' = Dist(headSeen, head) - 1 /\ Dist(headSeen, head) > 0
    BY <1>5, <2>3, DistIncLeft, DistRange DEF ShowHead
  <2> QED BY <1>5, <2>1, <2>2, <2>4 DEF Fifo!Next, Fifo!ShowItem, ShowHead
<1>6. ASSUME ShowTail PROVE [Fifo!Next]_(Fifo!vars)
  <2>1. Queue' = Queue
    BY <1>6, QueueUntouched DEF ShowTail, consumerVars
  <2>2. Dist(headSeen, head)' = Dist(headSeen, head)
    BY <1>6 DEF ShowTail, Dist
  <2>3. Dist(tailSeen, tail)' = Dist(Inc(tailSeen), tail)
    BY <1>6 DEF ShowTail, Dist
  <2>4. Dist(tailSeen, tail)' = Dist(tailSeen, tail) - 1 /\ Dist(tailSeen, tail) > 0
    BY <1>6, <2>3, DistIncLeft, DistRange DEF ShowTail
  <2> QED BY <1>6, <2>1, <2>2, <2>4 DEF Fifo!Next, Fifo!ShowSlot, ShowTail
<1>7. ASSUME \/ \E x \in Items : PushLoadHead(x)
             \/ PushHasRoom \/ PopLoadTail \/ PopHasItem \/ UNCHANGED vars
      PROVE  [Fifo!Next]_(Fifo!vars)
  <2>1. /\ UNCHANGED <<head, tail, headSeen, tailSeen, buf, cOut, pushRes, popRes>>
        /\ cpc' = "store" <=> cpc = "store"
    BY <1>7 DEF PushLoadHead, PushHasRoom, PopLoadTail, PopHasItem, vars,
                producerVars, consumerVars
  <2>2. fifoSame
    BY <2>1, QueueUntouched DEF Dist
  <2> QED BY <2>2 DEF Fifo!vars
<1>8. ASSUME PushWriteSlot PROVE [Fifo!Next]_(Fifo!vars)
  <2>1. UNCHANGED <<head, tail, headSeen, tailSeen, pushRes, popRes>>
    BY <1>8 DEF PushWriteSlot
  <2>2. fifoSame
    BY <1>8, <2>1, QueueKept, WriteKeepsItems DEF Dist
  <2> QED BY <2>2 DEF Fifo!vars
<1>9. ASSUME PopReadSlot PROVE [Fifo!Next]_(Fifo!vars)
  <2>1. UNCHANGED <<head, tail, headSeen, tailSeen, pushRes, popRes>>
    BY <1>9 DEF PopReadSlot
  <2>2. fifoSame
    BY <1>9, <2>1, QueueKept, ReadKeepsItems DEF Dist
  <2> QED BY <2>2 DEF Fifo!vars
<1> QED BY <1>1, <1>2, <1>3, <1>4, <1>5, <1>6, <1>7, <1>8, <1>9
        DEF Next, Producer, Consumer

\* The lock-free ring implements the bounded FIFO of Capacity - 1 waveforms:
\* Push and Pop lose, duplicate and reorder nothing.
THEOREM ImplementsFifo == Spec => FifoSpec
<1>1. RingInv /\ RingInv' /\ [Next]_vars => [Fifo!Next]_(Fifo!vars)
  BY FifoStep
<1> QED BY <1>1, FifoInit, RingInvariant, PTL DEF Spec, FifoSpec, Fifo!Spec
=============================================================================
