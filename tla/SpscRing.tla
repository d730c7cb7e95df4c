------------------------------ MODULE SpscRing ------------------------------
(***************************************************************************)
(* SPSCRingBuffer<DecodedWaveform, 8> of Threads/RingBuffer.h, which hands *)
(* decoded waveforms from the acquisition thread (Push) to the UI timer    *)
(* (Pop).  Every atomic load and store and every slot access is a step of  *)
(* its own.                                                                *)
(*                                                                         *)
(* m_head and m_tail are each written by one thread and loaded by the      *)
(* other with acquire order: a load may return an older value, never one   *)
(* older than a value already returned.  tailSeen and headSeen are the     *)
(* newest values that have reached the other thread; ShowTail and ShowHead *)
(* move them forward, in the order of the stores.                          *)
(***************************************************************************)
EXTENDS Naturals, Sequences

CONSTANTS Items,      \* waveforms, told apart only by identity
          Capacity,   \* template argument of the ring, 8 in the program
          NoItem      \* content of a slot never written or moved from

\* static_assert asks for a power of two so that "& kMask" is "% Capacity";
\* nothing below needs more than two slots.
ASSUME CapacityAssumption == Capacity \in Nat /\ Capacity > 1
ASSUME NoItemAssumption == NoItem \notin Items

VARIABLES
  head, tail,                    \* m_head, m_tail
  headSeen, tailSeen,            \* their newest values visible to the other side
  buf,                           \* m_buf
  ppc, pHead, pNext, pItem,      \* Push: where it stands, head, next, item
  cpc, cTail, cOut,              \* Pop: where it stands, tail, out
  pushRes, popRes                \* [item, ok] of the last finished call

producerVars == <<ppc, pHead, pNext, pItem>>
consumerVars == <<cpc, cTail, cOut>>
vars == <<head, tail, headSeen, tailSeen, buf, ppc, pHead, pNext, pItem,
          cpc, cTail, cOut, pushRes, popRes>>

Slots == 0 .. Capacity - 1
Nothing == [item |-> NoItem, ok |-> FALSE]

\* Mutated form of Inc: the mask forgotten
IncNoMask(i) == i + 1

\* (i + 1) & kMask
Inc(i) == (i + 1) % Capacity

Init ==
  /\ head = 0 /\ tail = 0 /\ headSeen = 0 /\ tailSeen = 0
  /\ buf = [s \in Slots |-> NoItem]
  /\ ppc = "idle" /\ pHead = 0 /\ pNext = 0 /\ pItem = NoItem
  /\ cpc = "idle" /\ cTail = 0 /\ cOut = NoItem
  /\ pushRes = Nothing /\ popRes = Nothing

-----------------------------------------------------------------------------
(* Push, called by the acquisition thread only *)

PushLoadHead(x) ==
  /\ ppc = "idle"
  /\ pItem' = x
  /\ pHead' = head
  /\ pNext' = Inc(head)
  /\ ppc' = "check"
  /\ UNCHANGED <<head, tail, headSeen, tailSeen, buf, consumerVars, pushRes, popRes>>

\* Mutated form of PushFull: the ring taken for full when it is empty
PushFullOnEmpty ==
  /\ ppc = "check"
  /\ pHead = tailSeen
  /\ pushRes' = [item |-> pItem, ok |-> FALSE]
  /\ ppc' = "idle"
  /\ UNCHANGED <<head, tail, headSeen, tailSeen, buf, pHead, pNext, pItem,
                 consumerVars, popRes>>

PushFull ==
  /\ ppc = "check"
  /\ pNext = tailSeen
  /\ pushRes' = [item |-> pItem, ok |-> FALSE]
  /\ ppc' = "idle"
  /\ UNCHANGED <<head, tail, headSeen, tailSeen, buf, pHead, pNext, pItem,
                 consumerVars, popRes>>

\* Mutated form of PushHasRoom: Push overwrites the oldest waveform
PushAlwaysHasRoom ==
  /\ ppc = "check"
  /\ ppc' = "write"
  /\ UNCHANGED <<head, tail, headSeen, tailSeen, buf, pHead, pNext, pItem,
                 consumerVars, pushRes, popRes>>

PushHasRoom ==
  /\ ppc = "check"
  /\ pNext # tailSeen
  /\ ppc' = "write"
  /\ UNCHANGED <<head, tail, headSeen, tailSeen, buf, pHead, pNext, pItem,
                 consumerVars, pushRes, popRes>>

PushWriteSlot ==
  /\ ppc = "write"
  /\ buf' = [buf EXCEPT ![pHead] = pItem]
  /\ ppc' = "store"
  /\ UNCHANGED <<head, tail, headSeen, tailSeen, pHead, pNext, pItem,
                 consumerVars, pushRes, popRes>>

PushStoreHead ==
  /\ ppc = "store"
  /\ head' = pNext
  /\ pushRes' = [item |-> pItem, ok |-> TRUE]
  /\ ppc' = "idle"
  /\ UNCHANGED <<tail, headSeen, tailSeen, buf, pHead, pNext, pItem,
                 consumerVars, popRes>>

-----------------------------------------------------------------------------
(* Pop, called by the UI timer only *)

PopLoadTail ==
  /\ cpc = "idle"
  /\ cTail' = tail
  /\ cpc' = "check"
  /\ UNCHANGED <<head, tail, headSeen, tailSeen, buf, producerVars, cOut,
                 pushRes, popRes>>

PopEmpty ==
  /\ cpc = "check"
  /\ cTail = headSeen
  /\ popRes' = Nothing
  /\ cpc' = "idle"
  /\ UNCHANGED <<head, tail, headSeen, tailSeen, buf, producerVars, cTail, cOut,
                 pushRes>>

PopHasItem ==
  /\ cpc = "check"
  /\ cTail # headSeen
  /\ cpc' = "read"
  /\ UNCHANGED <<head, tail, headSeen, tailSeen, buf, producerVars, cTail, cOut,
                 pushRes, popRes>>

\* out = std::move(m_buf[tail]) leaves a moved-from waveform in the slot
PopReadSlot ==
  /\ cpc = "read"
  /\ cOut' = buf[cTail]
  /\ buf' = [buf EXCEPT ![cTail] = NoItem]
  /\ cpc' = "store"
  /\ UNCHANGED <<head, tail, headSeen, tailSeen, producerVars, cTail,
                 pushRes, popRes>>

\* Mutated form of PopStoreTail: the index not advanced
PopKeepTail ==
  /\ cpc = "store"
  /\ tail' = cTail
  /\ popRes' = [item |-> cOut, ok |-> TRUE]
  /\ cpc' = "idle"
  /\ UNCHANGED <<head, headSeen, tailSeen, buf, producerVars, cTail, cOut, pushRes>>

PopStoreTail ==
  /\ cpc = "store"
  /\ tail' = Inc(cTail)
  /\ popRes' = [item |-> cOut, ok |-> TRUE]
  /\ cpc' = "idle"
  /\ UNCHANGED <<head, headSeen, tailSeen, buf, producerVars, cTail, cOut, pushRes>>

-----------------------------------------------------------------------------
(* A released index reaches the other thread *)

ShowHead ==
  /\ headSeen # head
  /\ headSeen' = Inc(headSeen)
  /\ UNCHANGED <<head, tail, tailSeen, buf, producerVars, consumerVars,
                 pushRes, popRes>>

ShowTail ==
  /\ tailSeen # tail
  /\ tailSeen' = Inc(tailSeen)
  /\ UNCHANGED <<head, tail, headSeen, buf, producerVars, consumerVars,
                 pushRes, popRes>>

-----------------------------------------------------------------------------
Producer == \/ \E x \in Items : PushLoadHead(x)
            \/ PushFull \/ PushHasRoom \/ PushWriteSlot \/ PushStoreHead

Consumer == PopLoadTail \/ PopEmpty \/ PopHasItem \/ PopReadSlot \/ PopStoreTail

Next == Producer \/ Consumer \/ ShowHead \/ ShowTail

\* The UI timer keeps calling Pop, a released value becomes visible in bounded
\* time, and a Push once begun is finished; nothing forces a next Push.
Fairness == /\ WF_vars(Consumer)
            /\ WF_vars(ShowHead)
            /\ WF_vars(ShowTail)
            /\ WF_vars(PushFull \/ PushHasRoom \/ PushWriteSlot \/ PushStoreHead)

Spec == Init /\ [][Next]_vars
FairSpec == Spec /\ Fairness

-----------------------------------------------------------------------------
(* Refinement mapping: the queue held between tail and head *)

\* How far j is ahead of i around the ring
Dist(i, j) == IF i <= j THEN j - i ELSE j + Capacity - i

\* The slot k places after i
Slot(i, k) == IF i + k < Capacity THEN i + k ELSE i + k - Capacity

\* The item in slot s, which Pop may already have moved into out
Content(s) == IF cpc = "store" /\ s = tail THEN cOut ELSE buf[s]

Queue == [k \in 1 .. Dist(tail, head) |-> Content(Slot(tail, k - 1))]

Fifo == INSTANCE BoundedFifo
          WITH Bound <- Capacity - 1, q <- Queue,
               hidden <- Dist(headSeen, head), held <- Dist(tailSeen, tail)

-----------------------------------------------------------------------------
(* Properties *)

\* Every variable keeps its type (Push and Pop of RingBuffer.h).
TypeOK ==
  /\ head \in Slots /\ tail \in Slots
  /\ headSeen \in Slots /\ tailSeen \in Slots
  /\ buf \in [Slots -> Items \cup {NoItem}]
  /\ ppc \in {"idle", "check", "write", "store"}
  /\ pHead \in Slots /\ pNext \in Slots /\ pItem \in Items \cup {NoItem}
  /\ cpc \in {"idle", "check", "read", "store"}
  /\ cTail \in Slots /\ cOut \in Items \cup {NoItem}
  /\ pushRes \in [item : Items \cup {NoItem}, ok : BOOLEAN]
  /\ popRes \in [item : Items \cup {NoItem}, ok : BOOLEAN]

\* The waveform slots are plain memory: Push must never be writing the slot
\* that Pop is reading, although neither takes a lock.
NoSlotRace == ~(ppc = "write" /\ cpc = "read" /\ pHead = cTail)

\* Push and Pop together implement the bounded FIFO: nothing lost, duplicated
\* or reordered, refused only when no slot is known to be free.
FifoSpec == Fifo!Spec

\* The UI reaches everything the acquisition thread has published: if m_head
\* is at i, Pop eventually brings m_tail to i.
EverythingDrained == \A i \in Slots : (head = i) ~> (tail = i)
=============================================================================
