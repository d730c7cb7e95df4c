---------------------------- MODULE BoundedFifo ----------------------------
(***************************************************************************)
(* What the waveform ring of Threads/RingBuffer.h promises its two users:  *)
(* a FIFO of at most Bound items between one producer and one consumer.    *)
(* The two sides learn of each other's steps late (the index loads of the  *)
(* code may return an old value), so an item may be accepted and not yet   *)
(* visible to the consumer, and a slot freed and not yet visible to the    *)
(* producer.  Nothing else may go wrong: no item is lost, duplicated or    *)
(* reordered, and a push is refused only when every slot is taken as far   *)
(* as the producer can know.                                               *)
(***************************************************************************)
EXTENDS Naturals, Sequences

CONSTANTS Items,      \* what can be pushed
          Bound,      \* most items the channel holds
          NoItem      \* result before the first push or pop

VARIABLES q,          \* accepted and not yet popped, oldest first
          hidden,     \* how many of the newest items the consumer cannot see yet
          held,       \* slots freed by the consumer the producer cannot see yet
          pushRes,    \* [item, ok] of the last completed push
          popRes      \* [item, ok] of the last completed pop

vars == <<q, hidden, held, pushRes, popRes>>

Nothing == [item |-> NoItem, ok |-> FALSE]

Init == /\ q = << >>
        /\ hidden = 0
        /\ held = 0
        /\ pushRes = Nothing
        /\ popRes = Nothing

Accept(x) == /\ Len(q) + held < Bound
             /\ q' = Append(q, x)
             /\ hidden' = hidden + 1
             /\ pushRes' = [item |-> x, ok |-> TRUE]
             /\ UNCHANGED <<held, popRes>>

Refuse(x) == /\ Len(q) + held = Bound
             /\ pushRes' = [item |-> x, ok |-> FALSE]
             /\ UNCHANGED <<q, hidden, held, popRes>>

Take == /\ hidden < Len(q)
        /\ popRes' = [item |-> Head(q), ok |-> TRUE]
        /\ q' = Tail(q)
        /\ held' = held + 1
        /\ UNCHANGED <<hidden, pushRes>>

FindEmpty == /\ hidden = Len(q)
             /\ popRes' = Nothing
             /\ UNCHANGED <<q, hidden, held, pushRes>>

ShowItem == /\ hidden > 0
            /\ hidden' = hidden - 1
            /\ UNCHANGED <<q, held, pushRes, popRes>>

ShowSlot == /\ held > 0
            /\ held' = held - 1
            /\ UNCHANGED <<q, hidden, pushRes, popRes>>

Next == \/ \E x \in Items : Accept(x) \/ Refuse(x)
        \/ Take \/ FindEmpty \/ ShowItem \/ ShowSlot

Spec == Init /\ [][Next]_vars
=============================================================================
