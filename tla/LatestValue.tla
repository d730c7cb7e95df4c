----------------------------- MODULE LatestValue -----------------------------
(***************************************************************************)
(* What the web side promises about waveforms: a hub holds the current one *)
(* and hands it to readers.  Waveforms are numbered in the order in which  *)
(* they were posted.  The hub may skip some, but it never returns to an    *)
(* older one, and a reader is only ever handed the current one.            *)
(***************************************************************************)
EXTENDS Naturals

CONSTANTS Readers, MaxNewest

VARIABLES newest,    \* number of waveforms posted so far
          current,   \* the one the hub holds, 0 for none
          shown      \* per reader, the one it was handed last, 0 for none

lvVars == <<newest, current, shown>>

Init == /\ newest = 0
        /\ current = 0
        /\ shown = [r \in Readers |-> 0]

Post == /\ newest < MaxNewest
        /\ newest' = newest + 1
        /\ UNCHANGED <<current, shown>>

Publish == /\ \E w \in current..newest : current' = w
           /\ UNCHANGED <<newest, shown>>

Deliver(r) == /\ current # 0
              /\ shown' = [shown EXCEPT ![r] = current]
              /\ UNCHANGED <<newest, current>>

Next == Post \/ Publish \/ \E r \in Readers : Deliver(r)

Spec == Init /\ [][Next]_lvVars

=============================================================================
