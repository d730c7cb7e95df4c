----------------------------- MODULE MCSpscRing -----------------------------
(* SpscRing for TLC: four slots and two waveforms, so that the ring fills, *)
(* empties and wraps around with every mix of contents.                    *)
EXTENDS SpscRing

CONSTANTS w1, w2

MCItems == {w1, w2}
=============================================================================
