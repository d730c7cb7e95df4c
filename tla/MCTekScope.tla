----------------------------- MODULE MCTekScope -----------------------------
(* Two channels and two scales, the first of each being the reset default. *)
EXTENDS TekScope

MCChannels == {1, 2}
MCScales == {10, 20}
=============================================================================
