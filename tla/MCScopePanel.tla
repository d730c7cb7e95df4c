---------------------------- MODULE MCScopePanel -----------------------------
(* ScopePanel for TLC: good answers, and one without XINCR and with a YMULT *)
(* out of range                                                             *)
EXTENDS ScopePanel

MCShortcomings == { [missing |-> {}, range |-> {}],
                    [missing |-> {"xIncr"}, range |-> {"yMult"}] }
MCSteps == <<1, 2, 5, 10, 20, 50, 100, 200>>
MCTyped == {0, 7, 300, 1500}

\* Bounds: the rate is only played with before the first connection, since it
\* shares nothing with the waveforms; no answer is bad while the connect thread runs.
RateAtRest == interval = 0 /\ text = 0 /\ ~focus

MCNext == /\ Next
          /\ (settings = 0 \/ RateAtRest)'
          /\ connPc # "off" /\ errno' => errno
MCSpec == Init /\ [][MCNext]_vars
=============================================================================
