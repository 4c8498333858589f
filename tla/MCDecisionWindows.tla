------------------------- MODULE MCDecisionWindows --------------------------
(* One minute of two clock steps; a window evaluated at minute 0 (or 1) and *)
(* executed three minutes later; a lease of two minutes.                    *)
EXTENDS DecisionWindows, TLC

CONSTANTS s1, s2, w1, w2

MCEvalAt == [w \in Windows |-> IF w = w1 THEN 0 ELSE 2]
MCExecAt == [w \in Windows |-> IF w = w1 THEN 6 ELSE 8]

SchedulerSymmetry == Permutations(Schedulers)
=============================================================================
