-------------------------- MODULE MCCloseExecution --------------------------
\* CloseExecution for TLC: two cases, whose certificates name the same legs.
EXTENDS CloseExecution, TLC

MCSameLegs == [c \in Cases |-> "condor"]

IdSymmetry == Permutations(OrderIds)
=============================================================================
