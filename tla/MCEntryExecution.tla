-------------------------- MODULE MCEntryExecution --------------------------
\* Instances of EntryExecution for TLC.
EXTENDS EntryExecution, TLC

\* The broker's ids are interchangeable, and so are the processes.
IdSymmetry == Permutations(OrderIds) \cup Permutations(Processes)
=============================================================================
