-------------------------- MODULE MCStorageEngine --------------------------
(* Symmetry for TLC; the constants are in the configurations.              *)
EXTENDS StorageEngine, TLC

ThreadAndPathSymmetry == Permutations(Threads) \cup Permutations(Paths)

\* For CallsReturn.  The calls of a run are finitely many and every step of one
\* brings it further, so a behaviour that violates CallsReturn ends in a state
\* where a thread is in a call and cannot step.  Nothing in that depends on
\* which of the names is which.
PathSymmetry == Permutations(Paths)
=============================================================================
