--------------------------- MODULE MCWriteSession ---------------------------
(* WriteSession on small sets of threads and files.                        *)
EXTENDS WriteSession, TLC

\* Threads are interchangeable.
ThreadSymmetry == Permutations(Threads)
=============================================================================
