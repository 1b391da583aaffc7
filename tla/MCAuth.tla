------------------------------- MODULE MCAuth -------------------------------
(* Auth on a small instance.  The threads are interchangeable. *)
EXTENDS Auth, TLC

MCThreads == Permutations(Threads)
=============================================================================
