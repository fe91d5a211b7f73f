------------------------------ MODULE MCRWLock ------------------------------
(* RWLock on three threads, two levels of nesting. *)
EXTENDS RWLock, TLC

Symmetry == Permutations(Threads)
=============================================================================
