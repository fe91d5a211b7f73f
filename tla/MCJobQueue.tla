----------------------------- MODULE MCJobQueue -----------------------------
(* JobQueue with workers and one thread that only pushes. *)
EXTENDS JobQueue, TLC

Symmetry == Permutations(Queues) \cup Permutations(Workers)
=============================================================================
