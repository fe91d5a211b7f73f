------------------------- MODULE MCDeadLockProfiler -------------------------
(* DeadLockProfiler: three classes with locks, one of them with two objects. *)
EXTENDS DeadLockProfiler, TLC

CONSTANTS a1, a2, b, c, A, B, C

MCNameOf == (a1 :> A) @@ (a2 :> A) @@ (b :> B) @@ (c :> C)

\* The threads, the two objects of class A, and the classes B and C with their
\* locks may be exchanged.
SwapObjects == (a1 :> a2) @@ (a2 :> a1)
SwapClasses == (b :> c) @@ (c :> b) @@ (B :> C) @@ (C :> B)
Symmetry == Permutations(Callers) \cup {SwapObjects, SwapClasses}
=============================================================================
