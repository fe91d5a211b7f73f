----------------------------- MODULE MCJobTimer -----------------------------
(* JobTimer with workers only: every network thread distributes. *)
EXTENDS JobTimer
=============================================================================
