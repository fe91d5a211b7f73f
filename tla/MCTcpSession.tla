---------------------------- MODULE MCTcpSession ----------------------------
(* TcpSession with three threads.  Its run checks liveness, and so the     *)
(* threads are not taken as symmetric.                                     *)
EXTENDS TcpSession
=============================================================================
