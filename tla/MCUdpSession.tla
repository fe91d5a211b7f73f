---------------------------- MODULE MCUdpSession ----------------------------
(* UdpSession on a small instance: 20 numbers, a window of 4, 2 bits. *)
EXTENDS UdpSession, TLC

Symmetry == Permutations(Threads)
=============================================================================
