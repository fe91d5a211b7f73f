---------------------------- MODULE MCUdpService ----------------------------
(* UdpService on small instances. *)
EXTENDS UdpService, TLC

Symmetry == Permutations(Threads) \cup Permutations(Addresses) \cup Permutations(Sessions)
=============================================================================
