---------------------------- MODULE MCRoomTick ------------------------------
(* RoomTick with two users, one of whom may enter twice. *)
EXTENDS RoomTick

Symmetry == Permutations(Users)
=============================================================================
