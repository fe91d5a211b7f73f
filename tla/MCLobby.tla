------------------------------ MODULE MCLobby -------------------------------
(* Lobby on small instances. *)
EXTENDS Lobby, TLC

Symmetry == Permutations(Clients)

\* Once two logins have raced on the counter and share an id, nothing is
\* claimed.  Rooms keep their players whatever becomes of the sessions, so a
\* room that has a second player is followed only while every client stays
\* connected by TCP and has not shaken hands.
Explored ==
  /\ ~ raced
  /\ (\E r \in DOMAIN rooms : rooms[r] # NoRoom /\ Cardinality(Members(r)) > 1) =>
       \A c \in Clients : tcp[c] = "open" /\ udp[c] = "absent"
=============================================================================
