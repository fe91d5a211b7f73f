---------------------------- MODULE MCPacketPipe ----------------------------
(* PacketPipe: packets that share a chunk, fill one and exceed one, and    *)
(* packets that are numbered by two threads, for two peers, at once.       *)
EXTENDS PacketPipe, TLC

Symmetry == Permutations(Threads) \cup Permutations(Peers)

\* How far the counters of all peers have moved.
Numbered == FoldFunction(+, 0, sendSeq) - Cardinality(Peers)

\* Two families of behaviours are explored, one beside the other: packets of
\* all sizes with at most one number given out, acknowledged when it was got; and
\* numbers given to two small packets that the TCP session does not get, of which
\* at most one goes astray.
Explored ==
  \/ Numbered <= 1 /\ astray = {}
  \/ /\ Cardinality(astray) <= 1
     /\ opened <= 2 /\ \A t \in Threads : maker[t].size <= 1
     /\ \A b \in 1..opened : area[b].size <= 1 /\ Tcp \notin holders[b]
     /\ sendQueue = <<>> /\ wire = <<>>
=============================================================================
