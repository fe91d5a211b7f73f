-------------------------------- MODULE Fifo --------------------------------
(***************************************************************************)
(* What a TCP session promises the code above it: the packets given to one *)
(* end come out at the other end, each once and in order.  A packet that   *)
(* still waits may be lost, with all that waits before it; one that the    *)
(* connection has taken arrives.                                           *)
(***************************************************************************)
EXTENDS Naturals, Sequences

CONSTANT Packets
VARIABLES waiting, inTransit

Init == waiting = <<>> /\ inTransit = <<>>

Put(p) == waiting' = Append(waiting, p) /\ UNCHANGED inTransit

Take ==
  /\ waiting # <<>>
  /\ waiting' = Tail(waiting)
  /\ inTransit' = Append(inTransit, Head(waiting))

Lose(n) ==
  /\ waiting' = SubSeq(waiting, n + 1, Len(waiting))
  /\ UNCHANGED inTransit

Get == inTransit # <<>> /\ inTransit' = Tail(inTransit) /\ UNCHANGED waiting

Next ==
  \/ \E p \in Packets : Put(p)
  \/ Take
  \/ \E n \in 1..Len(waiting) : Lose(n)
  \/ Get

Spec == Init /\ [][Next]_<<waiting, inTransit>>
=============================================================================
