----------------------------- MODULE RWLockSpec -----------------------------
(***************************************************************************)
(* What a reader/writer lock promises its callers, in terms of the guards  *)
(* they hold and of nothing else: write guards exclude everybody else,     *)
(* read guards only writers, and both nest within one thread.              *)
(***************************************************************************)
EXTENDS Naturals

CONSTANTS Threads, MaxNesting

VARIABLE guards   \* guards[t] = [w |-> write guards, r |-> read guards] of t

Init == guards = [t \in Threads |-> [w |-> 0, r |-> 0]]

NoWriterBut(t) == \A u \in Threads \ {t} : guards[u].w = 0
NobodyBut(t) == \A u \in Threads \ {t} : guards[u].w = 0 /\ guards[u].r = 0

EnterWrite(t) ==
  /\ NobodyBut(t)
  /\ guards[t].r = 0 /\ guards[t].w < MaxNesting
  /\ guards' = [guards EXCEPT ![t].w = @ + 1]

LeaveWrite(t) ==
  /\ guards[t].r = 0 /\ guards[t].w > 0
  /\ guards' = [guards EXCEPT ![t].w = @ - 1]

EnterRead(t) ==
  /\ NoWriterBut(t)
  /\ guards[t].r < MaxNesting
  /\ guards' = [guards EXCEPT ![t].r = @ + 1]

LeaveRead(t) ==
  /\ guards[t].r > 0
  /\ guards' = [guards EXCEPT ![t].r = @ - 1]

Next ==
  \E t \in Threads :
    EnterWrite(t) \/ LeaveWrite(t) \/ EnterRead(t) \/ LeaveRead(t)

Spec == Init /\ [][Next]_guards
=============================================================================
