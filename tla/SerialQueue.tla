----------------------------- MODULE SerialQueue -----------------------------
(***************************************************************************)
(* What a JobQueue promises the objects built on it: the jobs submitted to *)
(* one queue run one at a time, each once, in the order of submission.     *)
(***************************************************************************)
EXTENDS Sequences

CONSTANTS Queues, Jobs

VARIABLES
  waiting,   \* waiting[q] = jobs submitted to q and not yet started
  running    \* running[q] = <<>> or <<job>>, the job q is running

Init ==
  /\ waiting = [q \in Queues |-> <<>>]
  /\ running = [q \in Queues |-> <<>>]

Submit(q, j) ==
  /\ waiting' = [waiting EXCEPT ![q] = Append(@, j)]
  /\ UNCHANGED running

Start(q) ==
  /\ waiting[q] # <<>> /\ running[q] = <<>>
  /\ running' = [running EXCEPT ![q] = <<Head(waiting[q])>>]
  /\ waiting' = [waiting EXCEPT ![q] = Tail(@)]

Finish(q) ==
  /\ running[q] # <<>>
  /\ running' = [running EXCEPT ![q] = <<>>]
  /\ UNCHANGED waiting

Next ==
  \E q \in Queues :
    \/ \E j \in Jobs : Submit(q, j)
    \/ Start(q)
    \/ Finish(q)

Spec == Init /\ [][Next]_<<waiting, running>>
=============================================================================
