------------------------------ MODULE JobQueue ------------------------------
(***************************************************************************)
(* core::job::JobQueue with GlobalQueue, LockQueue and the worker loop of  *)
(* the network threads: the actor mechanism rooms run their work on.       *)
(*                                                                         *)
(* A Push counts the job, then links it, then, if it was the first one,    *)
(* either runs the queue on the spot or leaves it in the global queue for  *)
(* a worker.  Nothing else decides who runs a queue: the token of a queue  *)
(* with work is the thread that counted the first job, the thread inside   *)
(* Execute, or an entry of the global queue.                               *)
(*                                                                         *)
(* The clock is not modelled: whether a time slice has ended is a choice.  *)
(* The operations of LockQueue are atomic, they run under its write lock.  *)
(***************************************************************************)
EXTENDS Naturals, Sequences, FiniteSets

CONSTANTS
  Threads,     \* threads that push jobs
  Workers,     \* threads that run Game::DoNetworkJob
  Queues,      \* JobQueue objects (rooms)
  NoQueue,     \* LCurrentJobQueue = nullptr
  MaxJobs      \* bound: jobs pushed altogether

ASSUME QueueAssumption ==
  /\ IsFiniteSet(Threads)
  /\ Workers \subseteq Threads
  /\ NoQueue \notin Queues
  /\ MaxJobs \in Nat

VARIABLES
  jobCount,     \* JobQueue::_jobCount
  jobs,         \* JobQueue::_jobs
  globalQueue,  \* GlobalQueue::_jobQueues
  current,      \* LCurrentJobQueue of each thread
  exec,         \* where a thread is in JobQueue::Execute, and its batch
  push,         \* where a thread is in JobQueue::Push
  pushed        \* how many jobs have been pushed; numbers them

vars == <<jobCount, jobs, globalQueue, current, exec, push, pushed>>

Jobs == 1..MaxJobs

NotExecuting == [pc |-> "out", batch |-> <<>>, got |-> 0]
NotPushing ==
  [pc |-> "out", queue |-> NoQueue, job |-> 0, first |-> FALSE, only |-> FALSE]

Init ==
  /\ jobCount = [q \in Queues |-> 0]
  /\ jobs = [q \in Queues |-> <<>>]
  /\ globalQueue = <<>>
  /\ current = [t \in Threads |-> NoQueue]
  /\ exec = [t \in Threads |-> NotExecuting]
  /\ push = [t \in Threads |-> NotPushing]
  /\ pushed = 0

-----------------------------------------------------------------------------
(* JobQueue::Push, called from plain thread code or from inside a job *)

MayPush(t) ==
  /\ push[t].pc = "out"
  /\ exec[t].pc \in {"out", "run"}
  /\ pushed < MaxJobs

\* prevCount = _jobCount.fetch_add(1)
Count(t, q, only) ==
  /\ MayPush(t)
  /\ jobCount' = [jobCount EXCEPT ![q] = @ + 1]
  /\ pushed' = pushed + 1
  /\ push' = [push EXCEPT ![t] =
       [pc |-> "link", queue |-> q, job |-> pushed', first |-> jobCount[q] = 0,
        only |-> only]]
  /\ UNCHANGED <<jobs, globalQueue, current, exec>>

\* Fault: every Push tries to start the queue, whatever prevCount was.
LinkAlwaysStarts(t) ==
  /\ push[t].pc = "link"
  /\ jobs' = [jobs EXCEPT ![push[t].queue] = Append(@, push[t].job)]
  /\ push' = [push EXCEPT ![t].pc = "start", ![t].first = TRUE]
  /\ UNCHANGED <<jobCount, globalQueue, current, exec, pushed>>

\* _jobs.Push(job); a Push that was not the first returns here.
Link(t) ==
  /\ push[t].pc = "link"
  /\ jobs' = [jobs EXCEPT ![push[t].queue] = Append(@, push[t].job)]
  /\ push' = [push EXCEPT ![t] =
       IF push[t].first THEN [@ EXCEPT !.pc = "start"] ELSE NotPushing]
  /\ UNCHANGED <<jobCount, globalQueue, current, exec, pushed>>

RunsInline(t) == current[t] = NoQueue /\ ~ push[t].only

EnterExecute(t, q) ==
  /\ current' = [current EXCEPT ![t] = q]
  /\ exec' = [exec EXCEPT ![t] = [NotExecuting EXCEPT !.pc = "pop"]]

StartInline(t) ==
  /\ push[t].pc = "start"
  /\ RunsInline(t)
  /\ EnterExecute(t, push[t].queue)
  /\ push' = [push EXCEPT ![t] = NotPushing]
  /\ UNCHANGED <<jobCount, jobs, globalQueue, pushed>>

\* Fault: a first Push from inside a job relies on the running executor.
StartLaterForgets(t) ==
  /\ push[t].pc = "start"
  /\ ~ RunsInline(t)
  /\ push' = [push EXCEPT ![t] = NotPushing]
  /\ UNCHANGED <<jobCount, jobs, globalQueue, current, exec, pushed>>

StartLater(t) ==
  /\ push[t].pc = "start"
  /\ ~ RunsInline(t)
  /\ globalQueue' = Append(globalQueue, push[t].queue)
  /\ push' = [push EXCEPT ![t] = NotPushing]
  /\ UNCHANGED <<jobCount, jobs, current, exec, pushed>>

-----------------------------------------------------------------------------
(* JobQueue::Execute *)

LeaveExecute(t) ==
  /\ current' = [current EXCEPT ![t] = NoQueue]
  /\ exec' = [exec EXCEPT ![t] = NotExecuting]

\* Fault: PopAll copies the jobs and leaves them in the queue.
PopAllCopies(t) ==
  /\ exec[t].pc = "pop"
  /\ LET q == current[t]
     IN  exec' = [exec EXCEPT ![t] =
           [pc |-> "next", batch |-> jobs[q], got |-> Len(jobs[q])]]
  /\ UNCHANGED <<jobCount, jobs, globalQueue, current, push, pushed>>

\* _jobs.PopAll: everything linked so far, perhaps nothing yet.
PopAll(t) ==
  /\ exec[t].pc = "pop"
  /\ LET q == current[t]
     IN  /\ exec' = [exec EXCEPT ![t] =
              [pc |-> "next", batch |-> jobs[q], got |-> Len(jobs[q])]]
         /\ jobs' = [jobs EXCEPT ![q] = <<>>]
  /\ UNCHANGED <<jobCount, globalQueue, current, push, pushed>>

\* jobs[i]->Execute(): the job runs, and may push jobs itself, until Return.
Run(t) ==
  /\ exec[t].pc = "next"
  /\ exec[t].batch # <<>>
  /\ exec' = [exec EXCEPT ![t].pc = "run"]
  /\ UNCHANGED <<jobCount, jobs, globalQueue, current, push, pushed>>

Return(t) ==
  /\ exec[t].pc = "run"
  /\ push[t].pc = "out"
  /\ exec' = [exec EXCEPT ![t].pc = "next", ![t].batch = Tail(@)]
  /\ UNCHANGED <<jobCount, jobs, globalQueue, current, push, pushed>>

\* _jobCount.fetch_sub(jobCount) == jobCount decides between the return and
\* the look at the clock.
Settle(t) ==
  /\ exec[t].pc = "next"
  /\ exec[t].batch = <<>>
  /\ LET q == current[t]
     IN  /\ jobCount' = [jobCount EXCEPT ![q] = @ - exec[t].got]
         /\ IF jobCount[q] = exec[t].got
            THEN LeaveExecute(t)
            ELSE /\ exec' = [exec EXCEPT ![t] = [NotExecuting EXCEPT !.pc = "clock"]]
                 /\ UNCHANGED current
  /\ UNCHANGED <<jobs, globalQueue, push, pushed>>

\* now < LEndTime: another round.
Again(t) ==
  /\ exec[t].pc = "clock"
  /\ exec' = [exec EXCEPT ![t].pc = "pop"]
  /\ UNCHANGED <<jobCount, jobs, globalQueue, current, push, pushed>>

\* Fault: the slice ends without a hand-over, or hands over LCurrentJobQueue
\* after it was set to nullptr.
SliceOverForgets(t) ==
  /\ exec[t].pc = "clock"
  /\ LeaveExecute(t)
  /\ UNCHANGED <<globalQueue, jobCount, jobs, push, pushed>>

\* now >= LEndTime: hand the queue to whoever serves the global queue next.
SliceOver(t) ==
  /\ exec[t].pc = "clock"
  /\ LeaveExecute(t)
  /\ globalQueue' = Append(globalQueue, current[t])
  /\ UNCHANGED <<jobCount, jobs, push, pushed>>

-----------------------------------------------------------------------------
(* ThreadManager::DoGlobalQueueWork: one turn of its loop, inside the slice *)

ServeGlobal(t) ==
  /\ t \in Workers
  /\ exec[t].pc = "out" /\ push[t].pc = "out"
  /\ globalQueue # <<>>
  /\ globalQueue' = Tail(globalQueue)
  /\ EnterExecute(t, Head(globalQueue))
  /\ UNCHANGED <<jobCount, jobs, push, pushed>>

-----------------------------------------------------------------------------

\* The steps a thread takes once it is inside Push or Execute.
Progress(t) ==
  \/ Link(t) \/ StartInline(t) \/ StartLater(t)
  \/ PopAll(t) \/ Run(t) \/ Return(t)
  \/ Settle(t) \/ Again(t) \/ SliceOver(t)

ThreadStep(t) ==
  \/ \E q \in Queues, only \in BOOLEAN : Count(t, q, only)
  \/ Progress(t)
  \/ ServeGlobal(t)

Next == \E t \in Threads : ThreadStep(t)

Spec == Init /\ [][Next]_vars

-----------------------------------------------------------------------------
(* Correctness *)

ExecRecords ==
  [pc : {"out", "pop", "next", "run", "clock"}, batch : Seq(Jobs), got : Nat]

PushRecords ==
  [pc : {"out", "link", "start"}, queue : Queues \cup {NoQueue},
   job : 0..MaxJobs, first : BOOLEAN, only : BOOLEAN]

\* Counters stay natural numbers and every place holds what it should.
TypeOK ==
  /\ jobCount \in [Queues -> Nat]
  /\ jobs \in [Queues -> Seq(Jobs)]
  /\ globalQueue \in Seq(Queues)
  /\ current \in [Threads -> Queues \cup {NoQueue}]
  /\ exec \in [Threads -> ExecRecords]
  /\ push \in [Threads -> PushRecords]
  /\ pushed \in 0..MaxJobs

Starting(t, q) == push[t].pc # "out" /\ push[t].first /\ push[t].queue = q
Executing(t, q) == exec[t].pc # "out" /\ current[t] = q
Offered(q) == \E i \in DOMAIN globalQueue : globalQueue[i] = q

\* At most one of: a thread about to start the queue, a thread executing it,
\* an entry of the global queue.  In particular one thread runs its jobs.
OneToken ==
  \A q \in Queues :
    /\ \A t, u \in Threads :
         /\ Starting(t, q) /\ Starting(u, q) => t = u
         /\ Executing(t, q) /\ Executing(u, q) => t = u
         /\ ~ (Starting(t, q) /\ Executing(u, q))
    /\ Offered(q) => \A t \in Threads : ~ Starting(t, q) /\ ~ Executing(t, q)
    /\ \A i, j \in DOMAIN globalQueue :
         globalQueue[i] = q /\ globalQueue[j] = q => i = j

\* A queue with counted jobs is never forgotten, and an idle one is nowhere.
NeverStranded ==
  \A q \in Queues :
    jobCount[q] > 0 <=>
      Offered(q) \/ \E t \in Threads : Starting(t, q) \/ Executing(t, q)

Linking(q) == {t \in Threads : push[t].pc = "link" /\ push[t].queue = q}

\* _jobCount is the jobs linked, plus those counted and not yet linked, plus
\* the batch the executor has popped and not yet settled.
CountExact ==
  \A q \in Queues :
    \/ \E t \in Threads :
         /\ Executing(t, q)
         /\ jobCount[q] = Len(jobs[q]) + Cardinality(Linking(q)) + exec[t].got
    \/ /\ \A t \in Threads : ~ Executing(t, q)
       /\ jobCount[q] = Len(jobs[q]) + Cardinality(Linking(q))

InSeq(j, s) == \E i \in DOMAIN s : s[i] = j

Pending(j) ==
  \/ \E q \in Queues : InSeq(j, jobs[q])
  \/ \E t \in Threads : InSeq(j, exec[t].batch)

\* Every job linked into a queue has run to its end some time later, under
\* any interleaving of pushers, executors and slices.
EveryJobRuns == \A j \in Jobs : Pending(j) ~> ~ Pending(j)

-----------------------------------------------------------------------------
(* What an object derived from JobQueue may rely on *)

Executor(q) == {t \in Threads : Executing(t, q)}

BatchOf(t) == exec[t].batch

RunningIn(q) ==
  IF \E t \in Executor(q) : exec[t].pc = "run"
  THEN <<Head(BatchOf(CHOOSE t \in Executor(q) : exec[t].pc = "run"))>>
  ELSE <<>>

WaitingIn(q) ==
  IF Executor(q) = {} THEN jobs[q]
  ELSE LET t == CHOOSE t \in Executor(q) : TRUE
       IN  (IF exec[t].pc = "run" THEN Tail(BatchOf(t)) ELSE BatchOf(t)) \o jobs[q]

Serial == INSTANCE SerialQueue WITH
  waiting <- [q \in Queues |-> WaitingIn(q)],
  running <- [q \in Queues |-> RunningIn(q)]

\* Counting, linking, handing over and slicing together implement a queue
\* that runs its jobs one at a time, once each, in the order they were linked.
ImplementsSerialQueue == Serial!Spec
=============================================================================
