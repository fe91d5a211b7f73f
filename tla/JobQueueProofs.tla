--------------------------- MODULE JobQueueProofs ---------------------------
(***************************************************************************)
(* Proofs about JobQueue and the JobTimer above it, for every finite set   *)
(* of threads, any queues and any number of jobs.                          *)
(*                                                                         *)
(* JobQueue: OneToken and NeverStranded need each other, and both need     *)
(* that the count is exact: that is why the invariant joins all three with *)
(* the shape of the per-thread records.  The same facts make the executor  *)
(* of a queue unique, so that the mapping of JobQueue to SerialQueue can   *)
(* name it.                                                                *)
(*                                                                         *)
(* JobTimer: a distributor inside the flag is the only one, what it holds  *)
(* is in the order of its times, and a number is in one place.  With that, *)
(* every step of the timer is a step of JobQueue or leaves the queues      *)
(* alone.                                                                  *)
(***************************************************************************)
EXTENDS JobTimer, TLAPS, FiniteSetTheorems

USE DEF ExecRecords, PushRecords

\* The per-thread records agree with each other at every place.
Shape ==
  \A t \in Threads :
    /\ exec[t].pc = "out" <=> current[t] = NoQueue
    /\ exec[t].pc \in {"out", "pop", "clock"} => exec[t].got = 0
    /\ exec[t].pc = "run" => exec[t].batch # <<>>
    /\ push[t].pc # "out" => push[t].queue \in Queues /\ push[t].job \in Jobs
    /\ push[t].pc = "start" => push[t].first
    /\ push[t].pc # "out" => exec[t].pc \in {"out", "run"}

\* The count of a queue, by whether a thread is inside its Execute.
Counts ==
  \A q \in Queues :
    /\ (\A t \in Threads : ~ Executing(t, q)) =>
         jobCount[q] = Len(jobs[q]) + Cardinality(Linking(q))
    /\ \A t \in Threads : Executing(t, q) =>
         jobCount[q] = Len(jobs[q]) + Cardinality(Linking(q)) + exec[t].got

\* No two entries of the global queue are the same queue.
NoDuplicates ==
  \A i, j \in DOMAIN globalQueue : globalQueue[i] = globalQueue[j] => i = j

\* OneToken without the global queue's own entries.
Exclusive ==
  \A q \in Queues :
    /\ \A t, u \in Threads :
         /\ Starting(t, q) /\ Starting(u, q) => t = u
         /\ Executing(t, q) /\ Executing(u, q) => t = u
         /\ ~ (Starting(t, q) /\ Executing(u, q))
    /\ Offered(q) => \A t \in Threads : ~ Starting(t, q) /\ ~ Executing(t, q)

IInv ==
  /\ TypeOK
  /\ Shape
  /\ Exclusive
  /\ NoDuplicates
  /\ NeverStranded
  /\ Counts

-----------------------------------------------------------------------------
(* The per-thread records *)

\* The records the actions write are of the type declared for them.
LEMMA RecordTypes ==
  /\ NotPushing \in PushRecords
  /\ NotExecuting \in ExecRecords
  /\ [NotExecuting EXCEPT !.pc = "pop"] \in ExecRecords
  /\ [NotExecuting EXCEPT !.pc = "clock"] \in ExecRecords
  /\ \A b \in Seq(Jobs), n \in Nat :
       [pc |-> "next", batch |-> b, got |-> n] \in ExecRecords
<1>1. NotPushing \in PushRecords
  BY QueueAssumption DEF NotPushing
<1>2. ASSUME NEW b \in Seq(Jobs), NEW n \in Nat
      PROVE  [pc |-> "next", batch |-> b, got |-> n] \in ExecRecords
  OBVIOUS
<1>3. ASSUME NEW p \in {"out", "pop", "clock"}
      PROVE  [pc |-> p, batch |-> <<>>, got |-> 0] \in ExecRecords
  <2>1. <<>> \in Seq(Jobs)
    OBVIOUS
  <2> DEFINE none == <<>>
  <2>2. none \in Seq(Jobs)
    BY <2>1
  <2> HIDE DEF none
  <2>3. [pc |-> p, batch |-> none, got |-> 0] \in ExecRecords
    BY <2>2
  <2> QED BY <2>3 DEF none
<1>4. /\ NotExecuting = [pc |-> "out", batch |-> <<>>, got |-> 0]
      /\ [NotExecuting EXCEPT !.pc = "pop"] = [pc |-> "pop", batch |-> <<>>, got |-> 0]
      /\ [NotExecuting EXCEPT !.pc = "clock"] = [pc |-> "clock", batch |-> <<>>, got |-> 0]
  BY DEF NotExecuting
<1> QED BY <1>1, <1>2, <1>3, <1>4

\* Dropping the job that has run keeps the record one.
LEMMA ReplaceBatch ==
  ASSUME NEW r \in ExecRecords, NEW b \in Seq(Jobs)
  PROVE  [r EXCEPT !.pc = "next", !.batch = b] \in ExecRecords
<1>1. ASSUME NEW S, NEW x \in [pc : {"out", "pop", "next", "run", "clock"},
                               batch : S, got : Nat], NEW y \in S
      PROVE  [x EXCEPT !.pc = "next", !.batch = y]
               \in [pc : {"out", "pop", "next", "run", "clock"},
                    batch : S, got : Nat]
  OBVIOUS
<1> QED BY <1>1

\* What a record of either kind holds.
LEMMA RecordFields ==
  ASSUME TypeOK, NEW t \in Threads
  PROVE  /\ exec[t] \in ExecRecords /\ push[t] \in PushRecords
         /\ exec[t].batch \in Seq(Jobs) /\ exec[t].got \in Nat
         /\ push[t].first \in BOOLEAN
BY DEF TypeOK, ExecRecords, PushRecords

-----------------------------------------------------------------------------
(* The threads that have counted a job and not yet linked it *)

\* Their number is a natural number, for it is a subset of the threads.
LEMMA LinkingFinite ==
  ASSUME NEW q
  PROVE  IsFiniteSet(Linking(q)) /\ Cardinality(Linking(q)) \in Nat
<1>1. Linking(q) \subseteq Threads
  BY DEF Linking
<1> QED BY <1>1, QueueAssumption, FS_Subset, FS_CardinalityType

\* Count adds one thread to one queue's set and leaves the others alone.
LEMMA LinkingGrows ==
  ASSUME TypeOK, NEW t \in Threads, NEW q \in Queues, NEW only \in BOOLEAN,
         Count(t, q, only)
  PROVE  /\ Cardinality(Linking(q))' = Cardinality(Linking(q)) + 1
         /\ \A p \in Queues : p # q => Linking(p)' = Linking(p)
<1>1. /\ push[t].pc = "out"
      /\ push'[t].pc = "link" /\ push'[t].queue = q
      /\ \A u \in Threads : u # t => push'[u] = push[u]
  BY DEF Count, MayPush, TypeOK
<1>2. Linking(q)' = Linking(q) \cup {t} /\ t \notin Linking(q)
  BY <1>1 DEF Linking
<1>3. \A p \in Queues : p # q => Linking(p)' = Linking(p)
  BY <1>1 DEF Linking
<1> QED BY <1>2, <1>3, LinkingFinite, FS_AddElement

\* Link takes it out again.
LEMMA LinkingShrinks ==
  ASSUME TypeOK, NEW t \in Threads, Link(t), NEW q \in Queues, q = push[t].queue
  PROVE  /\ Cardinality(Linking(q))' = Cardinality(Linking(q)) - 1
         /\ \A p \in Queues : p # q => Linking(p)' = Linking(p)
<1>1. /\ push[t].pc = "link"
      /\ push'[t].pc # "link"
      /\ \A u \in Threads : u # t => push'[u] = push[u]
  BY DEF Link, NotPushing, TypeOK
<1>2. Linking(q)' = Linking(q) \ {t} /\ t \in Linking(q)
  BY <1>1 DEF Linking
<1>3. \A p \in Queues : p # q => Linking(p)' = Linking(p)
  BY <1>1 DEF Linking
<1> QED BY SMTT(20), <1>2, <1>3, LinkingFinite, FS_RemoveElement

-----------------------------------------------------------------------------
(* The global queue *)

\* GlobalQueue::Push offers one more queue and keeps entries distinct if the
\* queue was not offered yet.
LEMMA Offer ==
  ASSUME TypeOK, NEW q \in Queues, globalQueue' = Append(globalQueue, q)
  PROVE  /\ \A p : Offered(p)' <=> Offered(p) \/ p = q
         /\ NoDuplicates /\ ~ Offered(q) => NoDuplicates'
<1>1. /\ globalQueue \in Seq(Queues) /\ Len(globalQueue) \in Nat
      /\ DOMAIN globalQueue = 1..Len(globalQueue)
      /\ DOMAIN globalQueue' = 1..(Len(globalQueue) + 1)
      /\ \A i \in 1..Len(globalQueue) : globalQueue'[i] = globalQueue[i]
      /\ globalQueue'[Len(globalQueue) + 1] = q
  BY DEF TypeOK
<1>2. ASSUME NEW p
      PROVE  Offered(p)' <=> Offered(p) \/ p = q
  BY <1>1 DEF Offered
<1>3. ASSUME NoDuplicates, ~ Offered(q)
      PROVE  NoDuplicates'
  BY <1>1, <1>3 DEF NoDuplicates, Offered
<1> QED BY <1>2, <1>3

\* GlobalQueue::Pop withdraws the head, and with distinct entries nothing
\* else.
LEMMA Withdraw ==
  ASSUME TypeOK, NoDuplicates, globalQueue # <<>>,
         globalQueue' = Tail(globalQueue)
  PROVE  /\ Head(globalQueue) \in Queues /\ Offered(Head(globalQueue))
         /\ \A p : Offered(p)' <=> Offered(p) /\ p # Head(globalQueue)
         /\ NoDuplicates'
<1>1. /\ globalQueue \in Seq(Queues) /\ Len(globalQueue) \in Nat \ {0}
      /\ DOMAIN globalQueue = 1..Len(globalQueue)
      /\ DOMAIN globalQueue' = 1..(Len(globalQueue) - 1)
      /\ \A i \in 1..(Len(globalQueue) - 1) : globalQueue'[i] = globalQueue[i + 1]
      /\ Head(globalQueue) = globalQueue[1]
      /\ globalQueue[1] \in Queues
  BY DEF TypeOK
<1>2. Offered(Head(globalQueue))
  BY <1>1 DEF Offered
<1>3. ASSUME NEW p
      PROVE  Offered(p)' <=> Offered(p) /\ p # Head(globalQueue)
  <2>1. ASSUME Offered(p)'
        PROVE  Offered(p) /\ p # Head(globalQueue)
    <3>1. PICK i \in 1..(Len(globalQueue) - 1) : globalQueue'[i] = p
      BY <1>1, <2>1 DEF Offered
    <3>2. i + 1 \in 1..Len(globalQueue) /\ i + 1 # 1 /\ globalQueue[i + 1] = p
      BY <1>1, <3>1
    <3>3. 1 \in 1..Len(globalQueue)
      BY <1>1
    <3>4. globalQueue[1] # p
      BY <1>1, <3>2, <3>3 DEF NoDuplicates
    <3> QED BY <1>1, <3>2, <3>4 DEF Offered
  <2>2. ASSUME Offered(p), p # Head(globalQueue)
        PROVE  Offered(p)'
    <3>1. PICK i \in 1..Len(globalQueue) : globalQueue[i] = p
      BY <1>1, <2>2 DEF Offered
    <3>2. i - 1 \in 1..(Len(globalQueue) - 1) /\ globalQueue'[i - 1] = p
      BY <1>1, <2>2, <3>1
    <3> QED BY <1>1, <3>2 DEF Offered
  <2> QED BY <2>1, <2>2
<1>4. NoDuplicates'
  <2>1. SUFFICES ASSUME NEW i \in 1..(Len(globalQueue) - 1),
                        NEW j \in 1..(Len(globalQueue) - 1),
                        globalQueue'[i] = globalQueue'[j]
                 PROVE  i = j
    BY <1>1 DEF NoDuplicates
  <2>2. globalQueue[i + 1] = globalQueue[j + 1]
    BY <1>1, <2>1
  <2>3. i + 1 \in DOMAIN globalQueue /\ j + 1 \in DOMAIN globalQueue
    BY <1>1
  <2>4. i + 1 = j + 1
    BY <2>2, <2>3 DEF NoDuplicates
  <2> QED BY <2>4
<1> QED BY <1>1, <1>2, <1>3, <1>4

-----------------------------------------------------------------------------
(* Every step keeps the invariant *)

LEMMA InitIInv == Init => IInv
<1> SUFFICES ASSUME Init PROVE IInv
  OBVIOUS
<1> USE DEF Init, NotExecuting, NotPushing
<1>1. TypeOK
  BY QueueAssumption DEF TypeOK
<1>2. Shape
  BY DEF Shape
<1>3. /\ \A t \in Threads, q \in Queues : ~ Starting(t, q) /\ ~ Executing(t, q)
      /\ \A q \in Queues : ~ Offered(q)
  BY DEF Starting, Executing, Offered
<1>4. Exclusive /\ NeverStranded
  BY <1>3 DEF Exclusive, NeverStranded
<1>5. NoDuplicates
  BY DEF NoDuplicates
<1>6. Counts
  <2> SUFFICES ASSUME NEW q \in Queues
               PROVE  jobCount[q] = Len(jobs[q]) + Cardinality(Linking(q))
    BY <1>3 DEF Counts
  <2>1. Linking(q) = {}
    BY DEF Linking
  <2> QED BY <2>1, FS_EmptySet
<1> QED BY <1>1, <1>2, <1>4, <1>5, <1>6 DEF IInv

\* fetch_add: the thread that finds the count at zero becomes the token.
LEMMA CountStep ==
  ASSUME IInv, NEW t \in Threads, NEW q \in Queues, NEW only \in BOOLEAN,
         Count(t, q, only)
  PROVE  IInv'
<1> USE DEF IInv
<1>1. /\ push[t].pc = "out" /\ exec[t].pc \in {"out", "run"}
      /\ jobCount[q] \in Nat /\ pushed + 1 \in Jobs
  BY QueueAssumption DEF Count, MayPush, TypeOK, Jobs
<1>2. TypeOK'
  BY SMTT(20), <1>1 DEF Count, TypeOK, Jobs
<1>3. Shape'
  BY <1>1 DEF Count, Shape, TypeOK
<1>4. /\ \A u \in Threads, p \in Queues :
           Starting(u, p)' <=> IF u = t THEN p = q /\ jobCount[q] = 0
                               ELSE Starting(u, p)
      /\ \A u \in Threads, p \in Queues : Executing(u, p)' <=> Executing(u, p)
      /\ \A p \in Queues : Offered(p)' <=> Offered(p)
      /\ \A p \in Queues : ~ Starting(t, p)
  BY <1>1 DEF Count, TypeOK, Starting, Executing, Offered
<1>5. jobCount[q] = 0 => /\ ~ Offered(q)
                         /\ \A u \in Threads : ~ Starting(u, q) /\ ~ Executing(u, q)
  BY DEF NeverStranded
<1>6. Exclusive'
  BY <1>4, <1>5 DEF Exclusive
<1>7. NoDuplicates'
  BY DEF Count, NoDuplicates
<1>8. NeverStranded'
  <2>1. \A p \in Queues : jobCount'[p] = IF p = q THEN jobCount[q] + 1 ELSE jobCount[p]
    BY DEF Count, TypeOK
  <2>2. jobCount[q] = 0 \/ jobCount[q] > 0
    BY <1>1
  <2> QED BY <1>1, <1>4, <2>1, <2>2 DEF NeverStranded
<1>9. Counts'
  <2>1. SUFFICES ASSUME NEW p \in Queues
        PROVE  /\ (\A u \in Threads : ~ Executing(u, p)) =>
                    jobCount'[p] = Len(jobs'[p]) + Cardinality(Linking(p))'
               /\ \A u \in Threads : Executing(u, p) =>
                    jobCount'[p] = Len(jobs'[p]) + Cardinality(Linking(p))' + exec'[u].got
    BY <1>4 DEF Counts
  <2>2. /\ jobs' = jobs /\ exec' = exec
        /\ jobCount'[p] = IF p = q THEN jobCount[p] + 1 ELSE jobCount[p]
    BY DEF Count, TypeOK
  <2>3. Cardinality(Linking(p))' =
          IF p = q THEN Cardinality(Linking(p)) + 1 ELSE Cardinality(Linking(p))
    BY LinkingGrows
  <2>4. /\ Cardinality(Linking(p)) \in Nat /\ Len(jobs[p]) \in Nat
        /\ \A u \in Threads : exec[u].got \in Nat
    BY LinkingFinite DEF TypeOK
  <2> QED BY <2>2, <2>3, <2>4 DEF Counts
<1> QED BY <1>2, <1>3, <1>6, <1>7, <1>8, <1>9

\* _jobs.Push: one counted job becomes one linked job.
LEMMA LinkStep ==
  ASSUME IInv, NEW t \in Threads, Link(t)
  PROVE  IInv'
<1> USE DEF IInv
<1> DEFINE q == push[t].queue
<1>1. /\ push[t].pc = "link" /\ q \in Queues /\ push[t].job \in Jobs
      /\ exec[t].pc \in {"out", "run"} /\ push[t].first \in BOOLEAN
      /\ jobs[q] \in Seq(Jobs)
  BY DEF Link, Shape, TypeOK
<1>2. TypeOK'
  <2>1. jobs' \in [Queues -> Seq(Jobs)]
    BY <1>1 DEF Link, TypeOK
  <2>2. [push[t] EXCEPT !.pc = "start"] \in PushRecords
    BY DEF TypeOK
  <2>3. NotPushing \in PushRecords
    BY QueueAssumption DEF NotPushing, PushRecords
  <2>4. push' \in [Threads -> PushRecords]
    BY <2>2, <2>3 DEF Link, TypeOK
  <2> QED BY <2>1, <2>4 DEF Link, TypeOK
<1>3. Shape'
  BY <1>1 DEF Link, Shape, TypeOK, NotPushing
<1>4. /\ \A u \in Threads, p \in Queues : Starting(u, p)' <=> Starting(u, p)
      /\ \A u \in Threads, p \in Queues : Executing(u, p)' <=> Executing(u, p)
      /\ \A p \in Queues : Offered(p)' <=> Offered(p)
  BY <1>1 DEF Link, NotPushing, TypeOK, Starting, Executing, Offered
<1>5. Exclusive' /\ NeverStranded'
  BY <1>4 DEF Exclusive, NeverStranded, Link
<1>6. NoDuplicates'
  BY DEF Link, NoDuplicates
<1>7. Counts'
  <2>1. SUFFICES ASSUME NEW p \in Queues
        PROVE  /\ (\A u \in Threads : ~ Executing(u, p)) =>
                    jobCount'[p] = Len(jobs'[p]) + Cardinality(Linking(p))'
               /\ \A u \in Threads : Executing(u, p) =>
                    jobCount'[p] = Len(jobs'[p]) + Cardinality(Linking(p))' + exec'[u].got
    BY <1>4 DEF Counts
  <2>2. /\ jobCount' = jobCount /\ exec' = exec
        /\ Len(jobs'[p]) = IF p = q THEN Len(jobs[p]) + 1 ELSE Len(jobs[p])
    BY <1>1 DEF Link, TypeOK
  <2>3. Cardinality(Linking(p))' =
          IF p = q THEN Cardinality(Linking(p)) - 1 ELSE Cardinality(Linking(p))
    BY <1>1, LinkingShrinks
  <2>4. /\ Cardinality(Linking(p)) \in Nat /\ Len(jobs[p]) \in Nat
        /\ \A u \in Threads : exec[u].got \in Nat
    BY LinkingFinite DEF TypeOK
  <2> QED BY <2>2, <2>3, <2>4 DEF Counts
<1> QED BY <1>2, <1>3, <1>5, <1>6, <1>7

\* Leaving or skipping the start of a queue does not change who is linking.
LEMMA LinkingSame ==
  ASSUME TypeOK, NEW t \in Threads, push[t].pc # "link",
         push' = push \/ push' = [push EXCEPT ![t] = NotPushing]
  PROVE  \A p \in Queues : Linking(p)' = Linking(p)
<1>1. /\ push'[t].pc # "link"
      /\ \A u \in Threads : u # t => push'[u] = push[u]
  BY DEF NotPushing, TypeOK
<1> QED BY <1>1 DEF Linking

\* A first Push with nothing else to do runs the queue itself.
LEMMA StartInlineStep ==
  ASSUME IInv, NEW t \in Threads, StartInline(t)
  PROVE  IInv'
<1> USE DEF IInv
<1> DEFINE q == push[t].queue
<1>1. /\ push[t].pc = "start" /\ push[t].first /\ q \in Queues
      /\ exec[t].pc = "out" /\ current[t] = NoQueue /\ q # NoQueue
  BY QueueAssumption DEF StartInline, RunsInline, Shape
<1>2. /\ exec'[t] = [pc |-> "pop", batch |-> <<>>, got |-> 0]
      /\ current'[t] = q /\ push'[t] = NotPushing
      /\ \A u \in Threads : u # t =>
           exec'[u] = exec[u] /\ current'[u] = current[u] /\ push'[u] = push[u]
  BY DEF StartInline, EnterExecute, NotExecuting, TypeOK
<1>3. TypeOK'
  <2> HIDE DEF ExecRecords, PushRecords
  <2>1. exec' \in [Threads -> ExecRecords] /\ push' \in [Threads -> PushRecords]
    BY RecordTypes DEF StartInline, EnterExecute, TypeOK
  <2>2. current' \in [Threads -> Queues \cup {NoQueue}]
    BY <1>1 DEF StartInline, EnterExecute, TypeOK
  <2> QED BY <2>1, <2>2 DEF StartInline, TypeOK
<1>4. Shape'
  BY <1>1, <1>2 DEF Shape, NotPushing
<1>5. Starting(t, q)
  BY <1>1 DEF Starting
<1>6. /\ \A u \in Threads, p \in Queues :
           Starting(u, p)' <=> u # t /\ Starting(u, p)
      /\ \A u \in Threads, p \in Queues :
           Executing(u, p)' <=> Executing(u, p) \/ (u = t /\ p = q)
      /\ \A p \in Queues : Offered(p)' <=> Offered(p)
  BY <1>1, <1>2 DEF StartInline, Starting, Executing, Offered, NotPushing
<1>7. \A p \in Queues : Starting(t, p) => p = q
  BY DEF Starting
<1>8. Exclusive'
  BY <1>1, <1>5, <1>6, <1>7 DEF Exclusive
<1>9. NeverStranded'
  BY <1>1, <1>5, <1>6, <1>7 DEF NeverStranded, StartInline
<1>10. NoDuplicates'
  BY DEF StartInline, NoDuplicates
<1>11. Counts'
  <2>1. \A p \in Queues : Linking(p)' = Linking(p)
    BY <1>1, LinkingSame DEF StartInline
  <2>2. \A u \in Threads : ~ Executing(u, q)
    BY <1>1, <1>5 DEF Exclusive
  <2>3. \A p \in Queues : Cardinality(Linking(p)) \in Nat /\ Len(jobs[p]) \in Nat
    BY LinkingFinite DEF TypeOK
  <2>4. jobCount' = jobCount /\ jobs' = jobs
    BY DEF StartInline
  <2>5. \A u \in Threads : ~ u = t => exec'[u].got = exec[u].got
    BY <1>2
  <2>6. \A p \in Queues : ~ Executing(t, p)
    BY <1>1 DEF Executing
  <2>7. exec'[t].got = 0
    BY <1>2
  <2> QED BY <1>1, <1>6, <2>1, <2>2, <2>3, <2>4, <2>5, <2>6, <2>7 DEF Counts
<1> QED BY <1>3, <1>4, <1>8, <1>9, <1>10, <1>11

\* A first Push from inside a job leaves the queue to the workers.
LEMMA StartLaterStep ==
  ASSUME IInv, NEW t \in Threads, StartLater(t)
  PROVE  IInv'
<1> USE DEF IInv
<1> DEFINE q == push[t].queue
<1>1. push[t].pc = "start" /\ push[t].first /\ q \in Queues
  BY DEF StartLater, Shape
<1>2. /\ push'[t] = NotPushing
      /\ \A u \in Threads : u # t => push'[u] = push[u]
      /\ UNCHANGED <<jobCount, jobs, current, exec, pushed>>
  BY DEF StartLater, TypeOK
<1>3. Starting(t, q) /\ ~ Offered(q)
  BY <1>1 DEF Starting, Exclusive
<1>4. (\A p : Offered(p)' <=> Offered(p) \/ p = q) /\ NoDuplicates'
  BY <1>1, <1>3, Offer DEF StartLater
<1>5. TypeOK'
  BY <1>1, QueueAssumption DEF StartLater, NotPushing, TypeOK
<1>6. Shape'
  BY <1>1, <1>2 DEF Shape, NotPushing
<1>7. /\ \A u \in Threads, p \in Queues :
           Starting(u, p)' <=> u # t /\ Starting(u, p)
      /\ \A u \in Threads, p \in Queues : Executing(u, p)' <=> Executing(u, p)
  BY <1>1, <1>2 DEF Starting, Executing, NotPushing
<1>8. \A p \in Queues : Starting(t, p) => p = q
  BY DEF Starting
<1>9. Exclusive'
  BY <1>3, <1>4, <1>7, <1>8 DEF Exclusive
<1>10. NeverStranded'
  BY <1>1, <1>2, <1>3, <1>4, <1>7, <1>8 DEF NeverStranded
<1>11. Counts'
  <2>1. \A p \in Queues : Linking(p)' = Linking(p)
    BY <1>1, LinkingSame DEF StartLater
  <2> QED BY <1>2, <1>7, <2>1 DEF Counts
<1> QED BY <1>4, <1>5, <1>6, <1>9, <1>10, <1>11

\* DoGlobalQueueWork takes the token out of the global queue.
LEMMA ServeStep ==
  ASSUME IInv, NEW t \in Threads, ServeGlobal(t)
  PROVE  IInv'
<1> USE DEF IInv
<1> DEFINE q == Head(globalQueue)
<1>1. /\ q \in Queues /\ Offered(q) /\ NoDuplicates'
      /\ \A p : Offered(p)' <=> Offered(p) /\ p # q
  BY Withdraw DEF ServeGlobal
<1>2. /\ exec[t].pc = "out" /\ push[t].pc = "out" /\ q # NoQueue
      /\ exec'[t] = [pc |-> "pop", batch |-> <<>>, got |-> 0]
      /\ current'[t] = q
      /\ \A u \in Threads : u # t => exec'[u] = exec[u] /\ current'[u] = current[u]
      /\ UNCHANGED <<jobCount, jobs, push, pushed>>
  BY <1>1, QueueAssumption DEF ServeGlobal, EnterExecute, NotExecuting, TypeOK
<1>3. TypeOK'
  <2>1. globalQueue' \in Seq(Queues)
    BY DEF ServeGlobal, TypeOK
  <2>2. current' \in [Threads -> Queues \cup {NoQueue}]
    BY <1>1 DEF ServeGlobal, EnterExecute, TypeOK
  <2> HIDE DEF ExecRecords
  <2>3. exec' \in [Threads -> ExecRecords]
    BY RecordTypes DEF ServeGlobal, EnterExecute, TypeOK
  <2> QED BY <1>2, <2>1, <2>2, <2>3 DEF TypeOK
<1>4. Shape'
  BY <1>2 DEF Shape
<1>5. /\ \A u \in Threads, p \in Queues : Starting(u, p)' <=> Starting(u, p)
      /\ \A u \in Threads, p \in Queues :
           Executing(u, p)' <=> Executing(u, p) \/ (u = t /\ p = q)
  BY <1>2 DEF Starting, Executing
<1>6. Exclusive'
  BY <1>1, <1>5 DEF Exclusive
<1>7. NeverStranded'
  BY <1>1, <1>2, <1>5 DEF NeverStranded
<1>8. Counts'
  <2>1. \A p \in Queues : Linking(p)' = Linking(p)
    BY <1>2 DEF Linking
  <2>2. \A u \in Threads : ~ Executing(u, q)
    BY <1>1 DEF Exclusive
  <2>3. \A p \in Queues : Cardinality(Linking(p)) \in Nat /\ Len(jobs[p]) \in Nat
    BY LinkingFinite DEF TypeOK
  <2>4. \A p \in Queues : ~ Executing(t, p)
    BY <1>2 DEF Executing
  <2>5. exec'[t].got = 0 /\ \A u \in Threads : u # t => exec'[u].got = exec[u].got
    BY <1>2
  <2>6. SUFFICES ASSUME NEW p \in Queues
        PROVE  /\ (\A u \in Threads : ~ (Executing(u, p) \/ (u = t /\ p = q))) =>
                    jobCount[p] = Len(jobs[p]) + Cardinality(Linking(p))
               /\ \A u \in Threads : Executing(u, p) \/ (u = t /\ p = q) =>
                    jobCount[p] = Len(jobs[p]) + Cardinality(Linking(p)) + exec'[u].got
    BY <1>2, <1>5, <2>1 DEF Counts
  <2>7. CASE p = q
    <3>1. jobCount[q] = Len(jobs[q]) + Cardinality(Linking(q))
      BY <1>1, <2>2 DEF Counts
    <3>2. Cardinality(Linking(q)) \in Nat /\ Len(jobs[q]) \in Nat
      BY <1>1, <2>3
    <3>3. jobCount[q] = Len(jobs[q]) + Cardinality(Linking(q)) + exec'[t].got
      BY <2>5, <3>1, <3>2
    <3>4. \A u \in Threads : Executing(u, p) \/ (u = t /\ p = q) => u = t
      BY <2>2, <2>7
    <3>5. ~ \A u \in Threads : ~ (Executing(u, p) \/ (u = t /\ p = q))
      BY <2>7
    <3>6. jobCount[p] = Len(jobs[p]) + Cardinality(Linking(p)) + exec'[t].got
      BY <2>7, <3>3
    <3> QED BY <3>4, <3>5, <3>6
  <2>8. CASE p # q
    BY <2>4, <2>5, <2>8 DEF Counts
  <2> QED BY <2>7, <2>8
<1> QED BY <1>1, <1>3, <1>4, <1>6, <1>7, <1>8

\* PopAll moves the linked jobs into the batch: the sum stays.
LEMMA PopAllStep ==
  ASSUME IInv, NEW t \in Threads, PopAll(t)
  PROVE  IInv'
<1> USE DEF IInv
<1> DEFINE q == current[t]
<1>1. /\ exec[t].pc = "pop" /\ exec[t].got = 0 /\ q \in Queues
      /\ push[t].pc = "out"
      /\ jobs[q] \in Seq(Jobs) /\ Len(jobs[q]) \in Nat
  BY DEF PopAll, Shape, TypeOK
<1>2. /\ exec'[t] = [pc |-> "next", batch |-> jobs[q], got |-> Len(jobs[q])]
      /\ \A u \in Threads : u # t => exec'[u] = exec[u]
      /\ \A p \in Queues : jobs'[p] = IF p = q THEN <<>> ELSE jobs[p]
      /\ UNCHANGED <<jobCount, globalQueue, current, push, pushed>>
  BY DEF PopAll, TypeOK
<1>3. TypeOK'
  <2>1. jobs' \in [Queues -> Seq(Jobs)]
    BY <1>1 DEF PopAll, TypeOK
  <2> HIDE DEF ExecRecords
  <2>2. exec' \in [Threads -> ExecRecords]
    BY <1>1, RecordTypes DEF PopAll, TypeOK
  <2> QED BY <1>2, <2>1, <2>2 DEF TypeOK
<1>4. Shape'
  BY <1>1, <1>2 DEF Shape
<1>5. /\ \A u \in Threads, p \in Queues : Starting(u, p)' <=> Starting(u, p)
      /\ \A u \in Threads, p \in Queues : Executing(u, p)' <=> Executing(u, p)
      /\ \A p \in Queues : Offered(p)' <=> Offered(p)
  BY <1>1, <1>2 DEF Starting, Executing, Offered
<1>6. Exclusive' /\ NeverStranded' /\ NoDuplicates'
  BY <1>2, <1>5 DEF Exclusive, NeverStranded, NoDuplicates
<1>7. Counts'
  <2>1. \A p \in Queues : Linking(p)' = Linking(p)
    BY <1>2 DEF Linking
  <2>2. Executing(t, q) /\ \A p \in Queues : Executing(t, p) => p = q
    BY <1>1 DEF Executing
  <2>3. \A u \in Threads : Executing(u, q) => u = t
    BY <1>1, <2>2 DEF Exclusive
  <2>4. /\ \A p \in Queues : Cardinality(Linking(p)) \in Nat
        /\ Len(jobs'[q]) = 0 /\ \A p \in Queues : p # q => jobs'[p] = jobs[p]
        /\ exec'[t].got = Len(jobs[q])
        /\ \A u \in Threads : u # t => exec'[u].got = exec[u].got
    BY <1>1, <1>2, LinkingFinite
  <2>5. SUFFICES ASSUME NEW p \in Queues
        PROVE  /\ (\A u \in Threads : ~ Executing(u, p)) =>
                    jobCount[p] = Len(jobs'[p]) + Cardinality(Linking(p))
               /\ \A u \in Threads : Executing(u, p) =>
                    jobCount[p] = Len(jobs'[p]) + Cardinality(Linking(p)) + exec'[u].got
    BY <1>2, <1>5, <2>1 DEF Counts
  <2>6. CASE p = q
    <3>1. jobCount[q] = Len(jobs[q]) + Cardinality(Linking(q)) + 0
      BY <1>1, <2>2 DEF Counts
    <3>2. Cardinality(Linking(q)) \in Nat
      BY <1>1, <2>4
    <3>3. jobCount[q] = Len(jobs'[q]) + Cardinality(Linking(q)) + exec'[t].got
      BY <1>1, <2>4, <3>1, <3>2
    <3>4. ~ \A u \in Threads : ~ Executing(u, p)
      BY <2>2, <2>6
    <3>5. \A u \in Threads : Executing(u, p) => u = t
      BY <2>3, <2>6
    <3>6. jobCount[p] = Len(jobs'[p]) + Cardinality(Linking(p)) + exec'[t].got
      BY <2>6, <3>3
    <3> QED BY <3>4, <3>5, <3>6
  <2>7. CASE p # q
    BY <2>2, <2>4, <2>7 DEF Counts
  <2> QED BY <2>6, <2>7
<1> QED BY <1>3, <1>4, <1>6, <1>7

\* Running one job of the batch, and going round again, touch no count.
LEMMA RunStep ==
  ASSUME IInv, NEW t \in Threads, Run(t) \/ Return(t) \/ Again(t)
  PROVE  IInv'
<1> USE DEF IInv
<1>1. /\ UNCHANGED <<jobCount, jobs, globalQueue, current, push, pushed>>
      /\ \A u \in Threads : u # t => exec'[u] = exec[u]
      /\ exec'[t].got = exec[t].got
      /\ exec[t].pc # "out" /\ exec'[t].pc # "out"
      /\ exec'[t].pc = "pop" => exec[t].pc = "clock"
      /\ exec'[t].pc = "run" => exec'[t].batch # <<>>
      /\ exec'[t].pc \in {"next", "run", "pop"}
      /\ exec'[t].pc # "run" => push[t].pc = "out"
  BY DEF Run, Return, Again, TypeOK, Shape
<1>2. TypeOK'
  <2>1. exec' \in [Threads -> ExecRecords]
    <3>0. exec[t] \in ExecRecords
      BY DEF TypeOK
    <3>1. CASE Run(t)
      <4>1. exec' = [exec EXCEPT ![t].pc = "run"]
        BY <3>1 DEF Run
      <4>2. ASSUME NEW S, NEW x \in [pc : {"out", "pop", "next", "run", "clock"},
                                     batch : S, got : Nat]
            PROVE  [x EXCEPT !.pc = "run"]
                     \in [pc : {"out", "pop", "next", "run", "clock"},
                          batch : S, got : Nat]
        OBVIOUS
      <4>3. [exec[t] EXCEPT !.pc = "run"] \in ExecRecords
        BY <3>0, <4>2 DEF ExecRecords
      <4> HIDE DEF ExecRecords
      <4> QED BY <4>1, <4>3 DEF TypeOK
    <3>2. CASE Return(t)
      <4>1. exec[t].batch \in Seq(Jobs) /\ exec[t].batch # <<>>
        BY <3>2 DEF Return, Shape, TypeOK
      <4>2. Tail(exec[t].batch) \in Seq(Jobs)
        BY <4>1
      <4> DEFINE rest == Tail(exec[t].batch)
      <4>3. rest \in Seq(Jobs)
        BY <4>2
      <4>4. exec' = [exec EXCEPT ![t] = [exec[t] EXCEPT !.pc = "next", !.batch = rest]]
        BY <3>2 DEF Return
      <4> HIDE DEF rest, ExecRecords
      <4>5. exec[t] \in ExecRecords
        BY DEF TypeOK
      <4>6. [exec[t] EXCEPT !.pc = "next", !.batch = rest] \in ExecRecords
        BY <4>3, <4>5, ReplaceBatch
      <4> QED BY <4>4, <4>6 DEF TypeOK
    <3>3. CASE Again(t)
      <4>1. exec' = [exec EXCEPT ![t].pc = "pop"]
        BY <3>3 DEF Again
      <4>2. ASSUME NEW S, NEW x \in [pc : {"out", "pop", "next", "run", "clock"},
                                     batch : S, got : Nat]
            PROVE  [x EXCEPT !.pc = "pop"]
                     \in [pc : {"out", "pop", "next", "run", "clock"},
                          batch : S, got : Nat]
        OBVIOUS
      <4>3. exec[t] \in ExecRecords
        BY DEF TypeOK
      <4>4. [exec[t] EXCEPT !.pc = "pop"] \in ExecRecords
        BY <4>2, <4>3
      <4> HIDE DEF ExecRecords
      <4> QED BY <4>1, <4>4 DEF TypeOK
    <3> QED BY <3>1, <3>2, <3>3
  <2> QED BY <1>1, <2>1 DEF TypeOK
<1>3. Shape'
  BY <1>1 DEF Shape
<1>4. /\ \A u \in Threads, p \in Queues : Starting(u, p)' <=> Starting(u, p)
      /\ \A u \in Threads, p \in Queues : Executing(u, p)' <=> Executing(u, p)
      /\ \A p \in Queues : Offered(p)' <=> Offered(p)
      /\ \A u \in Threads : exec'[u].got = exec[u].got
      /\ \A p \in Queues : Linking(p)' = Linking(p)
  BY <1>1 DEF Starting, Executing, Offered, Linking
<1>5. Exclusive' /\ NeverStranded' /\ NoDuplicates' /\ Counts'
  BY <1>1, <1>4 DEF Exclusive, NeverStranded, NoDuplicates, Counts
<1> QED BY <1>2, <1>3, <1>5

\* fetch_sub: either the queue is drained and nobody holds it any more, or
\* the executor still holds it and has jobs to come.
LEMMA SettleStep ==
  ASSUME IInv, NEW t \in Threads, Settle(t)
  PROVE  IInv'
<1> USE DEF IInv
<1> DEFINE q == current[t]
           got == exec[t].got
           drained == jobCount[q] = got
<1>1. /\ exec[t].pc = "next" /\ q \in Queues /\ q # NoQueue
      /\ push[t].pc = "out" /\ got \in Nat /\ jobCount[q] \in Nat
  BY QueueAssumption DEF Settle, Shape, TypeOK
<1>2. /\ exec'[t].got = 0 /\ exec'[t].pc = IF drained THEN "out" ELSE "clock"
      /\ current'[t] = IF drained THEN NoQueue ELSE q
      /\ \A u \in Threads : u # t => exec'[u] = exec[u] /\ current'[u] = current[u]
      /\ jobCount'[q] = jobCount[q] - got
      /\ \A p \in Queues : p # q => jobCount'[p] = jobCount[p]
      /\ UNCHANGED <<jobs, globalQueue, push, pushed>>
  BY <1>1 DEF Settle, LeaveExecute, NotExecuting, TypeOK
<1>3. Executing(t, q) /\ \A p \in Queues : Executing(t, p) => p = q
  BY <1>1 DEF Executing
<1>4. \A u \in Threads : Executing(u, q) => u = t
  BY <1>1, <1>3 DEF Exclusive
<1>5. \A p \in Queues : Cardinality(Linking(p)) \in Nat /\ Len(jobs[p]) \in Nat
  BY LinkingFinite DEF TypeOK
<1>6. /\ jobCount[q] = Len(jobs[q]) + Cardinality(Linking(q)) + got
      /\ jobCount'[q] = Len(jobs[q]) + Cardinality(Linking(q))
      /\ jobCount'[q] \in Nat
  <2>1. jobCount[q] = Len(jobs[q]) + Cardinality(Linking(q)) + got
    BY <1>1, <1>3 DEF Counts
  <2> QED BY <1>1, <1>2, <1>5, <2>1
<1>7. TypeOK'
  <2> HIDE DEF ExecRecords
  <2>1. exec' \in [Threads -> ExecRecords] /\ current' \in [Threads -> Queues \cup {NoQueue}]
    BY RecordTypes DEF Settle, LeaveExecute, TypeOK
  <2>2. jobCount' \in [Queues -> Nat]
    BY <1>2, <1>6 DEF Settle, TypeOK
  <2> QED BY <1>2, <2>1, <2>2 DEF TypeOK
<1>8. Shape'
  BY <1>1, <1>2 DEF Shape
<1>9. /\ \A u \in Threads, p \in Queues : Starting(u, p)' <=> Starting(u, p)
      /\ \A u \in Threads, p \in Queues :
           Executing(u, p)' <=> Executing(u, p) /\ ~ (drained /\ u = t)
      /\ \A p \in Queues : Offered(p)' <=> Offered(p)
  BY <1>1, <1>2 DEF Starting, Executing, Offered
<1>10. Exclusive' /\ NoDuplicates'
  BY <1>2, <1>9 DEF Exclusive, NoDuplicates
<1>11. NeverStranded'
  <2>1. SUFFICES ASSUME NEW p \in Queues
        PROVE  jobCount'[p] > 0 <=>
                 \/ Offered(p)
                 \/ \E u \in Threads : \/ Starting(u, p)
                                       \/ Executing(u, p) /\ ~ (drained /\ u = t)
    BY <1>9 DEF NeverStranded
  <2>2. CASE p # q
    BY <1>2, <1>3, <2>2 DEF NeverStranded
  <2>3. CASE p = q
    <3>1. ~ Offered(q) /\ \A u \in Threads : ~ Starting(u, q)
      BY <1>1, <1>3 DEF Exclusive
    <3>2. jobCount'[q] > 0 <=> ~ drained
      BY <1>1, <1>2, <1>6
    <3> QED BY <1>3, <1>4, <2>3, <3>1, <3>2
  <2> QED BY <2>2, <2>3
<1>12. Counts'
  <2>1. \A p \in Queues : Linking(p)' = Linking(p)
    BY <1>2 DEF Linking
  <2>2. SUFFICES ASSUME NEW p \in Queues
        PROVE  /\ (\A u \in Threads : ~ (Executing(u, p) /\ ~ (drained /\ u = t))) =>
                    jobCount'[p] = Len(jobs[p]) + Cardinality(Linking(p))
               /\ \A u \in Threads : Executing(u, p) /\ ~ (drained /\ u = t) =>
                    jobCount'[p] = Len(jobs[p]) + Cardinality(Linking(p)) + exec'[u].got
    BY <1>2, <1>9, <2>1 DEF Counts
  <2>3. CASE p = q
    <3>1. jobCount'[p] = Len(jobs[p]) + Cardinality(Linking(p))
      BY <1>6, <2>3
    <3>2. jobCount'[p] = Len(jobs[p]) + Cardinality(Linking(p)) + exec'[t].got
      BY <1>2, <1>5, <3>1
    <3>3. \A u \in Threads : Executing(u, p) => u = t
      BY <1>4, <2>3
    <3> QED BY <3>1, <3>2, <3>3
  <2>4. CASE p # q
    <3>1. ~ Executing(t, p)
      BY <1>3, <2>4
    <3> QED BY <1>2, <2>4, <3>1 DEF Counts
  <2> QED BY <2>3, <2>4
<1> QED BY <1>7, <1>8, <1>10, <1>11, <1>12

\* End of the slice: the executor offers the queue it held.
LEMMA SliceOverStep ==
  ASSUME IInv, NEW t \in Threads, SliceOver(t)
  PROVE  IInv'
<1> USE DEF IInv
<1> DEFINE q == current[t]
<1>1. /\ exec[t].pc = "clock" /\ exec[t].got = 0 /\ q \in Queues
      /\ push[t].pc = "out"
  BY DEF SliceOver, Shape, TypeOK
<1>2. /\ exec'[t] = NotExecuting /\ current'[t] = NoQueue
      /\ \A u \in Threads : u # t => exec'[u] = exec[u] /\ current'[u] = current[u]
      /\ UNCHANGED <<jobCount, jobs, push, pushed>>
  BY DEF SliceOver, LeaveExecute, TypeOK
<1>3. Executing(t, q) /\ \A p \in Queues : Executing(t, p) => p = q
  BY <1>1 DEF Executing
<1>4. ~ Offered(q) /\ \A u \in Threads : Executing(u, q) => u = t
  BY <1>1, <1>3 DEF Exclusive
<1>5. (\A p : Offered(p)' <=> Offered(p) \/ p = q) /\ NoDuplicates'
  BY <1>1, <1>4, Offer DEF SliceOver
<1>6. TypeOK'
  <2> HIDE DEF ExecRecords
  <2>1. exec' \in [Threads -> ExecRecords] /\ current' \in [Threads -> Queues \cup {NoQueue}]
    BY RecordTypes DEF SliceOver, LeaveExecute, TypeOK
  <2>2. globalQueue' \in Seq(Queues)
    BY <1>1 DEF SliceOver, TypeOK
  <2> QED BY <1>2, <2>1, <2>2 DEF TypeOK
<1>7. Shape'
  BY <1>1, <1>2 DEF Shape, NotExecuting
<1>8. /\ \A u \in Threads, p \in Queues : Starting(u, p)' <=> Starting(u, p)
      /\ \A u \in Threads, p \in Queues :
           Executing(u, p)' <=> Executing(u, p) /\ u # t
  BY <1>1, <1>2 DEF Starting, Executing, NotExecuting
<1>9. Exclusive'
  BY <1>1, <1>3, <1>4, <1>5, <1>8 DEF Exclusive
<1>10. NeverStranded'
  BY <1>1, <1>2, <1>3, <1>5, <1>8 DEF NeverStranded
<1>11. Counts'
  <2>1. \A p \in Queues : Linking(p)' = Linking(p)
    BY <1>2 DEF Linking
  <2>2. SUFFICES ASSUME NEW p \in Queues
        PROVE  /\ (\A u \in Threads : ~ (Executing(u, p) /\ u # t)) =>
                    jobCount[p] = Len(jobs[p]) + Cardinality(Linking(p))
               /\ \A u \in Threads : Executing(u, p) /\ u # t =>
                    jobCount[p] = Len(jobs[p]) + Cardinality(Linking(p)) + exec[u].got
    BY <1>2, <1>8, <2>1 DEF Counts
  <2>3. CASE p = q
    <3>1. jobCount[q] = Len(jobs[q]) + Cardinality(Linking(q)) + 0
      BY <1>1, <1>3 DEF Counts
    <3>2. Cardinality(Linking(q)) \in Nat /\ Len(jobs[q]) \in Nat
      BY <1>1, LinkingFinite DEF TypeOK
    <3>3. jobCount[p] = Len(jobs[p]) + Cardinality(Linking(p))
      BY <2>3, <3>1, <3>2
    <3> QED BY <1>4, <2>3, <3>3
  <2>4. CASE p # q
    BY <1>3, <2>4 DEF Counts
  <2> QED BY <2>3, <2>4
<1> QED BY <1>5, <1>6, <1>7, <1>9, <1>10, <1>11

LEMMA NextIInv == IInv /\ [Next]_vars => IInv'
<1> SUFFICES ASSUME IInv, [Next]_vars PROVE IInv'
  OBVIOUS
<1>1. CASE UNCHANGED vars
  <2>1. /\ \A t \in Threads, q \in Queues : Starting(t, q)' <=> Starting(t, q)
        /\ \A t \in Threads, q \in Queues : Executing(t, q)' <=> Executing(t, q)
        /\ \A q \in Queues : Offered(q)' <=> Offered(q)
        /\ \A q \in Queues : Linking(q)' = Linking(q)
    BY <1>1 DEF vars, Starting, Executing, Offered, Linking
  <2>2. TypeOK' /\ Shape' /\ NoDuplicates'
    BY <1>1 DEF vars, IInv, TypeOK, Shape, NoDuplicates
  <2>3. Exclusive' /\ NeverStranded' /\ Counts'
    BY <1>1, <2>1 DEF vars, IInv, Exclusive, NeverStranded, Counts
  <2> QED BY <2>2, <2>3 DEF IInv
<1>2. ASSUME NEW t \in Threads, ThreadStep(t)
      PROVE  IInv'
  BY <1>2, CountStep, LinkStep, StartInlineStep, StartLaterStep, ServeStep,
     PopAllStep, RunStep, SettleStep, SliceOverStep DEF ThreadStep, Progress
<1> QED BY <1>1, <1>2 DEF Next

\* The inductive invariant holds of every reachable state of the job system.
THEOREM Inductive == Spec => []IInv
BY InitIInv, NextIInv, PTL DEF Spec

-----------------------------------------------------------------------------
(* What follows from it *)

\* Counters never go negative and every record stays well formed.
THEOREM TypeCorrect == Spec => []TypeOK
BY Inductive, PTL DEF IInv

\* JobQueue::Push and Execute never let two threads run, start or offer one
\* queue at the same time.
THEOREM SingleExecutor == Spec => []OneToken
<1>1. IInv => OneToken
  BY DEF IInv, Exclusive, NoDuplicates, OneToken
<1> QED BY <1>1, Inductive, PTL

\* A queue with counted jobs always has somebody bound to run it.
THEOREM NoLostQueue == Spec => []NeverStranded
BY Inductive, PTL DEF IInv

\* The atomic count is exactly the jobs not yet settled.
THEOREM CountIsExact == Spec => []CountExact
<1>1. IInv => CountExact
  BY DEF IInv, Counts, CountExact
<1> QED BY <1>1, Inductive, PTL

-----------------------------------------------------------------------------
(* The refinement of SerialQueue *)

\* Between two rounds of Execute a thread holds no batch.
BatchIdle ==
  \A t \in Threads : exec[t].pc \in {"out", "pop", "clock"} => exec[t].batch = <<>>

LEMMA InitBatchIdle == Init => BatchIdle
BY DEF Init, NotExecuting, BatchIdle

LEMMA NextBatchIdle == IInv /\ BatchIdle /\ [Next]_vars => BatchIdle'
<1> SUFFICES ASSUME IInv, BatchIdle, [Next]_vars PROVE BatchIdle'
  OBVIOUS
<1>1. exec \in [Threads -> ExecRecords]
  BY DEF IInv, TypeOK
<1>2. CASE exec' = exec
  BY <1>2 DEF BatchIdle
<1>3. ASSUME NEW t \in Threads, Progress(t) \/ ServeGlobal(t)
      PROVE  BatchIdle'
  BY <1>1, <1>3 DEF BatchIdle, Progress, Link, StartInline, StartLater, PopAll,
     Run, Return, Settle, Again, SliceOver, ServeGlobal, EnterExecute,
     LeaveExecute, NotExecuting
<1>4. ASSUME NEW t \in Threads, NEW q \in Queues, NEW only \in BOOLEAN,
             Count(t, q, only)
      PROVE  exec' = exec
  BY <1>4 DEF Count
<1> QED BY <1>2, <1>3, <1>4 DEF Next, ThreadStep, vars

\* What the mapping shows of a queue, by whether somebody executes it.
ViewOf(q) ==
  /\ (\A t \in Threads : ~ Executing(t, q)) =>
       WaitingIn(q) = jobs[q] /\ RunningIn(q) = <<>>
  /\ \A t \in Threads : Executing(t, q) =>
       /\ exec[t].pc = "run" =>
            /\ WaitingIn(q) = Tail(exec[t].batch) \o jobs[q]
            /\ RunningIn(q) = <<Head(exec[t].batch)>>
       /\ exec[t].pc # "run" =>
            /\ WaitingIn(q) = exec[t].batch \o jobs[q]
            /\ RunningIn(q) = <<>>

View == \A q \in Queues : ViewOf(q)

\* The executor is unique, so CHOOSE can only name it.
LEMMA ViewHolds == IInv => View
<1> SUFFICES ASSUME IInv, NEW q \in Queues PROVE ViewOf(q)
  BY DEF View
<1>1. ASSUME \A t \in Threads : ~ Executing(t, q)
      PROVE  WaitingIn(q) = jobs[q] /\ RunningIn(q) = <<>>
  <2>1. Executor(q) = {}
    BY <1>1 DEF Executor
  <2> QED BY <2>1 DEF WaitingIn, RunningIn
<1>2. ASSUME NEW t \in Threads, Executing(t, q)
      PROVE  /\ exec[t].pc = "run" =>
                  /\ WaitingIn(q) = Tail(exec[t].batch) \o jobs[q]
                  /\ RunningIn(q) = <<Head(exec[t].batch)>>
             /\ exec[t].pc # "run" =>
                  /\ WaitingIn(q) = exec[t].batch \o jobs[q]
                  /\ RunningIn(q) = <<>>
  <2>1. Executor(q) = {t}
    BY <1>2 DEF Executor, IInv, Exclusive
  <2>2. (CHOOSE u \in Executor(q) : TRUE) = t
    BY <2>1
  <2>3. WaitingIn(q) = (IF exec[t].pc = "run" THEN Tail(exec[t].batch)
                        ELSE exec[t].batch) \o jobs[q]
    BY <2>1, <2>2 DEF WaitingIn, BatchOf
  <2>4. ASSUME exec[t].pc = "run"
        PROVE  RunningIn(q) = <<Head(exec[t].batch)>>
    <3>1. (CHOOSE u \in Executor(q) : exec[u].pc = "run") = t
      BY <2>1, <2>4
    <3>2. \E u \in Executor(q) : exec[u].pc = "run"
      BY <2>1, <2>4
    <3> QED BY <3>1, <3>2 DEF RunningIn, BatchOf
  <2>5. ASSUME exec[t].pc # "run"
        PROVE  RunningIn(q) = <<>>
    BY <2>1, <2>5 DEF RunningIn
  <2> QED BY <2>3, <2>4, <2>5
<1> QED BY <1>1, <1>2 DEF ViewOf

\* Appending to the second part of a concatenation appends to the whole.
LEMMA ConcatAppend ==
  ASSUME NEW S
  PROVE  \A s, u \in Seq(S), x \in S : s \o Append(u, x) = Append(s \o u, x)
OBVIOUS

\* Its head comes off the first part, if that is not empty.
LEMMA ConcatHeadTail ==
  ASSUME NEW S
  PROVE  \A s, u \in Seq(S) : s # <<>> => /\ s \o u # <<>>
                                          /\ Head(s \o u) = Head(s)
                                          /\ Tail(s \o u) = Tail(s) \o u
OBVIOUS

\* A queue with the same executor, batch and list looks the same.
LEMMA SameExecutor ==
  ASSUME NEW p \in Queues, ViewOf(p), ViewOf(p)', jobs'[p] = jobs[p],
         \A u \in Threads : Executing(u, p)' <=> Executing(u, p),
         \A u \in Threads : Executing(u, p) => exec'[u] = exec[u]
  PROVE  WaitingIn(p)' = WaitingIn(p) /\ RunningIn(p)' = RunningIn(p)
<1>1. \A u \in Threads : Executing(u, p)' <=> Executing(u, p)
  OBVIOUS
<1>2. CASE \A u \in Threads : ~ Executing(u, p)
  BY <1>1, <1>2 DEF ViewOf
<1>3. ASSUME NEW u \in Threads, Executing(u, p)
      PROVE  WaitingIn(p)' = WaitingIn(p) /\ RunningIn(p)' = RunningIn(p)
  <2>1. /\ exec[u].pc = "run" =>
              /\ WaitingIn(p) = Tail(exec[u].batch) \o jobs[p]
              /\ RunningIn(p) = <<Head(exec[u].batch)>>
        /\ exec[u].pc # "run" =>
              /\ WaitingIn(p) = exec[u].batch \o jobs[p]
              /\ RunningIn(p) = <<>>
    BY <1>3 DEF ViewOf
  <2>2. /\ exec'[u].pc = "run" =>
              /\ WaitingIn(p)' = Tail(exec'[u].batch) \o jobs'[p]
              /\ RunningIn(p)' = <<Head(exec'[u].batch)>>
        /\ exec'[u].pc # "run" =>
              /\ WaitingIn(p)' = exec'[u].batch \o jobs'[p]
              /\ RunningIn(p)' = <<>>
    BY <1>1, <1>3 DEF ViewOf
  <2>3. exec'[u] = exec[u]
    BY <1>3
  <2> QED BY <2>1, <2>2, <2>3, Zenon
<1> QED BY <1>2, <1>3

\* So does one that the step's thread has nothing to do with.
LEMMA Untouched ==
  ASSUME NEW p \in Queues, ViewOf(p), ViewOf(p)', NEW t \in Threads,
         ~ Executing(t, p), ~ Executing(t, p)', jobs'[p] = jobs[p],
         \A u \in Threads : u # t => exec'[u] = exec[u] /\ current'[u] = current[u]
  PROVE  WaitingIn(p)' = WaitingIn(p) /\ RunningIn(p)' = RunningIn(p)
<1>1. \A u \in Threads : Executing(u, p)' <=> Executing(u, p)
  BY DEF Executing
<1>2. \A u \in Threads : Executing(u, p) => exec'[u] = exec[u]
  OBVIOUS
<1> QED BY <1>1, <1>2, SameExecutor

\* Linking a job is the submission of it.
LEMMA LinkSubmits ==
  ASSUME IInv, View, View', NEW t \in Threads, Link(t)
  PROVE  Serial!Submit(push[t].queue, push[t].job) /\ push[t].queue \in Queues
           /\ push[t].job \in Jobs
<1> DEFINE q == push[t].queue
           j == push[t].job
<1>1. /\ q \in Queues /\ j \in Jobs
      /\ jobs \in [Queues -> Seq(Jobs)]
      /\ \A u \in Threads : exec[u].batch \in Seq(Jobs)
      /\ \A u \in Threads : exec[u].pc = "run" => exec[u].batch # <<>>
  BY RecordFields DEF Link, IInv, Shape, TypeOK
<1>2. /\ exec' = exec /\ current' = current
      /\ \A p \in Queues : jobs'[p] = IF p = q THEN Append(jobs[p], j) ELSE jobs[p]
  BY <1>1 DEF Link
<1>3. \A u \in Threads, p \in Queues : Executing(u, p)' <=> Executing(u, p)
  BY <1>2 DEF Executing
<1>4. ASSUME NEW p \in Queues
      PROVE  /\ WaitingIn(p)' = IF p = q THEN Append(WaitingIn(p), j) ELSE WaitingIn(p)
             /\ RunningIn(p)' = RunningIn(p)
  <2>0. ViewOf(p) /\ ViewOf(p)'
    BY DEF View
  <2>1. CASE \A u \in Threads : ~ Executing(u, p)
    BY <1>2, <1>3, <2>0, <2>1 DEF ViewOf
  <2>2. ASSUME NEW u \in Threads, Executing(u, p)
        PROVE  /\ WaitingIn(p)' = IF p = q THEN Append(WaitingIn(p), j) ELSE WaitingIn(p)
               /\ RunningIn(p)' = RunningIn(p)
    <3>1. jobs[p] \in Seq(Jobs) /\ exec[u].batch \in Seq(Jobs)
      BY <1>1
    <3>2. exec[u].pc = "run" => Tail(exec[u].batch) \in Seq(Jobs)
      BY <1>1
    <3>3. /\ exec[u].batch \o Append(jobs[p], j) = Append(exec[u].batch \o jobs[p], j)
          /\ exec[u].pc = "run" =>
               Tail(exec[u].batch) \o Append(jobs[p], j)
                 = Append(Tail(exec[u].batch) \o jobs[p], j)
      <4>1. \A s, r \in Seq(Jobs), x \in Jobs : s \o Append(r, x) = Append(s \o r, x)
        BY ConcatAppend
      <4> QED BY <1>1, <3>1, <3>2, <4>1, Zenon
    <3>4. /\ exec[u].pc = "run" =>
                /\ WaitingIn(p) = Tail(exec[u].batch) \o jobs[p]
                /\ RunningIn(p) = <<Head(exec[u].batch)>>
          /\ exec[u].pc # "run" =>
                /\ WaitingIn(p) = exec[u].batch \o jobs[p]
                /\ RunningIn(p) = <<>>
      BY <2>0, <2>2 DEF ViewOf
    <3>5. /\ exec[u].pc = "run" =>
                /\ WaitingIn(p)' = Tail(exec[u].batch) \o jobs'[p]
                /\ RunningIn(p)' = <<Head(exec[u].batch)>>
          /\ exec[u].pc # "run" =>
                /\ WaitingIn(p)' = exec[u].batch \o jobs'[p]
                /\ RunningIn(p)' = <<>>
      BY <1>2, <1>3, <2>0, <2>2 DEF ViewOf
    <3>6. jobs'[p] = IF p = q THEN Append(jobs[p], j) ELSE jobs[p]
      BY <1>2
    <3>7. CASE p = q
      BY <3>3, <3>4, <3>5, <3>6, <3>7, Zenon
    <3>8. CASE p # q
      BY <3>4, <3>5, <3>6, <3>8, Zenon
    <3> QED BY <3>7, <3>8
  <2> QED BY <2>1, <2>2
<1> QED BY <1>1, <1>4 DEF Serial!Submit

\* Calling a job is the start of it.
LEMMA RunStarts ==
  ASSUME IInv, View, View', NEW t \in Threads, Run(t)
  PROVE  current[t] \in Queues /\ Serial!Start(current[t])
<1> DEFINE b == exec[t].batch
<1>0. PICK q \in Queues : q = current[t]
  BY DEF Run, IInv, Shape, TypeOK
<1>1. /\ q \in Queues /\ b \in Seq(Jobs) /\ b # <<>> /\ jobs[q] \in Seq(Jobs)
      /\ exec[t].pc = "next" /\ Head(b) \in Jobs
  BY <1>0, RecordFields DEF Run, IInv, Shape, TypeOK
<1>2. /\ exec'[t].pc = "run" /\ exec'[t].batch = b
      /\ \A u \in Threads : u # t => exec'[u] = exec[u]
      /\ jobs' = jobs /\ current' = current
  BY DEF Run, IInv, TypeOK
<1>3. Executing(t, q) /\ Executing(t, q)'
  BY <1>0, <1>1, <1>2 DEF Executing
<1>4. /\ WaitingIn(q) = b \o jobs[q] /\ RunningIn(q) = <<>>
      /\ WaitingIn(q)' = Tail(b) \o jobs[q] /\ RunningIn(q)' = <<Head(b)>>
  BY <1>1, <1>2, <1>3 DEF View, ViewOf
<1>5. /\ WaitingIn(q) # <<>>
      /\ Head(WaitingIn(q)) = Head(b)
      /\ WaitingIn(q)' = Tail(WaitingIn(q))
  <2>1. \A s, r \in Seq(Jobs) : s # <<>> => /\ s \o r # <<>>
                                            /\ Head(s \o r) = Head(s)
                                            /\ Tail(s \o r) = Tail(s) \o r
    BY ConcatHeadTail
  <2> QED BY <1>1, <1>4, <2>1, Zenon
<1>6. ASSUME NEW p \in Queues, p # q
      PROVE  WaitingIn(p)' = WaitingIn(p) /\ RunningIn(p)' = RunningIn(p)
  <2>1. ~ Executing(t, p) /\ ~ Executing(t, p)'
    BY <1>0, <1>2, <1>6 DEF Executing
  <2>2. ViewOf(p) /\ ViewOf(p)'
    BY DEF View
  <2> QED BY <1>2, <2>1, <2>2, Untouched
<1>7. \A p \in Queues :
        /\ WaitingIn(p)' = IF p = q THEN Tail(WaitingIn(q)) ELSE WaitingIn(p)
        /\ RunningIn(p)' = IF p = q THEN <<Head(WaitingIn(q))>> ELSE RunningIn(p)
  BY <1>4, <1>5, <1>6
<1>8. q \in Queues /\ WaitingIn(q) # <<>> /\ RunningIn(q) = <<>>
  BY <1>1, <1>4, <1>5
<1>9. Serial!Start(q)
  BY <1>7, <1>8 DEF Serial!Start
<1> QED BY <1>0, <1>8, <1>9

\* Its return is the finish.
LEMMA ReturnFinishes ==
  ASSUME IInv, View, View', NEW t \in Threads, Return(t)
  PROVE  current[t] \in Queues /\ Serial!Finish(current[t])
<1> DEFINE b == exec[t].batch
<1>0. PICK q \in Queues : q = current[t]
  BY DEF Return, IInv, Shape, TypeOK
<1>1. q \in Queues /\ exec[t].pc = "run"
  BY DEF Return
<1>2. /\ exec'[t].pc = "next" /\ exec'[t].batch = Tail(b)
      /\ \A u \in Threads : u # t => exec'[u] = exec[u]
      /\ jobs' = jobs /\ current' = current
  BY DEF Return, IInv, TypeOK
<1>3. Executing(t, q) /\ Executing(t, q)'
  BY <1>0, <1>1, <1>2 DEF Executing
<1>4. /\ WaitingIn(q) = Tail(b) \o jobs[q] /\ RunningIn(q) = <<Head(b)>>
      /\ WaitingIn(q)' = Tail(b) \o jobs[q] /\ RunningIn(q)' = <<>>
  BY <1>1, <1>2, <1>3 DEF View, ViewOf
<1>5. ASSUME NEW p \in Queues, p # q
      PROVE  WaitingIn(p)' = WaitingIn(p) /\ RunningIn(p)' = RunningIn(p)
  <2>1. ~ Executing(t, p) /\ ~ Executing(t, p)'
    BY <1>0, <1>2, <1>5 DEF Executing
  <2>2. ViewOf(p) /\ ViewOf(p)'
    BY DEF View
  <2> QED BY <1>2, <2>1, <2>2, Untouched
<1>6. RunningIn(q) # <<>>
  BY <1>4
<1>7. \A p \in Queues :
        /\ WaitingIn(p)' = WaitingIn(p)
        /\ RunningIn(p)' = IF p = q THEN <<>> ELSE RunningIn(p)
  BY <1>4, <1>5
<1>8. Serial!Finish(q)
  BY <1>1, <1>6, <1>7 DEF Serial!Finish
<1> QED BY <1>0, <1>1, <1>8

\* Same(p): the step shows nothing of queue p.
Same(p) == WaitingIn(p)' = WaitingIn(p) /\ RunningIn(p)' = RunningIn(p)

\* A queue nobody executed and thread t now executes without a batch.
LEMMA Entered ==
  ASSUME IInv, View, View', NEW t \in Threads, NEW q \in Queues,
         \A u \in Threads : ~ Executing(u, q), Executing(t, q)',
         exec'[t].pc # "run", exec'[t].batch = <<>>, jobs' = jobs
  PROVE  Same(q)
<1>1. WaitingIn(q) = jobs[q] /\ RunningIn(q) = <<>>
  BY DEF View, ViewOf
<1>2. WaitingIn(q)' = exec'[t].batch \o jobs'[q] /\ RunningIn(q)' = <<>>
  BY DEF View, ViewOf
<1>3. <<>> \o jobs[q] = jobs[q]
  <2>1. jobs[q] \in Seq(Jobs)
    BY DEF IInv, TypeOK
  <2> QED BY <2>1
<1> QED BY <1>1, <1>2, <1>3 DEF Same

\* A queue that thread t left between two rounds.
LEMMA Left ==
  ASSUME IInv, View, View', NEW t \in Threads, NEW q \in Queues,
         \A u \in Threads : ~ Executing(u, q)', Executing(t, q),
         exec[t].pc # "run", exec[t].batch = <<>>, jobs' = jobs
  PROVE  Same(q)
<1>1. WaitingIn(q)' = jobs'[q] /\ RunningIn(q)' = <<>>
  BY DEF View, ViewOf
<1>2. WaitingIn(q) = exec[t].batch \o jobs[q] /\ RunningIn(q) = <<>>
  BY DEF View, ViewOf
<1>3. <<>> \o jobs[q] = jobs[q]
  <2>1. jobs[q] \in Seq(Jobs)
    BY DEF IInv, TypeOK
  <2> QED BY <2>1
<1> QED BY <1>1, <1>2, <1>3 DEF Same

\* A queue that thread t goes on executing, before its first job of a round.
LEMMA Kept ==
  ASSUME View, View', NEW t \in Threads, NEW q \in Queues,
         Executing(t, q), Executing(t, q)',
         exec[t].pc # "run", exec'[t].pc # "run",
         exec'[t].batch \o jobs'[q] = exec[t].batch \o jobs[q]
  PROVE  Same(q)
<1>1. WaitingIn(q)' = exec'[t].batch \o jobs'[q] /\ RunningIn(q)' = <<>>
  BY DEF View, ViewOf
<1>2. WaitingIn(q) = exec[t].batch \o jobs[q] /\ RunningIn(q) = <<>>
  BY DEF View, ViewOf
<1> QED BY <1>1, <1>2 DEF Same

\* Whatever a step of thread t does to one queue it executes, the others look
\* the same.
LEMMA Others ==
  ASSUME View, View', NEW t \in Threads, NEW q \in Queues,
         exec[t].pc = "out" \/ current[t] = q,
         exec'[t].pc = "out" \/ current'[t] = q,
         \A p \in Queues : p # q => jobs'[p] = jobs[p],
         \A u \in Threads : u # t => exec'[u] = exec[u] /\ current'[u] = current[u]
  PROVE  \A p \in Queues : p # q => Same(p)
<1> SUFFICES ASSUME NEW p \in Queues, p # q PROVE Same(p)
  OBVIOUS
<1>1. ~ Executing(t, p) /\ ~ Executing(t, p)'
  BY DEF Executing
<1>2. ViewOf(p) /\ ViewOf(p)'
  BY DEF View
<1> QED BY <1>1, <1>2, Untouched DEF Same

\* Entering a queue shows nothing of any.
LEMMA EnterStutters ==
  ASSUME IInv, View, View', NEW t \in Threads, StartInline(t) \/ ServeGlobal(t)
  PROVE  \A p \in Queues : Same(p)
<1>1. PICK q \in Queues : /\ EnterExecute(t, q)
                          /\ exec[t].pc = "out"
                          /\ \A u \in Threads : ~ Executing(u, q)
  <2>1. CASE StartInline(t)
    <3>1. /\ push[t].queue \in Queues /\ Starting(t, push[t].queue)
          /\ exec[t].pc = "out"
      BY <2>1 DEF StartInline, RunsInline, IInv, Shape, Starting
    <3> QED BY <2>1, <3>1 DEF StartInline, IInv, Exclusive
  <2>2. CASE ServeGlobal(t)
    <3>1. globalQueue # <<>> /\ globalQueue' = Tail(globalQueue) /\ exec[t].pc = "out"
      BY <2>2 DEF ServeGlobal
    <3>2. Head(globalQueue) \in Queues /\ Offered(Head(globalQueue))
      BY <3>1, Withdraw DEF IInv
    <3> QED BY <2>2, <3>1, <3>2 DEF ServeGlobal, IInv, Exclusive
  <2> QED BY <2>1, <2>2
<1>2. /\ exec'[t].pc = "pop" /\ exec'[t].batch = <<>> /\ current'[t] = q
      /\ \A u \in Threads : u # t => exec'[u] = exec[u] /\ current'[u] = current[u]
  BY <1>1 DEF EnterExecute, NotExecuting, IInv, TypeOK
<1>3. jobs' = jobs
  BY DEF StartInline, ServeGlobal
<1>4. Executing(t, q)'
  BY <1>2 DEF Executing
<1>5. Same(q)
  BY <1>1, <1>2, <1>3, <1>4, Entered
<1>6. \A p \in Queues : p # q => Same(p)
  BY <1>1, <1>2, <1>3, Others
<1> QED BY <1>5, <1>6

\* So do popping the list, another round, and letting go of the queue.
LEMMA RoundStutters ==
  ASSUME IInv, BatchIdle, View, View', NEW t \in Threads,
         PopAll(t) \/ Settle(t) \/ Again(t) \/ SliceOver(t)
  PROVE  \A p \in Queues : Same(p)
<1>0. PICK q \in Queues : q = current[t]
  BY DEF PopAll, Settle, Again, SliceOver, IInv, TypeOK, Shape
<1>1. /\ q \in Queues /\ q # NoQueue /\ jobs[q] \in Seq(Jobs)
      /\ exec[t].pc \in {"pop", "next", "clock"} /\ exec[t].batch = <<>>
  BY QueueAssumption
     DEF PopAll, Settle, Again, SliceOver, IInv, TypeOK, Shape, BatchIdle
<1>2. Executing(t, q) /\ \A u \in Threads : Executing(u, q) => u = t
  BY <1>0, <1>1 DEF Executing, IInv, Exclusive
<1>3. /\ \A u \in Threads : u # t => exec'[u] = exec[u] /\ current'[u] = current[u]
      /\ \A p \in Queues : p # q => jobs'[p] = jobs[p]
      /\ \/ exec'[t].pc = "out" /\ current'[t] = NoQueue /\ jobs' = jobs
         \/ /\ exec'[t].pc \in {"pop", "next", "clock"} /\ current'[t] = q
            /\ \/ exec'[t].batch = <<>> /\ jobs' = jobs
               \/ exec'[t].batch = jobs[q] /\ jobs'[q] = <<>>
  <2>1. CASE PopAll(t)
    BY <1>0, <1>1, <2>1 DEF PopAll, IInv, TypeOK
  <2>2. CASE Settle(t)
    BY <1>0, <1>1, <2>2 DEF Settle, LeaveExecute, NotExecuting, IInv, TypeOK
  <2>3. CASE Again(t)
    BY <1>0, <1>1, <2>3 DEF Again, IInv, TypeOK
  <2>4. CASE SliceOver(t)
    BY <1>0, <1>1, <2>4 DEF SliceOver, LeaveExecute, NotExecuting, IInv, TypeOK
  <2> QED BY <2>1, <2>2, <2>3, <2>4
<1>4. Same(q)
  <2>1. CASE exec'[t].pc = "out"
    <3>1. \A u \in Threads : ~ Executing(u, q)'
      BY <1>2, <1>3, <2>1 DEF Executing
    <3>2. jobs' = jobs
      BY <1>3, <2>1
    <3> QED BY <1>1, <1>2, <3>1, <3>2, Left
  <2>2. CASE exec'[t].pc # "out"
    <3>1. Executing(t, q)'
      BY <1>3, <2>2 DEF Executing
    <3>2. /\ exec'[t].pc # "run"
          /\ \/ exec'[t].batch = <<>> /\ jobs'[q] = jobs[q]
             \/ exec'[t].batch = jobs[q] /\ jobs'[q] = <<>>
      BY <1>3, <2>2
    <3>3. jobs[q] \o <<>> = jobs[q] /\ <<>> \o jobs[q] = jobs[q]
      BY <1>1
    <3>4. exec'[t].batch \o jobs'[q] = exec[t].batch \o jobs[q]
      BY <1>1, <3>2, <3>3, Zenon
    <3>5. exec[t].pc # "run"
      BY <1>1
    <3> QED BY <1>1, <1>2, <3>1, <3>2, <3>4, <3>5, Kept
  <2> QED BY <2>1, <2>2
<1>5. exec'[t].pc = "out" \/ current'[t] = q
  BY <1>3
<1>6. \A p \in Queues : p # q => Same(p)
  BY <1>0, <1>1, <1>3, <1>5, Others
<1> QED BY <1>4, <1>6

\* Steps that leave lists and executors alone.
LEMMA QuietStutters ==
  ASSUME View, View', UNCHANGED <<jobs, exec, current>>
  PROVE  \A p \in Queues : Same(p)
<1> SUFFICES ASSUME NEW p \in Queues PROVE Same(p)
  OBVIOUS
<1>1. \A u \in Threads : Executing(u, p)' <=> Executing(u, p)
  BY DEF Executing
<1>2. ViewOf(p) /\ ViewOf(p)'
  BY DEF View
<1> QED BY <1>1, <1>2, SameExecutor DEF Same

\* What shows nothing of any queue leaves the abstract variables unchanged.
LEMMA SameStutters ==
  ASSUME \A p \in Queues : Same(p)
  PROVE  UNCHANGED <<[q \in Queues |-> WaitingIn(q)], [q \in Queues |-> RunningIn(q)]>>
BY DEF Same

\* Every step is a step of SerialQueue or shows nothing.
LEMMA StepRefines ==
  ASSUME IInv, BatchIdle, View, View', [Next]_vars
  PROVE  [Serial!Next]_<<[q \in Queues |-> WaitingIn(q)], [q \in Queues |-> RunningIn(q)]>>
<1>1. CASE UNCHANGED vars
  BY <1>1, QuietStutters, SameStutters DEF vars
<1>2. ASSUME NEW t \in Threads, ThreadStep(t)
      PROVE  \/ Serial!Next
             \/ UNCHANGED <<[q \in Queues |-> WaitingIn(q)],
                            [q \in Queues |-> RunningIn(q)]>>
  <2>1. ASSUME NEW q \in Queues, NEW only \in BOOLEAN, Count(t, q, only)
        PROVE  UNCHANGED <<jobs, exec, current>>
    BY <2>1 DEF Count
  <2>2. CASE StartLater(t)
    <3>1. UNCHANGED <<jobs, exec, current>>
      BY <2>2 DEF StartLater
    <3> QED BY <3>1, QuietStutters, SameStutters
  <2>3. CASE Link(t)
    BY <2>3, LinkSubmits DEF Serial!Next
  <2>4. CASE Run(t)
    BY <2>4, RunStarts DEF Serial!Next
  <2>5. CASE Return(t)
    BY <2>5, ReturnFinishes DEF Serial!Next
  <2>6. CASE StartInline(t) \/ ServeGlobal(t)
    BY <2>6, EnterStutters, SameStutters
  <2>7. CASE PopAll(t) \/ Settle(t) \/ Again(t) \/ SliceOver(t)
    BY <2>7, RoundStutters, SameStutters
  <2>8. CASE UNCHANGED <<jobs, exec, current>>
    BY <2>8, QuietStutters, SameStutters
  <2> QED BY <1>2, <2>1, <2>2, <2>3, <2>4, <2>5, <2>6, <2>7, <2>8
          DEF ThreadStep, Progress
<1> QED BY <1>1, <1>2 DEF Next

\* The program starts where SerialQueue does.
LEMMA InitRefines == Init => Serial!Init
<1> SUFFICES ASSUME Init PROVE Serial!Init
  OBVIOUS
<1>1. View
  BY InitIInv, ViewHolds
<1>2. ASSUME NEW q \in Queues
      PROVE  WaitingIn(q) = <<>> /\ RunningIn(q) = <<>>
  <2>1. \A t \in Threads : ~ Executing(t, q)
    BY DEF Init, NotExecuting, Executing
  <2>2. jobs[q] = <<>>
    BY DEF Init
  <2> QED BY <1>1, <2>1, <2>2 DEF View, ViewOf
<1> QED BY <1>2 DEF Serial!Init

\* Push, Execute, the hand-over and the workers together give every queue of
\* JobQueue.cpp what SerialQueue promises: its jobs run one at a time, once
\* each, in the order in which they were linked.
THEOREM Refinement == Spec => ImplementsSerialQueue
<1>1. IInv /\ BatchIdle /\ View /\ View' /\ [Next]_vars =>
        [Serial!Next]_<<[q \in Queues |-> WaitingIn(q)], [q \in Queues |-> RunningIn(q)]>>
  BY StepRefines
<1>2. Spec => []BatchIdle
  BY Inductive, InitBatchIdle, NextBatchIdle, PTL DEF Spec
<1>3. Spec => []View
  BY Inductive, ViewHolds, PTL
<1> QED BY <1>1, <1>2, <1>3, InitRefines, Inductive, PTL
        DEF Spec, ImplementsSerialQueue, Serial!Spec

-----------------------------------------------------------------------------
(* JobTimer: the invariant *)

ReserveRecords == [pc : {"out", "add"}, item : Items \cup {<<>>}]

DistRecords ==
  [pc : {"out", "enter", "take", "fire"}, time : 0..MaxTime, due : Seq(Items)]

\* Every place holds what it should, and the heap is finite.
TimerTypeOK ==
  /\ now \in 0..MaxTime
  /\ alive \subseteq Queues
  /\ items \subseteq Items /\ IsFiniteSet(items)
  /\ distributing \in BOOLEAN
  /\ reserve \in [Threads -> ReserveRecords]
  /\ \A t \in Threads : reserve[t].pc = "add" => reserve[t].item \in Items
  /\ dist \in [Threads -> DistRecords]
  /\ reserved \in 0..MaxTimers
  /\ fired \subseteq Timers /\ dropped \subseteq Timers

InDistribute(t) == dist[t].pc \in {"take", "fire"}

\* The flag is up while a thread takes or pushes, and one thread does.
InvDistribute ==
  /\ \A t, u \in Threads : InDistribute(t) /\ InDistribute(u) => t = u
  /\ \A t \in Threads : InDistribute(t) => distributing
  /\ \A t \in Threads : dist[t].pc # "fire" => dist[t].due = <<>>

\* What is in hand is in the order of its times.
InvDue ==
  \A t \in Threads : \A i, j \in DOMAIN dist[t].due :
    /\ i < j => dist[t].due[i].executeTime <= dist[t].due[j].executeTime
    /\ dist[t].due[i].id = dist[t].due[j].id => i = j

\* No number is on its way twice, or in the heap twice.
InvNumbers ==
  /\ \A t, u \in Threads :
       reserve[t].pc = "add" /\ reserve[u].pc = "add"
         /\ reserve[t].item.id = reserve[u].item.id => t = u
  /\ \A i, j \in items : i.id = j.id => i = j

InHandOf(t, id) == \E i \in DOMAIN dist[t].due : dist[t].due[i].id = id
Handed(id) == \E t \in Threads : InHandOf(t, id)

\* The five places exclude each other, and hold the numbers given out.
InvPlaces ==
  \A id \in Timers :
    /\ id <= reserved <=>
         Reserving(id) \/ Waiting(id) \/ Handed(id) \/ id \in fired \/ id \in dropped
    /\ Reserving(id) => ~ Waiting(id) /\ ~ Handed(id)
    /\ Waiting(id) => ~ Handed(id)
    /\ id \in fired \cup dropped => ~ Reserving(id) /\ ~ Waiting(id) /\ ~ Handed(id)
    /\ ~ (id \in fired /\ id \in dropped)

TimerInv ==
  /\ TimerTypeOK
  /\ InvDistribute
  /\ InvDue
  /\ InvNumbers
  /\ InvPlaces

-----------------------------------------------------------------------------
(* The records of Reserve and Distribute *)

\* The records of Reserve and Distribute are of the types declared for them.
LEMMA TimerRecords ==
  /\ NotReserving \in ReserveRecords
  /\ \A x \in Items : [pc |-> "add", item |-> x] \in ReserveRecords
  /\ \A p \in {"out", "enter", "take"}, n \in 0..MaxTime :
       [pc |-> p, time |-> n, due |-> <<>>] \in DistRecords
  /\ \A n \in 0..MaxTime, s \in Seq(Items) :
       [pc |-> "fire", time |-> n, due |-> s] \in DistRecords
<1>1. ASSUME NEW S, NEW x \in S, NEW p \in {"out", "add"}
      PROVE  [pc |-> p, item |-> x] \in [pc : {"out", "add"}, item : S]
  OBVIOUS
<1>2. NotReserving \in ReserveRecords
  BY <1>1 DEF NotReserving, ReserveRecords
<1>3. \A x \in Items : [pc |-> "add", item |-> x] \in ReserveRecords
  BY <1>1 DEF ReserveRecords
<1>4. ASSUME NEW S, NEW s \in S, NEW n \in 0..MaxTime,
             NEW p \in {"out", "enter", "take", "fire"}
      PROVE  [pc |-> p, time |-> n, due |-> s]
               \in [pc : {"out", "enter", "take", "fire"}, time : 0..MaxTime, due : S]
  OBVIOUS
<1>5. <<>> \in Seq(Items)
  OBVIOUS
<1> QED BY <1>2, <1>3, <1>4, <1>5 DEF DistRecords

\* What the records of one thread are made of.
LEMMA TimerFields ==
  ASSUME TimerTypeOK, NEW t \in Threads
  PROVE  /\ reserve[t].pc \in {"out", "add"}
         /\ dist[t].pc \in {"out", "enter", "take", "fire"}
         /\ dist[t].time \in 0..MaxTime
         /\ dist[t].due \in Seq(Items)
         /\ dist[t] = [pc |-> dist[t].pc, time |-> dist[t].time, due |-> dist[t].due]
BY DEF TimerTypeOK, ReserveRecords, DistRecords

\* What is in hand is items, and their numbers are numbers.
LEMMA HandTyped ==
  ASSUME TimerTypeOK, NEW t \in Threads, NEW i \in DOMAIN dist[t].due
  PROVE  /\ dist[t].due[i] \in Items
         /\ dist[t].due[i].id \in Timers
         /\ dist[t].due[i].executeTime \in 0..MaxTime
         /\ dist[t].due[i].owner \in Queues
<1>1. dist[t].due \in Seq(Items)
  BY TimerFields
<1>2. dist[t].due[i] \in Items
  BY <1>1
<1> QED BY <1>2 DEF Items

-----------------------------------------------------------------------------
(* Every step of the timer keeps its invariant *)

\* No timer is reserved yet.
LEMMA TimerInitInv == TimerInit => TimerInv
<1> SUFFICES ASSUME TimerInit PROVE TimerInv
  OBVIOUS
<1> USE DEF TimerInit, NotReserving, NotDistributing
<1>1. TimerTypeOK
  <2>1. 0 \in 0..MaxTime /\ 0 \in 0..MaxTimers
    BY TimerAssumption
  <2>2. IsFiniteSet(items)
    BY FS_EmptySet
  <2>3. reserve \in [Threads -> ReserveRecords] /\ dist \in [Threads -> DistRecords]
    BY <2>1, TimerRecords
  <2> QED BY <2>1, <2>2, <2>3 DEF TimerTypeOK
<1>2. InvDistribute /\ InvDue /\ InvNumbers
  BY DEF InvDistribute, InDistribute, InvDue, InvNumbers
<1>3. InvPlaces
  <2>1. \A id \in Timers : ~ Reserving(id) /\ ~ Waiting(id) /\ ~ Handed(id)
    BY DEF Reserving, Waiting, Handed, InHandOf
  <2>2. \A id \in Timers : ~ (id <= reserved)
    BY TimerAssumption DEF Timers
  <2> QED BY <2>1, <2>2 DEF InvPlaces
<1> QED BY <1>1, <1>2, <1>3 DEF TimerInv

\* Steps that concern neither the heap nor who holds what.
LEMMA TimerQuietStep ==
  ASSUME TimerInv,
         UNCHANGED <<items, distributing, reserve, dist, reserved, fired, dropped>>,
         now' \in 0..MaxTime, alive' \subseteq Queues
  PROVE  TimerInv'
<1> USE DEF TimerInv
<1>1. TimerTypeOK'
  BY DEF TimerTypeOK
<1>2. InvDistribute' /\ InvDue' /\ InvNumbers'
  BY DEF InvDistribute, InDistribute, InvDue, InvNumbers
<1>3. \A id \in Timers : /\ Reserving(id)' <=> Reserving(id)
                         /\ Waiting(id)' <=> Waiting(id)
                         /\ Handed(id)' <=> Handed(id)
  BY DEF Reserving, Waiting, Handed, InHandOf
<1>4. InvPlaces'
  BY <1>3 DEF InvPlaces
<1> QED BY <1>1, <1>2, <1>4

\* A thread reads the time and numbers its item.
LEMMA ReadTimeStep ==
  ASSUME TimerInv, NEW t \in Threads, NEW q \in Queues, NEW after \in 0..MaxTime,
         ReadTime(t, q, after)
  PROVE  TimerInv'
<1> USE DEF TimerInv
<1> DEFINE x == [id |-> reserved + 1, executeTime |-> now + after, owner |-> q]
<1>1. /\ reserve[t].pc = "out"
      /\ reserved' = reserved + 1 /\ reserved + 1 \in Timers /\ reserved \in Nat
      /\ x \in Items /\ x.id = reserved + 1
      /\ reserve' = [reserve EXCEPT ![t] = [pc |-> "add", item |-> x]]
      /\ UNCHANGED <<now, alive, items, distributing, dist, fired, dropped>>
  BY TimerAssumption DEF ReadTime, Idle, InJob, TimerTypeOK, Timers, Items
<1>2. /\ reserve'[t].pc = "add" /\ reserve'[t].item = x
      /\ \A u \in Threads : u # t => reserve'[u] = reserve[u]
  BY <1>1 DEF TimerTypeOK
<1> HIDE DEF x
<1>3. TimerTypeOK'
  <2>1. reserve' \in [Threads -> ReserveRecords]
    BY <1>1, TimerRecords DEF TimerTypeOK
  <2>2. \A u \in Threads : reserve'[u].pc = "add" => reserve'[u].item \in Items
    BY <1>1, <1>2 DEF TimerTypeOK
  <2>3. reserved' \in 0..MaxTimers
    BY <1>1, TimerAssumption DEF Timers
  <2> QED BY <1>1, <2>1, <2>2, <2>3 DEF TimerTypeOK
<1>4. InvDistribute' /\ InvDue'
  BY <1>1 DEF InvDistribute, InDistribute, InvDue
<1>5. /\ \A id \in Timers : Reserving(id)' <=> Reserving(id) \/ id = reserved + 1
      /\ \A id \in Timers : Waiting(id)' <=> Waiting(id)
      /\ \A id \in Timers : Handed(id)' <=> Handed(id)
  BY <1>1, <1>2 DEF Reserving, Waiting, Handed, InHandOf
<1>6. ~ (reserved + 1 <= reserved)
  BY <1>1
<1>7. InvNumbers'
  <2>1. ~ Reserving(reserved + 1)
    BY <1>1, <1>6 DEF InvPlaces
  <2>2. \A u \in Threads : reserve[u].pc = "add" => reserve[u].item.id # x.id
    BY <1>1, <2>1 DEF Reserving
  <2>3. ASSUME NEW u \in Threads, NEW v \in Threads,
               reserve'[u].pc = "add", reserve'[v].pc = "add",
               reserve'[u].item.id = reserve'[v].item.id
        PROVE  u = v
    <3>1. CASE u # t /\ v # t
      BY <1>2, <2>3, <3>1 DEF InvNumbers
    <3>2. CASE u = t \/ v = t
      BY <1>2, <2>2, <2>3, <3>2
    <3> QED BY <3>1, <3>2
  <2> QED BY <1>1, <2>3 DEF InvNumbers
<1>8. InvPlaces'
  <2>1. \A id \in Timers : id <= reserved + 1 <=> id <= reserved \/ id = reserved + 1
    BY <1>1 DEF Timers
  <2> QED BY <1>1, <1>5, <1>6, <2>1 DEF InvPlaces
<1> QED BY <1>3, <1>4, <1>7, <1>8

\* The item goes into the heap.
LEMMA AddItemStep ==
  ASSUME TimerInv, NEW t \in Threads, AddItem(t)
  PROVE  TimerInv'
<1> USE DEF TimerInv
<1> DEFINE x == reserve[t].item
<1>1. /\ reserve[t].pc = "add" /\ x \in Items /\ x.id \in Timers
      /\ items' = items \cup {x}
      /\ reserve' = [reserve EXCEPT ![t] = NotReserving]
      /\ UNCHANGED <<now, alive, distributing, dist, reserved, fired, dropped>>
  BY DEF AddItem, TimerTypeOK, Items
<1>2. /\ reserve'[t].pc = "out"
      /\ \A u \in Threads : u # t => reserve'[u] = reserve[u]
  BY <1>1 DEF TimerTypeOK, NotReserving
<1>3. TimerTypeOK'
  <2>1. reserve' \in [Threads -> ReserveRecords]
    BY <1>1, TimerRecords DEF TimerTypeOK
  <2>2. IsFiniteSet(items')
    BY <1>1, FS_AddElement DEF TimerTypeOK
  <2> QED BY <1>1, <1>2, <2>1, <2>2 DEF TimerTypeOK
<1>4. InvDistribute' /\ InvDue'
  BY <1>1 DEF InvDistribute, InDistribute, InvDue
<1>5. Reserving(x.id) /\ ~ Waiting(x.id)
  BY <1>1 DEF Reserving, InvPlaces
<1>6. /\ \A id \in Timers : Reserving(id)' <=> Reserving(id) /\ id # x.id
      /\ \A id \in Timers : Waiting(id)' <=> Waiting(id) \/ id = x.id
      /\ \A id \in Timers : Handed(id)' <=> Handed(id)
  <2>1. ASSUME NEW id \in Timers
        PROVE  Reserving(id)' <=> Reserving(id) /\ id # x.id
    BY <1>1, <1>2 DEF Reserving, InvNumbers
  <2>2. \A id \in Timers : Waiting(id)' <=> Waiting(id) \/ id = x.id
    BY <1>1 DEF Waiting
  <2>3. \A id \in Timers : Handed(id)' <=> Handed(id)
    BY <1>1 DEF Handed, InHandOf
  <2> QED BY <2>1, <2>2, <2>3
<1>7. InvNumbers'
  <2>1. \A i \in items : i.id # x.id
    BY <1>5 DEF Waiting
  <2> QED BY <1>1, <1>2, <2>1 DEF InvNumbers
<1>8. InvPlaces'
  BY <1>1, <1>5, <1>6 DEF InvPlaces
<1> QED BY <1>3, <1>4, <1>7, <1>8

\* A thread's step in Distribute while it holds nothing, before and after.
LEMMA EmptyHandedStep ==
  ASSUME TimerInv, NEW t \in Threads, dist' = [dist EXCEPT ![t] = dist'[t]],
         dist[t].due = <<>>, dist'[t].due = <<>>, dist'[t] \in DistRecords,
         dist'[t].pc # "take" \/ ~ distributing, dist'[t].pc # "fire",
         distributing' \in BOOLEAN,
         \/ distributing' = distributing
         \/ distributing'
         \/ \A u \in Threads : u # t => ~ InDistribute(u),
         dist'[t].pc = "take" => distributing',
         dist[t].pc \in {"take", "fire"} => dist'[t].pc = "out",
         UNCHANGED <<now, alive, items, reserve, reserved, fired, dropped>>
  PROVE  TimerInv'
<1> USE DEF TimerInv
<1>1. \A u \in Threads : u # t => dist'[u] = dist[u]
  BY DEF TimerTypeOK
<1>2. TimerTypeOK'
  <2>1. dist' \in [Threads -> DistRecords]
    BY DEF TimerTypeOK
  <2> QED BY <2>1 DEF TimerTypeOK
<1>3. InvDistribute'
  BY <1>1 DEF InvDistribute, InDistribute, TimerTypeOK
<1>4. InvDue'
  <2>1. \A u \in Threads : u # t => dist'[u].due = dist[u].due
    BY <1>1
  <2>2. DOMAIN dist'[t].due = {}
    OBVIOUS
  <2> QED BY <2>1, <2>2 DEF InvDue
<1>5. InvNumbers'
  BY DEF InvNumbers
<1>6. /\ \A id \in Timers : Reserving(id)' <=> Reserving(id)
      /\ \A id \in Timers : Waiting(id)' <=> Waiting(id)
      /\ \A id \in Timers : Handed(id)' <=> Handed(id)
  <2>1. \A id : ~ InHandOf(t, id) /\ ~ InHandOf(t, id)'
    BY DEF InHandOf
  <2>2. \A u \in Threads, id \in Timers : u # t => (InHandOf(u, id)' <=> InHandOf(u, id))
    BY <1>1 DEF InHandOf
  <2>3. \A id \in Timers : Handed(id)' <=> Handed(id)
    BY <2>1, <2>2 DEF Handed
  <2> QED BY <2>3 DEF Reserving, Waiting
<1>7. InvPlaces'
  BY <1>6 DEF InvPlaces
<1> QED BY <1>2, <1>3, <1>4, <1>5, <1>7

\* Looking at the clock, going away or entering, and leaving.
LEMMA ClockEnterLeaveStep ==
  ASSUME TimerInv, NEW t \in Threads, ReadNow(t) \/ Enter(t) \/ LeaveDistribute(t)
  PROVE  TimerInv'
<1> USE DEF TimerInv
<1>1. now \in 0..MaxTime /\ 0 \in 0..MaxTime /\ distributing \in BOOLEAN
  BY TimerAssumption DEF TimerTypeOK
<1>2. CASE ReadNow(t)
  <2>1. /\ dist[t].pc = "out"
        /\ dist'[t] = [pc |-> "enter", time |-> now, due |-> <<>>]
        /\ dist' = [dist EXCEPT ![t] = dist'[t]]
        /\ UNCHANGED <<now, alive, items, distributing, reserve, reserved, fired, dropped>>
    BY <1>2 DEF ReadNow, Idle, NotDistributing, TimerTypeOK
  <2>2. dist[t].due = <<>>
    BY <2>1 DEF InvDistribute
  <2>3. dist'[t] \in DistRecords
    BY <1>1, <2>1, TimerRecords
  <2> QED BY <1>1, <2>1, <2>2, <2>3, EmptyHandedStep
<1>3. CASE Enter(t)
  <2>1. /\ dist[t].pc = "enter"
        /\ dist' = [dist EXCEPT ![t] = dist'[t]]
        /\ distributing' = TRUE
        /\ UNCHANGED <<now, alive, items, reserve, reserved, fired, dropped>>
    BY <1>3 DEF Enter, TimerTypeOK
  <2>2. dist[t].due = <<>>
    BY <2>1 DEF InvDistribute
  <2>3. dist'[t] = IF distributing THEN NotDistributing
                   ELSE [dist[t] EXCEPT !.pc = "take"]
    BY <1>3 DEF Enter, TimerTypeOK
  <2>4. \/ distributing /\ dist'[t] = [pc |-> "out", time |-> 0, due |-> <<>>]
        \/ ~ distributing
           /\ dist'[t] = [pc |-> "take", time |-> dist[t].time, due |-> <<>>]
    BY <1>1, <2>2, <2>3, TimerFields DEF NotDistributing
  <2>5. dist'[t] \in DistRecords
    BY <1>1, <2>4, TimerFields, TimerRecords
  <2>6. /\ dist'[t].due = <<>> /\ dist'[t].pc # "fire"
        /\ dist'[t].pc # "take" \/ ~ distributing
    BY <2>4
  <2> QED BY <2>1, <2>2, <2>5, <2>6, EmptyHandedStep
<1>4. CASE LeaveDistribute(t)
  <2>1. /\ dist[t].pc = "fire" /\ dist[t].due = <<>>
        /\ dist'[t] = [pc |-> "out", time |-> 0, due |-> <<>>]
        /\ dist' = [dist EXCEPT ![t] = dist'[t]]
        /\ distributing' = FALSE
        /\ UNCHANGED <<now, alive, items, reserve, reserved, fired, dropped>>
    BY <1>4 DEF LeaveDistribute, Firing, NotDistributing, TimerTypeOK
  <2>2. dist'[t] \in DistRecords
    BY <1>1, <2>1, TimerRecords
  <2>3. \A u \in Threads : u # t => ~ InDistribute(u)
    BY <2>1 DEF InvDistribute, InDistribute
  <2>4. dist[t].due = <<>> /\ dist'[t].due = <<>> /\ dist'[t].pc = "out"
    BY <2>1
  <2>5. /\ dist'[t].pc # "take" \/ ~ distributing
        /\ dist'[t].pc # "fire"
        /\ dist'[t].pc = "take" => distributing'
    BY <2>4
  <2>6. distributing' \in BOOLEAN
    BY <2>1, Zenon
  <2>7. dist' = [dist EXCEPT ![t] = dist'[t]]
    BY <2>1
  <2>8. UNCHANGED <<now, alive, items, reserve, reserved, fired, dropped>>
    BY <2>1
  <2> QED BY <2>2, <2>3, <2>4, <2>5, <2>6, <2>7, <2>8, EmptyHandedStep
<1> QED BY <1>2, <1>3, <1>4

\* The due items in the order the heap gives them: each once, by their times.
LEMMA DueFacts ==
  ASSUME NEW S, IsFiniteSet(S), S \subseteq Items, NEW s \in DueOrders(S),
         \A i, j \in S : i.id = j.id => i = j
  PROVE  /\ s \in Seq(Items)
         /\ \A i \in DOMAIN s : s[i] \in S
         /\ \A x \in S : \E i \in DOMAIN s : s[i] = x
         /\ \A i, j \in DOMAIN s :
              /\ i < j => s[i].executeTime <= s[j].executeTime
              /\ s[i].id = s[j].id => i = j
<1> DEFINE n == Cardinality(S)
<1>1. n \in Nat
  BY FS_CardinalityType
<1>2. /\ s \in [1..n -> S]
      /\ {s[i] : i \in DOMAIN s} = S
      /\ \A i, j \in DOMAIN s : i < j => s[i].executeTime <= s[j].executeTime
  BY DEF DueOrders
<1>3. IsFiniteSet(1..n) /\ Cardinality(1..n) = n
  <2>1. 1 \in Int /\ n \in Int
    BY <1>1
  <2> QED BY <1>1, <2>1, FS_Interval
<1>4. \A x \in S : \E i \in 1..n : s[i] = x
  BY <1>2
<1>5. s \in Surjection(1..n, S)
  BY <1>2, <1>4 DEF Surjection
<1>6. s \in Injection(1..n, S)
  <2>1. Cardinality(1..n) = Cardinality(S)
    BY <1>3
  <2> QED BY <1>3, <1>5, <2>1, FS_SurjSameCardinalityImpliesInj
<1>7. \A i, j \in 1..n : s[i] = s[j] => i = j
  BY <1>2, <1>6 DEF Injection, IsInjective
<1>8. s \in Seq(Items)
  BY <1>1, <1>2
<1> QED BY <1>2, <1>4, <1>7, <1>8

\* Everything due leaves the heap for the hands of the one that took it.
LEMMA TakeDueStep ==
  ASSUME TimerInv, NEW t \in Threads, TakeDue(t)
  PROVE  TimerInv'
<1> USE DEF TimerInv
<1> DEFINE now0 == dist[t].time
           S == {i \in items : i.executeTime <= now0}
<1>1. PICK s \in DueOrders(S) :
        dist' = [dist EXCEPT ![t].pc = "fire", ![t].due = s]
  BY DEF TakeDue
<1>2. /\ dist[t].pc = "take" /\ dist[t].due = <<>> /\ now0 \in 0..MaxTime
      /\ items' = {i \in items : i.executeTime > now0}
      /\ UNCHANGED <<now, alive, distributing, reserve, reserved, fired, dropped>>
  BY TimerFields DEF TakeDue, InvDistribute
<1>3. /\ IsFiniteSet(S) /\ S \subseteq Items
      /\ IsFiniteSet(items') /\ items' \subseteq items
  BY <1>2, FS_Subset DEF TimerTypeOK
<1>4. \A i, j \in S : i.id = j.id => i = j
  BY DEF InvNumbers
<1>5. items = S \cup items' /\ S \cap items' = {}
  <2>1. \A i \in items : i.executeTime \in 0..MaxTime
    BY DEF TimerTypeOK, Items
  <2>2. \A i \in items : (i.executeTime <= now0) <=> ~ (i.executeTime > now0)
    BY <1>2, <2>1, TimerAssumption
  <2> QED BY <1>2, <2>2
<1> HIDE DEF S
<1>6. /\ s \in Seq(Items)
      /\ \A i \in DOMAIN s : s[i] \in S
      /\ \A x \in S : \E i \in DOMAIN s : s[i] = x
      /\ \A i, j \in DOMAIN s :
           /\ i < j => s[i].executeTime <= s[j].executeTime
           /\ s[i].id = s[j].id => i = j
  BY <1>3, <1>4, DueFacts
<1>7. /\ dist'[t] = [pc |-> "fire", time |-> now0, due |-> s]
      /\ dist' = [dist EXCEPT ![t] = dist'[t]]
      /\ \A u \in Threads : u # t => dist'[u] = dist[u]
  <2>1. dist[t] = [pc |-> dist[t].pc, time |-> dist[t].time, due |-> dist[t].due]
    BY TimerFields
  <2> QED BY <1>1, <2>1 DEF TimerTypeOK
<1>8. TimerTypeOK'
  <2>1. dist'[t] \in DistRecords
    BY <1>2, <1>6, <1>7, TimerRecords
  <2>2. dist' \in [Threads -> DistRecords]
    BY <1>7, <2>1 DEF TimerTypeOK
  <2> QED BY <1>2, <1>3, <2>2 DEF TimerTypeOK
<1>9. InvDistribute'
  BY <1>2, <1>7 DEF InvDistribute, InDistribute
<1>10. InvDue'
  <2>1. ASSUME NEW u \in Threads, NEW i \in DOMAIN dist'[u].due, NEW j \in DOMAIN dist'[u].due
        PROVE  /\ i < j => dist'[u].due[i].executeTime <= dist'[u].due[j].executeTime
               /\ dist'[u].due[i].id = dist'[u].due[j].id => i = j
    <3>1. CASE u = t
      <4>1. dist'[u].due = s
        BY <1>7, <3>1
      <4> QED BY <1>6, <2>1, <4>1
    <3>2. CASE u # t
      <4>1. dist'[u].due = dist[u].due
        BY <1>7, <3>2
      <4> QED BY <2>1, <4>1 DEF InvDue
    <3> QED BY <3>1, <3>2
  <2> QED BY <2>1 DEF InvDue
<1>11. InvNumbers'
  BY <1>2, <1>3 DEF InvNumbers
<1>12. ASSUME NEW id \in Timers
       PROVE  /\ Reserving(id)' <=> Reserving(id)
              /\ Waiting(id) <=> Waiting(id)' \/ \E x \in S : x.id = id
              /\ ~ (Waiting(id)' /\ \E x \in S : x.id = id)
              /\ Handed(id)' <=> Handed(id) \/ \E x \in S : x.id = id
  <2>1. Reserving(id)' <=> Reserving(id)
    BY <1>2 DEF Reserving
  <2>2. Waiting(id) <=> Waiting(id)' \/ \E x \in S : x.id = id
    BY <1>5 DEF Waiting
  <2>3. ~ (Waiting(id)' /\ \E x \in S : x.id = id)
    BY <1>5 DEF Waiting, InvNumbers
  <2>4. InHandOf(t, id)' <=> \E x \in S : x.id = id
    <3>1. dist'[t].due = s
      BY <1>7
    <3> QED BY <1>6, <3>1 DEF InHandOf
  <2>5. ~ InHandOf(t, id)
    BY <1>2 DEF InHandOf
  <2>6. \A u \in Threads : u # t => (InHandOf(u, id)' <=> InHandOf(u, id))
    BY <1>7 DEF InHandOf
  <2>7. Handed(id)' <=> Handed(id) \/ \E x \in S : x.id = id
    BY <2>4, <2>5, <2>6 DEF Handed
  <2> QED BY <2>1, <2>2, <2>3, <2>7
<1>13. InvPlaces'
  BY <1>2, <1>12 DEF InvPlaces
<1> QED BY <1>8, <1>9, <1>10, <1>11, <1>13

\* The first item in hand is pushed, or dropped.
LEMMA NextItemStep ==
  ASSUME TimerInv, NEW t \in Threads, FireItem(t) \/ DropItem(t)
  PROVE  TimerInv'
<1> USE DEF TimerInv
<1> DEFINE s == dist[t].due
           x == Head(s)
<1>1. /\ dist[t].pc = "fire" /\ s # <<>> /\ s \in Seq(Items)
      /\ dist' = [dist EXCEPT ![t].due = Tail(s)]
      /\ UNCHANGED <<now, alive, items, distributing, reserve, reserved>>
  BY TimerFields DEF FireItem, DropItem, Firing
<1>2. /\ Len(s) \in Nat \ {0} /\ DOMAIN s = 1..Len(s)
      /\ x = s[1] /\ x \in Items /\ x.id \in Timers
      /\ Tail(s) \in Seq(Items)
      /\ DOMAIN Tail(s) = 1..(Len(s) - 1)
      /\ \A i \in 1..(Len(s) - 1) : Tail(s)[i] = s[i + 1]
  <2>1. s \in Seq(Items) /\ s # <<>>
    BY <1>1
  <2> HIDE DEF s
  <2>2. /\ Len(s) \in Nat \ {0} /\ DOMAIN s = 1..Len(s) /\ x = s[1] /\ x \in Items
    BY <2>1
  <2>3. /\ Tail(s) \in Seq(Items) /\ DOMAIN Tail(s) = 1..(Len(s) - 1)
        /\ \A i \in 1..(Len(s) - 1) : Tail(s)[i] = s[i + 1]
    BY <2>1
  <2>4. x.id \in Timers
    BY <2>2 DEF Items
  <2> QED BY <2>2, <2>3, <2>4
<1>3. \/ fired' = fired \cup {x.id} /\ dropped' = dropped
      \/ dropped' = dropped \cup {x.id} /\ fired' = fired
  BY DEF FireItem, DropItem
<1> HIDE DEF s
<1>4. /\ dist'[t] = [pc |-> "fire", time |-> dist[t].time, due |-> Tail(s)]
      /\ dist' = [dist EXCEPT ![t] = dist'[t]]
      /\ \A u \in Threads : u # t => dist'[u] = dist[u]
  <2>1. dist[t] = [pc |-> dist[t].pc, time |-> dist[t].time, due |-> dist[t].due]
    BY TimerFields
  <2> QED BY <1>1, <2>1 DEF TimerTypeOK, s
<1>5. TimerTypeOK'
  <2>1. Tail(s) \in Seq(Items) /\ dist[t].time \in 0..MaxTime
    BY <1>2, TimerFields
  <2>2. dist'[t] \in DistRecords
    BY <1>4, <2>1, TimerRecords
  <2>3. dist' \in [Threads -> DistRecords]
    BY <1>4, <2>2 DEF TimerTypeOK
  <2> QED BY <1>1, <1>2, <1>3, <2>3 DEF TimerTypeOK
<1>6. InvDistribute'
  BY <1>1, <1>4 DEF InvDistribute, InDistribute
<1>7. \A i, j \in 1..Len(s) :
        /\ i < j => s[i].executeTime <= s[j].executeTime
        /\ s[i].id = s[j].id => i = j
  BY <1>2 DEF InvDue, s
<1>8. InvDue'
  <2>1. ASSUME NEW u \in Threads, NEW i \in DOMAIN dist'[u].due, NEW j \in DOMAIN dist'[u].due
        PROVE  /\ i < j => dist'[u].due[i].executeTime <= dist'[u].due[j].executeTime
               /\ dist'[u].due[i].id = dist'[u].due[j].id => i = j
    <3>1. CASE u = t
      <4>1. dist'[u].due = Tail(s)
        BY <1>4, <3>1
      <4>2. /\ i \in 1..(Len(s) - 1) /\ j \in 1..(Len(s) - 1)
            /\ Tail(s)[i] = s[i + 1] /\ Tail(s)[j] = s[j + 1]
        BY <1>2, <2>1, <4>1
      <4>3. /\ i + 1 \in 1..Len(s) /\ j + 1 \in 1..Len(s)
            /\ i < j => i + 1 < j + 1
            /\ i + 1 = j + 1 => i = j
        BY <1>2, <4>2
      <4> QED BY <1>7, <4>1, <4>2, <4>3
    <3>2. CASE u # t
      <4>1. dist'[u].due = dist[u].due
        BY <1>4, <3>2
      <4> QED BY <2>1, <4>1 DEF InvDue
    <3> QED BY <3>1, <3>2
  <2> QED BY <2>1 DEF InvDue
<1>9. InvNumbers'
  BY <1>1 DEF InvNumbers
<1>10. Handed(x.id)
  BY <1>2 DEF Handed, InHandOf, s
<1>11. \A u \in Threads, id \in Timers : InHandOf(u, id) => u = t
  BY <1>1 DEF InvDistribute, InDistribute, InHandOf
<1>12. ASSUME NEW id \in Timers
       PROVE  /\ Reserving(id)' <=> Reserving(id)
              /\ Waiting(id)' <=> Waiting(id)
              /\ Handed(id)' <=> Handed(id) /\ id # x.id
  <2>1. InHandOf(t, id) <=> \E i \in 1..Len(s) : s[i].id = id
    BY <1>2 DEF InHandOf, s
  <2>2. InHandOf(t, id)' <=> \E i \in 1..(Len(s) - 1) : s[i + 1].id = id
    <3>1. dist'[t].due = Tail(s)
      BY <1>4
    <3> QED BY <1>2, <3>1 DEF InHandOf
  <2>3. InHandOf(t, id)' <=> InHandOf(t, id) /\ id # x.id
    <3>1. ASSUME InHandOf(t, id)'
          PROVE  InHandOf(t, id) /\ id # x.id
      <4>1. PICK i \in 1..(Len(s) - 1) : s[i + 1].id = id
        BY <2>2, <3>1
      <4>2. i + 1 \in 1..Len(s) /\ 1 \in 1..Len(s) /\ i + 1 # 1
        BY <1>2, <4>1
      <4> QED BY <1>2, <1>7, <2>1, <4>1, <4>2
    <3>2. ASSUME InHandOf(t, id), id # x.id
          PROVE  InHandOf(t, id)'
      <4>1. PICK i \in 1..Len(s) : s[i].id = id
        BY <2>1, <3>2
      <4>2. i - 1 \in 1..(Len(s) - 1) /\ (i - 1) + 1 = i
        BY <1>2, <3>2, <4>1
      <4> QED BY <2>2, <4>1, <4>2
    <3> QED BY <3>1, <3>2
  <2>4. \A u \in Threads : u # t => (InHandOf(u, id)' <=> InHandOf(u, id))
    BY <1>4 DEF InHandOf
  <2>5. Handed(id)' <=> Handed(id) /\ id # x.id
    BY <1>11, <2>3, <2>4 DEF Handed
  <2>6. (Reserving(id)' <=> Reserving(id)) /\ (Waiting(id)' <=> Waiting(id))
    BY <1>1 DEF Reserving, Waiting
  <2> QED BY <2>5, <2>6
<1>13. InvPlaces'
  BY <1>1, <1>2, <1>3, <1>10, <1>12 DEF InvPlaces
<1> QED BY <1>5, <1>6, <1>8, <1>9, <1>13

\* What concerns neither the heap nor who holds what.
LEMMA TimerElsewhere ==
  ASSUME TimerInv,
         \/ \E t \in Threads : QueueProgress(t) \/ Submit(t) \/ ServeQueue(t)
         \/ \E q \in Queues : Expire(q)
         \/ Tick
         \/ UNCHANGED allVars
  PROVE  TimerInv'
<1>1. /\ UNCHANGED <<items, distributing, reserve, dist, reserved, fired, dropped>>
      /\ now' \in 0..MaxTime /\ alive' \subseteq Queues
  BY TimerAssumption
     DEF TimerInv, TimerTypeOK, QueueProgress, Submit, ServeQueue, Expire, Tick,
         allVars, timerVars
<1> QED BY <1>1, TimerQuietStep

\* Every step keeps the invariant: one step per action of the timer.
LEMMA TimerNextInv == TimerInv /\ [TimerNext]_allVars => TimerInv'
<1> SUFFICES ASSUME TimerInv, [TimerNext]_allVars PROVE TimerInv'
  OBVIOUS
<1>1. ASSUME NEW t \in Threads, ReadNow(t) \/ Distribute(t)
      PROVE  TimerInv'
  BY <1>1, ClockEnterLeaveStep, TakeDueStep, NextItemStep DEF Distribute
<1>2. ASSUME NEW t \in Threads, \E q \in Queues, after \in 0..MaxTime : ReadTime(t, q, after)
      PROVE  TimerInv'
  BY <1>2, ReadTimeStep
<1>3. ASSUME NEW t \in Threads, AddItem(t)
      PROVE  TimerInv'
  BY <1>3, AddItemStep
<1> QED BY <1>1, <1>2, <1>3, TimerElsewhere DEF TimerNext

\* The inductive invariant holds of every reachable state of the timer.
THEOREM TimerInvariance == TimerSpec => []TimerInv
BY TimerInitInv, TimerNextInv, PTL DEF TimerSpec

-----------------------------------------------------------------------------
(* JobTimer: what follows from the invariant *)

\* Whatever the timer adds, a thread meets a queue only through the steps of
\* JobQueue.
LEMMA TimerStepsQueue == TimerInv /\ [TimerNext]_allVars => [Next]_vars
<1> SUFFICES ASSUME TimerInv, [TimerNext]_allVars PROVE [Next]_vars
  OBVIOUS
<1>1. alive \subseteq Queues
  BY DEF TimerInv, TimerTypeOK
<1>2. ASSUME NEW t \in Threads,
             \E q \in alive, only \in BOOLEAN : Count(t, q, only)
      PROVE  Next
  BY <1>1, <1>2 DEF Next, ThreadStep
<1>3. ASSUME NEW t \in Threads, Submit(t) \/ FireItem(t) PROVE Next
  <2>1. \E q \in alive, only \in BOOLEAN : Count(t, q, only)
    <3>1. CASE Submit(t)
      BY <3>1 DEF Submit
    <3>2. CASE FireItem(t)
      BY <3>2 DEF FireItem
    <3> QED BY <1>3, <3>1, <3>2
  <2> QED BY <1>2, <2>1
<1>4. ASSUME NEW t \in Threads, QueueProgress(t) \/ ServeQueue(t) PROVE Next
  BY <1>4 DEF QueueProgress, ServeQueue, Next, ThreadStep
<1>5. ASSUME NEW t \in Threads,
             \/ \E q \in Queues, after \in 0..MaxTime : ReadTime(t, q, after)
             \/ AddItem(t) \/ ReadNow(t)
             \/ Enter(t) \/ TakeDue(t) \/ DropItem(t) \/ LeaveDistribute(t)
      PROVE  UNCHANGED vars
  BY <1>5 DEF ReadTime, AddItem, ReadNow, Enter, TakeDue, DropItem, LeaveDistribute
<1>6. ASSUME (\E q \in Queues : Expire(q)) \/ Tick \/ UNCHANGED allVars
      PROVE  UNCHANGED vars
  BY <1>6 DEF Expire, Tick, allVars
<1> QED BY <1>3, <1>4, <1>5, <1>6 DEF TimerNext, Distribute

\* The timed jobs leave JobQueue what it is: its invariants, and the serial
\* queue it implements, hold with workers that push them as well.
THEOREM TimerKeepsQueue == TimerSpec => Spec
BY TimerInvariance, TimerStepsQueue, PTL DEF TimerSpec, TimerInit, Spec

\* Timed or not, a job runs in its queue one at a time and in the order of
\* the pushes.
THEOREM TimedJobsSerial == TimerSpec => ImplementsSerialQueue
BY TimerKeepsQueue, Refinement

\* The distributor that holds a number is the only one.
LEMMA TakenOnce ==
  ASSUME TimerInv, NEW id
  PROVE  Cardinality(Taken(id)) = IF Handed(id) THEN 1 ELSE 0
<1> USE DEF TimerInv
<1>1. \A t \in Threads : t \in Taken(id) <=> InHandOf(t, id)
  BY DEF Taken, InHand, InHandOf
<1>2. Taken(id) \subseteq Threads
  BY DEF Taken
<1>3. \A t, u \in Threads : InHandOf(t, id) /\ InHandOf(u, id) => t = u
  <2>1. ASSUME NEW t \in Threads, InHandOf(t, id) PROVE InDistribute(t)
    <3>1. dist[t].due # <<>>
      BY <2>1 DEF InHandOf
    <3> QED BY <3>1 DEF InvDistribute, InDistribute
  <2> QED BY <2>1 DEF InvDistribute
<1>4. CASE Handed(id)
  <2>1. PICK t \in Threads : InHandOf(t, id)
    BY <1>4 DEF Handed
  <2>2. Taken(id) = {t}
    BY <1>1, <1>2, <1>3, <2>1
  <2> QED BY <1>4, <2>2, FS_Singleton
<1>5. CASE ~ Handed(id)
  <2>1. Taken(id) = {}
    BY <1>1, <1>2, <1>5 DEF Handed
  <2> QED BY <1>5, <2>1, FS_EmptySet
<1> QED BY <1>4, <1>5

\* The five places of a reserved job exclude each other and leave nothing out.
LEMMA PlacesAreOne == TimerInv => ItemsKept
<1> SUFFICES ASSUME TimerInv PROVE ItemsKept
  OBVIOUS
<1>1. ASSUME NEW id \in 1..reserved PROVE Places(id) = 1
  <2>1. id \in Timers /\ id <= reserved
    BY TimerAssumption DEF TimerInv, TimerTypeOK, Timers
  <2>2. /\ Reserving(id) \/ Waiting(id) \/ Handed(id) \/ id \in fired \/ id \in dropped
        /\ Reserving(id) => ~ Waiting(id) /\ ~ Handed(id)
        /\ Waiting(id) => ~ Handed(id)
        /\ id \in fired \cup dropped => ~ Reserving(id) /\ ~ Waiting(id) /\ ~ Handed(id)
        /\ ~ (id \in fired /\ id \in dropped)
    BY <2>1 DEF TimerInv, InvPlaces
  <2>3. Cardinality(Taken(id)) = IF Handed(id) THEN 1 ELSE 0
    BY TakenOnce
  <2> QED BY <2>2, <2>3 DEF Places
<1> QED BY <1>1 DEF ItemsKept, TimerInv, InvDistribute, InDistribute

\* A reserved job is lost nowhere and pushed at most once, for any number of
\* workers that distribute at the same time.
THEOREM NoTimerLost == TimerSpec => []ItemsKept
BY TimerInvariance, PlacesAreOne, PTL

\* An item leaves a hand only as its first one.
LEMMA PushedInOrder ==
  ASSUME TimerInv, NEW t \in Threads, dist[t].due # <<>>,
         NEW u \in Threads, NEW x \in InHand(u)
  PROVE  Head(dist[t].due).executeTime <= x.executeTime
<1> USE DEF TimerInv
<1>1. PICK i \in DOMAIN dist[u].due : x = dist[u].due[i]
  BY DEF InHand
<1>2. dist[t].due \in Seq(Items)
  BY TimerFields
<1>3. /\ 1 \in DOMAIN dist[t].due
      /\ Head(dist[t].due) = dist[t].due[1]
  BY <1>2
<1>4. u = t
  <2>1. dist[u].due # <<>>
    BY <1>1
  <2> QED BY <2>1 DEF InvDistribute, InDistribute
<1>5. i \in Nat /\ 1 <= i
  BY <1>1, <1>2, <1>4
<1>6. dist[t].due[1].executeTime \in 0..MaxTime
  BY <1>3, HandTyped
<1> QED BY <1>1, <1>3, <1>4, <1>5, <1>6 DEF InvDue

\* What is taken is due, what is left in the heap is not.
LEMMA TakenBeforeLeft ==
  ASSUME TimerInv, [TimerNext]_allVars, NEW t \in Threads,
         dist[t].pc = "take", dist'[t].pc = "fire",
         NEW x \in InHand(t)', NEW y \in items'
  PROVE  x.executeTime <= y.executeTime
<1> USE DEF TimerInv
<1>1. TakeDue(t)
  <2>1. ASSUME NEW u \in Threads, u # t, ReadNow(u) \/ Distribute(u)
        PROVE  dist'[t] = dist[t]
    BY <2>1 DEF ReadNow, Distribute, Enter, TakeDue, FireItem, DropItem,
                LeaveDistribute, TimerTypeOK
  <2>2. ASSUME ReadNow(t) \/ Enter(t) \/ FireItem(t) \/ DropItem(t) \/ LeaveDistribute(t)
        PROVE  FALSE
    BY <2>2 DEF ReadNow, Idle, Enter, FireItem, DropItem, LeaveDistribute, Firing
  <2>3. dist' # dist
    OBVIOUS
  <2>4. \E u \in Threads : ReadNow(u) \/ Distribute(u)
    BY <2>3 DEF TimerNext, ReadTime, AddItem, QueueProgress, Submit, ServeQueue,
                Expire, Tick, allVars, timerVars
  <2> QED BY <2>1, <2>2, <2>4 DEF Distribute
<1> DEFINE S == {i \in items : i.executeTime <= dist[t].time}
<1>2. PICK s \in DueOrders(S) :
        dist' = [dist EXCEPT ![t].pc = "fire", ![t].due = s]
  BY <1>1 DEF TakeDue
<1>3. dist'[t].due = s
  <2>1. dist[t] = [pc |-> dist[t].pc, time |-> dist[t].time, due |-> dist[t].due]
    BY TimerFields
  <2> QED BY <1>2, <2>1 DEF TimerTypeOK
<1>4. {s[i] : i \in DOMAIN s} = S
  BY <1>2 DEF DueOrders
<1>5. x \in S
  BY <1>3, <1>4 DEF InHand
<1>6. y \in items /\ y.executeTime > dist[t].time
  BY <1>1 DEF TakeDue
<1>7. /\ x.executeTime \in 0..MaxTime /\ y.executeTime \in 0..MaxTime
      /\ dist[t].time \in 0..MaxTime
  BY <1>5, <1>6, TimerFields DEF TimerTypeOK, Items
<1> QED BY <1>5, <1>6, <1>7, TimerAssumption

\* Distribute pushes what is due in the order of its times, and all of it
\* before what it leaves in the heap.
THEOREM DueOrder == TimerSpec => FiredInDueOrder
<1>1. ASSUME TimerInv, [TimerNext]_allVars
      PROVE  [/\ \A t \in Threads :
                   dist[t].due # <<>> /\ dist'[t].due = Tail(dist[t].due) =>
                     \A u \in Threads : \A i \in InHand(u) :
                       Head(dist[t].due).executeTime <= i.executeTime
              /\ \A t \in Threads : dist[t].pc = "take" /\ dist'[t].pc = "fire" =>
                   \A i \in InHand(t)', j \in items' : i.executeTime <= j.executeTime]_allVars
  BY <1>1, PushedInOrder, TakenBeforeLeft
<1> QED BY <1>1, TimerInvariance, PTL DEF TimerSpec, FiredInDueOrder
=============================================================================
