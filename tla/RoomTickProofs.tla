-------------------------- MODULE RoomTickProofs ----------------------------
(***************************************************************************)
(* Proofs about RoomTick, for any users, ticks, shots and window.          *)
(*                                                                         *)
(* Everything rests on the order of the physics queue: whoever entered     *)
(* before the room was ready has its controller made before the first      *)
(* tick's jobs (EarlyFirst), and between simulate and the moves of a tick  *)
(* lies its fetchResults (Fetched).  A second invariant, Snap, is about    *)
(* the buffer of snapshots and whom a shot may meet; what remove_if keeps  *)
(* (ExpireKeeps) is by the least length at which it would not.  A third,   *)
(* Indexed, says that players share an index only if a user has entered    *)
(* twice.                                                                  *)
(***************************************************************************)
EXTENDS RoomTick, TLAPS, SequenceTheorems, WellFoundedInduction,
        FiniteSetTheorems

Kind(i) == queue[i].kind

Who(i) == queue[i].who

TickKinds == {"simulate", "fetch", "moveBots", "movePlayers"}

\* The job makes a controller.
Making(i) == Kind(i) \in {"bot", "create"}

\* Nothing of a tick is ahead of position i of the queue.
NoTickBefore(i) == \A k \in 1..(i - 1) : Kind(k) \notin TickKinds

\* Each simulate before position i, and the one running, is fetched before i.
Fetched(i) ==
  /\ \A k \in 1..(i - 1) : Kind(k) = "simulate" =>
       \E j \in 1..(i - 1) : k < j /\ Kind(j) = "fetch"
  /\ simulating => \E j \in 1..(i - 1) : Kind(j) = "fetch"

\* Until the room is ready there is nothing of a tick.
InvReady ==
  ~ isReady => /\ ~ simulating /\ physics = "idle" /\ tick.pc = "idle"
               /\ NoTickBefore(Len(queue) + 1)

\* Controllers of players who were in time are made before the first tick.
InvEarly ==
  \A i \in DOMAIN queue :
    Making(i) /\ Who(i) \notin late => /\ ~ simulating /\ physics = "idle"
                                       /\ NoTickBefore(i)

\* Players are moved when no simulation is under way.
InvFetched ==
  /\ simulating => physics = "idle"
  /\ \A i \in DOMAIN queue : Kind(i) = "movePlayers" => Fetched(i)
  /\ tick.pc # "fetch" => Fetched(Len(queue) + 1)

\* Players are numbered as they are made; there are finitely many users here.
InvNumbers ==
  /\ IsFiniteSet(Present)
  /\ \A u \in Users : players[u] \in 0..made
  /\ \A u \in Users, n \in Objects : <<u, n>> \in entering =>
       n \in 1..made /\ \A v \in Users : players[v] # n
  /\ \A i \in DOMAIN queue : Making(i) => Who(i) \in 0..made
  /\ \A p, q \in entering : p = q

\* The manager comes first.
InvManager == manager \/ (queue # <<>> /\ Kind(1) = "manager")

\* Every actor has its controller or a job that will make it.
InvControlled ==
  failure = "none" =>
    \A n \in 0..made : n \in controllers \/ \E i \in DOMAIN queue : Making(i) /\ Who(i) = n

\* While nobody enters twice, every player made is referred to.
InvAlive ==
  failure = "none" /\ ~ reentered =>
    \A n \in 1..made : \E u \in Users : players[u] = n \/ <<u, n>> \in entering

\* Who has shot has been made, and is not just entering.
InvShooters ==
  /\ DOMAIN missed = Objects
  /\ DOMAIN fire = {"pc", "who", "time", "entities", "moved"}
  /\ fire.pc # "idle" => fire.who \in Objects /\ fire.who <= made
  /\ \A n \in Objects : missed[n] # {} => n <= made
  /\ \A u \in Users, n \in Objects : <<u, n>> \in entering =>
       missed[n] = {} /\ (fire.pc # "idle" => fire.who # n)

\* An entry of a scene is of the shot under way.
Ours(e) == fire.pc = "built" /\ e.slot = Slot /\ e.time = fire.time

\* What a scene holds beside the shot under way, misses have left in it.
InvRewind ==
  \A e \in rewind :
    Ours(e) \/ \E n \in Objects : e.time \in missed[n] /\ index[n] = e.slot

IInv ==
  /\ TypeOK /\ InvReady /\ InvEarly /\ InvFetched /\ InvNumbers
  /\ InvManager /\ InvControlled /\ InvAlive /\ EntriesExplained /\ InvShooters
  /\ InvRewind

-----------------------------------------------------------------------------
(* The queue *)

QueuePushed(job) ==
  /\ queue' \in Seq(Jobs)
  /\ Len(queue) \in Nat /\ Len(queue') = Len(queue) + 1
  /\ DOMAIN queue = 1..Len(queue) /\ DOMAIN queue' = 1..(Len(queue) + 1)
  /\ \A i \in 1..Len(queue) : queue'[i] = queue[i]
  /\ queue'[Len(queue) + 1] = job

QueuePushedTwo ==
  /\ queue' \in Seq(Jobs)
  /\ Len(queue) \in Nat /\ Len(queue') = Len(queue) + 2
  /\ DOMAIN queue = 1..Len(queue) /\ DOMAIN queue' = 1..(Len(queue) + 2)
  /\ \A i \in 1..Len(queue) : queue'[i] = queue[i]
  /\ queue'[Len(queue) + 1] = Job("moveBots")
  /\ queue'[Len(queue) + 2] = Job("movePlayers")

QueuePopped ==
  /\ queue' \in Seq(Jobs)
  /\ Len(queue) \in Nat \ {0} /\ Len(queue') = Len(queue) - 1
  /\ DOMAIN queue = 1..Len(queue) /\ DOMAIN queue' = 1..(Len(queue) - 1)
  /\ \A i \in 1..(Len(queue) - 1) : queue'[i] = queue[i + 1]
  /\ \A i \in 2..Len(queue) : queue[i] = queue'[i - 1]

\* A job appended is the last; the others stay where they are.
LEMMA Pushed ==
  ASSUME queue \in Seq(Jobs), NEW job \in Jobs, queue' = Append(queue, job)
  PROVE  QueuePushed(job)
BY DEF QueuePushed

\* The two jobs of the moves are the last; the others stay where they are.
LEMMA PushedTwo ==
  ASSUME queue \in Seq(Jobs), queue' = queue \o <<Job("moveBots"), Job("movePlayers")>>
  PROVE  QueuePushedTwo
<1> DEFINE s == queue
           t == <<Job("moveBots"), Job("movePlayers")>>
<1>1. Job("moveBots") \in Jobs /\ Job("movePlayers") \in Jobs
  BY DEF Job, Jobs, Kinds
<1>2. t \in Seq(Jobs) /\ Len(t) = 2 /\ t[1] = Job("moveBots") /\ t[2] = Job("movePlayers")
  BY <1>1
<1> HIDE DEF t
<1>3. s \in Seq(Jobs) /\ Len(s) \in Nat /\ DOMAIN s = 1..Len(s)
  BY LenProperties
<1>4. /\ s \o t \in Seq(Jobs) /\ Len(s \o t) = Len(s) + 2
      /\ \A i \in 1..(Len(s) + 2) :
           (s \o t)[i] = IF i <= Len(s) THEN s[i] ELSE t[i - Len(s)]
  <2>1. /\ s \o t \in Seq(Jobs) /\ Len(s \o t) = Len(s) + Len(t)
        /\ \A i \in 1..(Len(s) + Len(t)) :
             (s \o t)[i] = IF i <= Len(s) THEN s[i] ELSE t[i - Len(s)]
    BY <1>2, <1>3, ConcatProperties
  <2> QED BY <1>2, <2>1
<1>5. queue' = s \o t
  BY DEF t
<1>6. DOMAIN (s \o t) = 1..(Len(s) + 2)
  BY <1>4, LenProperties
<1> QED BY <1>2, <1>3, <1>4, <1>5, <1>6 DEF QueuePushedTwo

\* The oldest job is gone; the others move up.
LEMMA Popped ==
  ASSUME queue \in Seq(Jobs), queue # <<>>, queue' = RemoveAt(queue, NextOldest)
  PROVE  QueuePopped
<1>1. Len(queue) \in Nat \ {0} /\ DOMAIN queue = 1..Len(queue)
  BY EmptySeq, LenProperties
<1>2. SubSeq(queue, 1, 0) = <<>>
  BY DEF SubSeq
<1>3. SubSeq(queue, 2, Len(queue)) \in Seq(Jobs)
  BY <1>1, SubSeqProperties
<1>4. queue' = SubSeq(queue, 2, Len(queue))
  BY <1>2, <1>3, ConcatEmptySeq DEF RemoveAt, NextOldest
<1>5. /\ Len(queue') = Len(queue) - 1
      /\ \A i \in 1..(Len(queue) - 1) : queue'[i] = queue[i + 1]
  BY <1>1, <1>4, SubSeqProperties
<1>6. DOMAIN queue' = 1..(Len(queue) - 1)
  BY <1>3, <1>4, <1>5, LenProperties
<1>7. ASSUME NEW i \in 2..Len(queue)
      PROVE  queue[i] = queue'[i - 1]
  <2>1. i - 1 \in 1..(Len(queue) - 1) /\ (i - 1) + 1 = i
    BY <1>1
  <2> QED BY <1>5, <2>1
<1> QED BY <1>1, <1>3, <1>4, <1>5, <1>6, <1>7 DEF QueuePopped

\* What is pushed is a job.
LEMMA JobsTyped ==
  /\ \A kind \in {"simulate", "fetch"} : Job(kind) \in Jobs
  /\ \A n \in Objects : Create(n) \in Jobs
BY DEF Job, Create, Jobs, Kinds

-----------------------------------------------------------------------------
(* Steps that leave the queue alone *)

LEMMA KeepReady ==
  ASSUME InvReady, UNCHANGED <<queue, simulating, physics>>,
         isReady' = isReady \/ isReady' = TRUE, tick'.pc = tick.pc \/ isReady' = TRUE
  PROVE  InvReady'
BY DEF InvReady, NoTickBefore, Kind

LEMMA KeepEarly ==
  ASSUME InvEarly, UNCHANGED <<queue, simulating, physics>>, late \subseteq late'
  PROVE  InvEarly'
BY DEF InvEarly, NoTickBefore, Making, Kind, Who

LEMMA KeepFetched ==
  ASSUME InvFetched, UNCHANGED <<queue, simulating>>,
         physics' = physics \/ physics' = "idle", tick.pc # "fetch" \/ tick'.pc = "fetch"
  PROVE  InvFetched'
BY DEF InvFetched, Fetched, Kind

LEMMA KeepNumbers ==
  ASSUME InvNumbers, UNCHANGED <<queue, players, index, made, entering>>
  PROVE  InvNumbers'
BY DEF InvNumbers, Making, Kind, Who, Present

LEMMA KeepManager ==
  ASSUME InvManager, UNCHANGED <<queue, manager>>
  PROVE  InvManager'
BY DEF InvManager, Kind

LEMMA KeepControlled ==
  ASSUME InvControlled, UNCHANGED <<queue, controllers, made>>,
         failure' = failure \/ failure = "none"
  PROVE  InvControlled'
BY DEF InvControlled, Making, Kind, Who

LEMMA KeepAlive ==
  ASSUME InvAlive, UNCHANGED <<players, index, made, entering, reentered>>,
         failure' = failure \/ failure = "none"
  PROVE  InvAlive'
BY DEF InvAlive

LEMMA KeepEntries ==
  ASSUME EntriesExplained, UNCHANGED <<reentered, failure>>, late \subseteq late',
         failure # "multicast changed" \/ made' = made
  PROVE  EntriesExplained'
BY DEF EntriesExplained

LEMMA KeepRewind ==
  ASSUME InvShooters, InvRewind, UNCHANGED <<fire, rewind, missed, index>>,
         UNCHANGED <<made, entering>>
  PROVE  InvShooters' /\ InvRewind'
BY DEF InvShooters, InvRewind, Ours, Slot

-----------------------------------------------------------------------------
(* Steps that take the oldest job *)

\* While a job of a tick is the oldest, only late players have no controller.
LEMMA TickHead ==
  ASSUME TypeOK, InvEarly, QueuePopped, Kind(1) \in TickKinds,
         NEW i \in DOMAIN queue, Making(i)
  PROVE  Who(i) \in late
<1>1. i # 1
  BY DEF Making, TickKinds
<1>2. 1 \in 1..(i - 1)
  BY <1>1 DEF QueuePopped
<1> QED BY <1>2 DEF InvEarly, NoTickBefore

LEMMA PopReady ==
  ASSUME InvReady, QueuePopped, UNCHANGED <<isReady, tick>>,
         Kind(1) \in TickKinds \/ UNCHANGED <<simulating, physics>>
  PROVE  InvReady'
<1>1. isReady' = isReady /\ tick' = tick
  OBVIOUS
<1>2. CASE isReady
  BY <1>1, <1>2 DEF InvReady
<1>3. CASE ~ isReady
  <2>1. /\ ~ simulating /\ physics = "idle" /\ tick.pc = "idle"
        /\ \A k \in 1..Len(queue) : Kind(k) \notin TickKinds
    BY <1>3 DEF InvReady, NoTickBefore, QueuePopped
  <2>2. UNCHANGED <<simulating, physics>>
    BY <2>1 DEF QueuePopped
  <2>3. ASSUME NEW k \in 1..(Len(queue') + 1 - 1)
        PROVE  Kind(k)' \notin TickKinds
    <3>1. k \in 1..(Len(queue) - 1) /\ k + 1 \in 1..Len(queue)
      BY DEF QueuePopped
    <3>2. queue'[k] = queue[k + 1]
      BY <3>1 DEF QueuePopped
    <3> QED BY <2>1, <3>1, <3>2 DEF Kind
  <2> QED BY <1>1, <2>1, <2>2, <2>3 DEF InvReady, NoTickBefore, TickKinds
<1> QED BY <1>2, <1>3

LEMMA PopEarly ==
  ASSUME TypeOK, InvEarly, QueuePopped, late' = late,
         Kind(1) \in TickKinds \/ UNCHANGED <<simulating, physics>>
  PROVE  InvEarly'
<1> SUFFICES ASSUME NEW i \in DOMAIN queue', Making(i)', Who(i)' \notin late'
             PROVE  (~ simulating /\ physics = "idle" /\ NoTickBefore(i))'
  BY DEF InvEarly
<1>1. i \in 1..(Len(queue) - 1) /\ i + 1 \in DOMAIN queue /\ queue'[i] = queue[i + 1]
  BY DEF QueuePopped
<1>2. Making(i + 1) /\ Who(i + 1) \notin late
  BY <1>1 DEF Making, Kind, Who
<1>3. Kind(1) \notin TickKinds
  BY <1>1, <1>2, TickHead
<1>4. ~ simulating /\ physics = "idle" /\ NoTickBefore(i + 1)
  BY <1>1, <1>2 DEF InvEarly
<1>5. ASSUME NEW k \in 1..(i - 1)
      PROVE  Kind(k)' \notin TickKinds
  <2>1. k \in 1..(Len(queue) - 1) /\ k + 1 \in 1..((i + 1) - 1)
    BY <1>1 DEF QueuePopped
  <2>2. queue'[k] = queue[k + 1]
    BY <2>1 DEF QueuePopped
  <2> QED BY <1>4, <2>1, <2>2 DEF NoTickBefore, Kind
<1> QED BY <1>3, <1>4, <1>5 DEF NoTickBefore, TickKinds

\* What was fetched before a position is fetched before it one place ahead.
LEMMA PopFetchedAt ==
  ASSUME QueuePopped, NEW i \in 2..(Len(queue) + 1), Fetched(i),
         \/ Kind(1) \notin {"simulate", "fetch"} /\ simulating' = simulating
         \/ Kind(1) = "simulate" /\ simulating' = TRUE
         \/ Kind(1) = "fetch" /\ simulating' = FALSE
  PROVE  Fetched(i - 1)'
<1>1. Len(queue) \in Nat \ {0}
  BY DEF QueuePopped
<1>2. ASSUME NEW k \in 2..(i - 1)
      PROVE  k - 1 \in 1..((i - 1) - 1) /\ Kind(k - 1)' = Kind(k)
  <2>1. k \in 2..Len(queue) /\ k - 1 \in 1..((i - 1) - 1)
    BY <1>1
  <2>2. queue[k] = queue'[k - 1]
    BY <2>1 DEF QueuePopped
  <2> QED BY <2>1, <2>2 DEF Kind
<1>3. ASSUME NEW k \in 1..((i - 1) - 1), Kind(k)' = "simulate"
      PROVE  \E j \in 1..((i - 1) - 1) : k < j /\ Kind(j)' = "fetch"
  <2>1. k + 1 \in 2..(i - 1) /\ k + 1 \in 1..(i - 1) /\ (k + 1) - 1 = k
    BY <1>1
  <2>2. Kind(k + 1) = "simulate"
    BY <1>2, <1>3, <2>1
  <2>3. PICK j \in 1..(i - 1) : k + 1 < j /\ Kind(j) = "fetch"
    BY <2>1, <2>2 DEF Fetched
  <2>4. j \in 2..(i - 1) /\ k < j - 1
    BY <2>3, <1>1
  <2> QED BY <1>2, <2>3, <2>4
<1>4. ASSUME simulating'
      PROVE  \E j \in 1..((i - 1) - 1) : Kind(j)' = "fetch"
  <2>1. Kind(1) # "fetch" /\ (Kind(1) = "simulate" \/ simulating)
    BY <1>4
  <2>2. 1 \in 1..(i - 1)
    BY <1>1
  <2>3. PICK j \in 1..(i - 1) : Kind(j) = "fetch"
    BY <2>1, <2>2 DEF Fetched
  <2>4. j \in 2..(i - 1)
    BY <2>1, <2>3, <1>1
  <2> QED BY <1>2, <2>3, <2>4
<1> QED BY <1>3, <1>4 DEF Fetched

LEMMA PopFetched ==
  ASSUME InvFetched, QueuePopped, UNCHANGED tick, simulating' => physics' = "idle",
         \/ Kind(1) \notin {"simulate", "fetch"} /\ simulating' = simulating
         \/ Kind(1) = "simulate" /\ simulating' = TRUE
         \/ Kind(1) = "fetch" /\ simulating' = FALSE
  PROVE  InvFetched'
<1>1. ASSUME NEW i \in DOMAIN queue', Kind(i)' = "movePlayers"
      PROVE  Fetched(i)'
  <2>1. i \in 1..(Len(queue) - 1) /\ i + 1 \in DOMAIN queue /\ queue'[i] = queue[i + 1]
    BY DEF QueuePopped
  <2>2. Fetched(i + 1)
    BY <1>1, <2>1 DEF InvFetched, Kind
  <2>3. i + 1 \in 2..(Len(queue) + 1) /\ (i + 1) - 1 = i
    BY <2>1 DEF QueuePopped
  <2>4. Fetched((i + 1) - 1)'
    BY <2>2, <2>3, PopFetchedAt
  <2> QED BY <2>3, <2>4
<1>2. ASSUME tick'.pc # "fetch"
      PROVE  Fetched(Len(queue) + 1)'
  <2>1. PICK n \in Int : n = Len(queue) + 1
    BY DEF QueuePopped
  <2>2. Fetched(n) /\ n \in 2..(Len(queue) + 1)
    BY <1>2, <2>1 DEF InvFetched, QueuePopped
  <2>3. Fetched(n - 1)'
    BY <2>2, PopFetchedAt
  <2>4. Len(queue') + 1 = n - 1
    BY <2>1 DEF QueuePopped
  <2> QED BY <2>3, <2>4
<1> QED BY <1>1, <1>2 DEF InvFetched

LEMMA PopNumbers ==
  ASSUME InvNumbers, QueuePopped, UNCHANGED <<players, index, made, entering>>
  PROVE  InvNumbers'
<1>0. Present' = Present
  BY DEF Present
<1>1. ASSUME NEW i \in DOMAIN queue', Making(i)'
      PROVE  Who(i)' \in 0..made'
  <2>1. i + 1 \in DOMAIN queue /\ queue'[i] = queue[i + 1]
    BY DEF QueuePopped
  <2> QED BY <1>1, <2>1 DEF InvNumbers, Making, Kind, Who
<1> QED BY <1>0, <1>1 DEF InvNumbers

LEMMA PopManager ==
  ASSUME InvManager, manager => manager', Kind(1) = "manager" => manager'
  PROVE  InvManager'
BY DEF InvManager

LEMMA PopControlled ==
  ASSUME InvControlled, QueuePopped, failure = "none", made' = made,
         controllers \subseteq controllers',
         failure' = "none" /\ Making(1) => Who(1) \in controllers'
  PROVE  InvControlled'
<1> SUFFICES ASSUME failure' = "none", NEW n \in 0..made, n \notin controllers'
             PROVE  \E i \in DOMAIN queue' : (Making(i) /\ Who(i) = n)'
  BY DEF InvControlled
<1>1. PICK i \in DOMAIN queue : Making(i) /\ Who(i) = n
  BY DEF InvControlled
<1>2. i \in 2..Len(queue)
  BY <1>1 DEF QueuePopped
<1>3. i - 1 \in DOMAIN queue' /\ queue'[i - 1] = queue[i]
  BY <1>2 DEF QueuePopped
<1> QED BY <1>1, <1>3 DEF Making, Kind, Who

-----------------------------------------------------------------------------
(* Steps that add a job *)

LEMMA PushReady ==
  ASSUME InvReady, NEW job, QueuePushed(job),
         UNCHANGED <<isReady, simulating, physics>>, tick'.pc = tick.pc \/ isReady,
         isReady \/ job.kind \notin TickKinds
  PROVE  InvReady'
<1>1. CASE isReady
  BY <1>1 DEF InvReady
<1>2. CASE ~ isReady
  <2>1. \A k \in 1..Len(queue) : Kind(k) \notin TickKinds
    BY <1>2 DEF InvReady, NoTickBefore, QueuePushed
  <2>2. \A k \in 1..(Len(queue) + 1) : Kind(k)' \notin TickKinds
    BY <1>2, <2>1 DEF Kind, QueuePushed
  <2> QED BY <1>2, <2>2 DEF InvReady, NoTickBefore, QueuePushed, TickKinds
<1> QED BY <1>1, <1>2

LEMMA PushEarly ==
  ASSUME InvEarly, NEW job, QueuePushed(job), UNCHANGED <<simulating, physics>>,
         late \subseteq late',
         \/ job.kind \notin {"bot", "create"} \/ job.who \in late'
         \/ ~ simulating /\ physics = "idle" /\ NoTickBefore(Len(queue) + 1)
  PROVE  InvEarly'
<1> SUFFICES ASSUME NEW i \in DOMAIN queue', Making(i)', Who(i)' \notin late'
             PROVE  (~ simulating /\ physics = "idle" /\ NoTickBefore(i))'
  BY DEF InvEarly
<1>1. ~ simulating /\ physics = "idle" /\ NoTickBefore(i)
  BY DEF InvEarly, QueuePushed, Making, Kind, Who
<1>2. \A k \in 1..(i - 1) : Kind(k)' = Kind(k)
  BY DEF QueuePushed, Kind
<1> QED BY <1>1, <1>2 DEF NoTickBefore, TickKinds

\* What was fetched before a position of the queue still is.
LEMMA PushFetchedAt ==
  ASSUME NEW job, QueuePushed(job), simulating' = simulating,
         NEW i \in 1..(Len(queue) + 1), Fetched(i)
  PROVE  Fetched(i)'
<1>1. \A k \in 1..(i - 1) : Kind(k)' = Kind(k)
  BY DEF QueuePushed, Kind
<1> QED BY <1>1 DEF Fetched

LEMMA PushFetched ==
  ASSUME InvFetched, NEW job, QueuePushed(job), UNCHANGED <<simulating, physics>>,
         job.kind = "movePlayers" => Fetched(Len(queue) + 1),
         tick'.pc # "fetch" => Fetched(Len(queue) + 1)'
  PROVE  InvFetched'
<1>1. ASSUME NEW i \in DOMAIN queue', Kind(i)' = "movePlayers"
      PROVE  Fetched(i)'
  <2>1. i \in 1..(Len(queue) + 1) /\ Len(queue) \in Nat
    BY DEF QueuePushed
  <2>2. Fetched(i)
    BY <1>1, <2>1 DEF QueuePushed, Kind, InvFetched
  <2> QED BY <2>1, <2>2, PushFetchedAt
<1> QED BY <1>1 DEF InvFetched

LEMMA PushManager ==
  ASSUME InvManager, NEW job, QueuePushed(job), manager' = manager
  PROVE  InvManager'
<1>1. CASE manager
  BY <1>1 DEF InvManager
<1>2. CASE ~ manager
  <2>1. queue # <<>> /\ Kind(1) = "manager"
    BY <1>2 DEF InvManager
  <2>2. 1 \in 1..Len(queue)
    BY <2>1, EmptySeq DEF QueuePushed
  <2>3. queue' # <<>> /\ queue'[1] = queue[1]
    BY <2>2, EmptySeq DEF QueuePushed
  <2> QED BY <2>1, <2>3 DEF InvManager, Kind
<1> QED BY <1>1, <1>2

LEMMA PushNumbers ==
  ASSUME InvNumbers, NEW job, QueuePushed(job), UNCHANGED <<players, index, made, entering>>,
         job.kind \notin {"bot", "create"}
  PROVE  InvNumbers'
<1>0. Present' = Present
  BY DEF Present
<1>1. \A i \in DOMAIN queue' : Making(i)' => Who(i)' \in 0..made'
  BY DEF InvNumbers, QueuePushed, Making, Kind, Who
<1> QED BY <1>0, <1>1 DEF InvNumbers

LEMMA PushControlled ==
  ASSUME InvControlled, NEW job, QueuePushed(job), UNCHANGED <<controllers, made>>,
         failure' = failure
  PROVE  InvControlled'
<1>1. \A i \in DOMAIN queue : i \in DOMAIN queue' /\ queue'[i] = queue[i]
  BY DEF QueuePushed
<1> QED BY <1>1 DEF InvControlled, Making, Kind, Who

-----------------------------------------------------------------------------
(* Each action keeps the invariant *)


\* The size of _players is a number.
LEMMA IndexTyped ==
  ASSUME IInv, NEW n \in Objects
  PROVE  [index EXCEPT ![n] = Cardinality(Present)] \in [Objects -> Nat]
<1>1. Cardinality(Present) \in Nat
  BY FS_CardinalityType DEF IInv, InvNumbers
<1> QED BY <1>1 DEF IInv, TypeOK

LEMMA StepEnterInit ==
  ASSUME IInv, NEW u \in Users, EnterInit(u)
  PROVE  IInv'
<1> DEFINE n == made + 1
<1>1. /\ failure = "none" /\ entering = {} /\ entering' = {<<u, n>>} /\ made' = n
      /\ queue' = Append(queue, Create(n))
      /\ late' = IF isReady THEN late \cup {n} ELSE late
      /\ UNCHANGED <<isReady, players, index, reentered, physics, controllers, manager,
                     simulating, clock, ticks, tick, fire, firing, rewind, shots,
                     missed, failure>>
  BY DEF EnterInit, Running, LockFree, physicsVars, tickVars, fireVars
<1>2. made \in 0..MaxObjects /\ made < MaxObjects /\ n \in Objects /\ late \subseteq late'
  BY <1>1, RoomAssumption DEF IInv, TypeOK, EnterInit, Actors, Objects
<1>3. Create(n) \in Jobs /\ Create(n).kind = "create" /\ Create(n).who = n
  BY <1>2, JobsTyped DEF Create
<1>4. QueuePushed(Create(n))
  BY <1>1, <1>3, Pushed DEF IInv, TypeOK
<1>5. TypeOK'
  BY <1>1, <1>2, <1>4 DEF IInv, TypeOK, QueuePushed, Actors, Objects
<1>6. InvReady'
  BY <1>1, <1>3, <1>4, PushReady DEF IInv, TickKinds
<1>7. InvEarly'
  <2>1. ~ isReady => ~ simulating /\ physics = "idle" /\ NoTickBefore(Len(queue) + 1)
    BY DEF IInv, InvReady
  <2>2. isReady => n \in late'
    BY <1>1
  <2> QED BY <1>1, <1>2, <1>3, <1>4, <2>1, <2>2, PushEarly DEF IInv
<1>8. InvFetched'
  <2>1. PICK m \in Int : m = Len(queue) + 1
    BY <1>4 DEF QueuePushed
  <2>2. tick.pc # "fetch" => Fetched(m)
    BY <2>1 DEF IInv, InvFetched
  <2>3. tick'.pc # "fetch" => Fetched(Len(queue) + 1)'
    <3> SUFFICES ASSUME tick'.pc # "fetch"
                 PROVE  Fetched(Len(queue) + 1)'
      OBVIOUS
    <3>1. Fetched(m)'
      BY <1>1, <1>4, <2>1, <2>2, PushFetchedAt DEF QueuePushed
    <3>2. Len(queue') + 1 = m + 1 /\ Kind(m)' = "create"
      BY <1>3, <1>4, <2>1 DEF QueuePushed, Kind
    <3> QED BY <1>4, <2>1, <3>1, <3>2 DEF Fetched, QueuePushed
  <2> QED BY <1>1, <1>3, <1>4, <2>3, PushFetched DEF IInv
<1>9. InvNumbers'
  <2>1. \A i \in DOMAIN queue' : Making(i)' => Who(i)' \in 0..made'
    BY <1>1, <1>2, <1>3, <1>4 DEF IInv, InvNumbers, QueuePushed, Making, Kind, Who
  <2>2. \A v \in Users : players'[v] \in 0..made'
    BY <1>1, <1>2 DEF IInv, InvNumbers
  <2>3. \A v \in Users, m \in Objects : <<v, m>> \in entering' => m = n
    BY <1>1
  <2>5. Present' = Present
    BY <1>1 DEF Present
  <2>4. n \in 1..made' /\ \A v \in Users : players'[v] # n
    BY <1>1, <1>2 DEF IInv, InvNumbers, Objects
  <2> QED BY <1>1, <2>1, <2>2, <2>3, <2>4, <2>5 DEF IInv, InvNumbers
<1>10. InvManager'
  BY <1>1, <1>4, PushManager DEF IInv
<1>11. InvControlled'
  <2> SUFFICES ASSUME failure = "none", NEW m \in 0..n
               PROVE  m \in controllers \/ \E i \in DOMAIN queue' : (Making(i) /\ Who(i) = m)'
    BY <1>1 DEF InvControlled
  <2>1. CASE m = n
    BY <1>3, <1>4, <2>1 DEF QueuePushed, Making, Kind, Who
  <2>2. CASE m # n
    <3>1. m \in 0..made
      BY <1>2, <2>2
    <3>2. m \in controllers \/ \E i \in DOMAIN queue : Making(i) /\ Who(i) = m
      BY <3>1 DEF IInv, InvControlled
    <3>3. \A i \in DOMAIN queue : i \in DOMAIN queue' /\ queue'[i] = queue[i]
      BY <1>4 DEF QueuePushed
    <3> QED BY <3>2, <3>3 DEF Making, Kind, Who
  <2> QED BY <2>1, <2>2
<1>12. InvAlive'
  <2> SUFFICES ASSUME failure = "none", ~ reentered, NEW m \in 1..n
               PROVE  \E v \in Users : players[v] = m \/ <<v, m>> \in entering'
    BY <1>1 DEF InvAlive
  <2>1. CASE m = n
    BY <1>1, <2>1
  <2>2. CASE m # n
    <3>1. m \in 1..made
      BY <1>2, <2>2
    <3> QED BY <1>1, <3>1 DEF IInv, InvAlive
  <2> QED BY <2>1, <2>2
<1>13. EntriesExplained'
  BY <1>1, <1>2, KeepEntries DEF IInv
<1>14. InvShooters'
  <2>1. \A m \in Objects : <<u, m>> \in entering' => m = n
    BY <1>1
  <2>2. missed[n] = {} /\ (fire.pc # "idle" => fire.who # n)
    <3>1. ~ (n <= made)
      BY <1>2
    <3> QED BY <1>2, <3>1 DEF IInv, InvShooters
  <2>3. \A v \in Users, m \in Objects : <<v, m>> \in entering' => m = n
    BY <1>1
  <2>4. \A m \in Objects : m <= made => m <= made'
    BY <1>1, <1>2 DEF Objects
  <2> QED BY <1>1, <1>2, <2>2, <2>3, <2>4 DEF IInv, InvShooters
<1>15. InvRewind'
  BY <1>1 DEF IInv, InvRewind, Ours, Slot
<1> QED
  BY <1>5, <1>6, <1>7, <1>8, <1>9, <1>10, <1>11, <1>12, <1>13, <1>14, <1>15 DEF IInv

LEMMA StepEnterInsert ==
  ASSUME IInv, NEW u \in Users, NEW n \in Objects, EnterInsert(u, n)
  PROVE  IInv'
<1>1. /\ failure = "none" /\ <<u, n>> \in entering /\ entering' = {}
      /\ index' = [index EXCEPT ![n] = Cardinality(Present)]
      /\ players' = [players EXCEPT ![u] = n]
      /\ late' = IF isReady THEN late \cup {n} ELSE late
      /\ reentered' = (reentered \/ players[u] # 0)
      /\ UNCHANGED <<queue, isReady, made, physics, controllers, manager,
                     simulating, clock, ticks, tick, fire, firing, rewind, shots,
                     missed>>
      /\ \/ failure' = failure
         \/ Iterating /\ failure' = "players changed"
         \/ failure' \in HandlerReads
  BY DEF EnterInsert, Running, physicsVars, tickVars, fireVars
<1>2. /\ players \in [Users -> Actors] /\ made \in Actors /\ late \subseteq late'
      /\ n \in Actors /\ n \in 0..made
  <2>1. players \in [Users -> Actors] /\ made \in 0..MaxObjects
    BY DEF IInv, TypeOK, Actors
  <2>2. late \subseteq late'
    BY <1>1
  <2>3. n \in 1..made
    BY <1>1 DEF IInv, InvNumbers
  <2> QED BY <2>1, <2>2, <2>3, RoomAssumption DEF Actors
<1>3. TypeOK'
  <2>1. failure' \in Failures
    BY <1>1 DEF HandlerReads, Failures
  <2>2. index' \in [Objects -> Nat]
    BY <1>1, IndexTyped DEF IInv, TypeOK
  <2> QED BY <1>1, <1>2, <2>1, <2>2 DEF IInv, TypeOK
<1>4. (InvReady /\ InvEarly /\ InvFetched /\ InvManager /\ InvControlled)'
  BY <1>1, <1>2, KeepReady, KeepEarly, KeepFetched, KeepManager, KeepControlled DEF IInv
<1>5. InvNumbers'
  <2>1. \A v \in Users : players'[v] \in 0..made'
    BY <1>1, <1>2 DEF IInv, InvNumbers
  <2>2. \A i \in DOMAIN queue' : Making(i)' => Who(i)' \in 0..made'
    BY <1>1 DEF IInv, InvNumbers, Making, Kind, Who
  <2>3. IsFiniteSet(Present')
    <3>1. Present' \subseteq Present \cup {u}
      <4>1. \A v \in Users : v # u => players'[v] = players[v]
        BY <1>1, <1>2
      <4> QED BY <4>1 DEF Present
    <3>2. IsFiniteSet(Present \cup {u})
      BY FS_AddElement DEF IInv, InvNumbers
    <3> QED BY <3>1, <3>2, FS_Subset
  <2> QED BY <1>1, <2>1, <2>2, <2>3 DEF InvNumbers
<1>6. InvAlive'
  <2> SUFFICES ASSUME ~ reentered', NEW m \in 1..made
               PROVE  \E v \in Users : players'[v] = m
    BY <1>1 DEF InvAlive
  <2>1. ~ reentered /\ players[u] = 0 /\ m # 0
    <3>1. ~ reentered /\ players[u] = 0
      BY <1>1, Zenon
    <3> QED BY <1>2, <3>1 DEF Actors
  <2>2. PICK v \in Users : players[v] = m \/ <<v, m>> \in entering
    BY <1>1, <2>1 DEF IInv, InvAlive
  <2>3. CASE players[v] = m
    BY <1>1, <1>2, <2>1, <2>3
  <2>4. CASE <<v, m>> \in entering
    <3>1. <<v, m>> = <<u, n>>
      BY <1>1, <2>4 DEF IInv, InvNumbers
    <3> QED BY <1>1, <1>2, <3>1
  <2> QED BY <2>2, <2>3, <2>4
<1>7. EntriesExplained'
  <2>1. CASE failure' = failure
    BY <1>1, <1>2, <2>1 DEF EntriesExplained
  <2>2. CASE Iterating /\ failure' = "players changed"
    <3>1. isReady
      BY <2>2 DEF IInv, InvReady, Iterating
    <3> QED BY <1>1, <2>2, <3>1 DEF EntriesExplained
  <2>3. CASE failure' \in HandlerReads
    <3>1. failure' = "list changed" \/ (failure' = "multicast changed" /\ Present # {})
      BY <2>3 DEF HandlerReads
    <3>2. Present # {} => made > 1
      <4> SUFFICES ASSUME NEW v \in Present PROVE made > 1
        OBVIOUS
      <4>1. v \in Users /\ players[v] \in 0..made /\ players[v] # 0 /\ players[v] # n
        BY <1>1 DEF Present, IInv, InvNumbers
      <4>2. n \in 1..made /\ made \in 0..MaxObjects
        BY <1>1 DEF IInv, InvNumbers, TypeOK, Actors
      <4> QED BY <4>1, <4>2, RoomAssumption
    <3> QED BY <1>1, <3>1, <3>2 DEF EntriesExplained
  <2> QED BY <1>1, <2>1, <2>2, <2>3
<1>8. InvShooters'
  BY <1>1 DEF IInv, InvShooters
<1>9. InvRewind'
  <2>1. missed[n] = {} /\ (fire.pc # "idle" => fire.who # n /\ fire.who \in Objects)
    BY <1>1 DEF IInv, InvShooters
  <2>2. \A m \in Objects : m # n => index'[m] = index[m]
    BY <1>1 DEF IInv, TypeOK
  <2>3. \A e \in rewind : Ours(e) => Ours(e)'
    BY <1>1, <2>1, <2>2 DEF Ours, Slot
  <2>4. ASSUME NEW e \in rewind, NEW m \in Objects, e.time \in missed[m], index[m] = e.slot
        PROVE  e.time \in missed'[m] /\ index'[m] = e.slot
    <3>1. m # n
      BY <2>1, <2>4
    <3> QED BY <1>1, <2>2, <2>4, <3>1
  <2> QED BY <1>1, <2>3, <2>4 DEF IInv, InvRewind
<1> QED BY <1>3, <1>4, <1>5, <1>6, <1>7, <1>8, <1>9 DEF IInv

LEMMA StepSetIsReady ==
  ASSUME IInv, NEW u \in Users, SetIsReady(u)
  PROVE  IInv'
<1>1. /\ isReady' = TRUE
      /\ UNCHANGED <<queue, players, index, made, entering, late, reentered, physics,
                     controllers, manager, simulating, clock, ticks, tick,
                     fire, firing, rewind, shots, missed, failure>>
  BY DEF SetIsReady, physicsVars, tickVars, fireVars
<1>2. TypeOK'
  BY <1>1 DEF IInv, TypeOK
<1> QED BY <1>1, <1>2, KeepReady, KeepEarly, KeepFetched, KeepNumbers, KeepManager,
           KeepControlled, KeepAlive, KeepEntries, KeepRewind DEF IInv

-----------------------------------------------------------------------------
(* The tick *)

LEMMA StepTickBegin ==
  ASSUME IInv, TickBegin
  PROVE  IInv'
<1>1. /\ tick.pc = "idle" /\ tick'.pc = "capture" /\ isReady
      /\ ticks < MaxTicks /\ ticks' = ticks + 1
      /\ clock' \in {clock, clock + 1}
      /\ UNCHANGED <<queue, isReady, players, index, made, entering, late, reentered,
                     physics, controllers, manager, simulating,
                     fire, firing, rewind, shots, missed, failure>>
  BY RoomAssumption DEF IInv, TypeOK, TickBegin, physicsVars, roomVars, fireVars
<1>2. isReady' = TRUE
  BY <1>1 DEF IInv, TypeOK
<1>3. ticks' \in Times /\ clock' \in 0..ticks'
  BY <1>1, RoomAssumption DEF IInv, TypeOK, Times
<1>4. TypeOK'
  BY <1>1, <1>3 DEF IInv, TypeOK
<1> QED BY <1>1, <1>2, <1>4, KeepReady, KeepEarly, KeepFetched, KeepNumbers,
           KeepManager, KeepControlled, KeepAlive, KeepEntries, KeepRewind DEF IInv

LEMMA StepAddSnapshot ==
  ASSUME IInv, AddSnapshot
  PROVE  IInv'
<1>1. /\ tick.pc = "capture" /\ tick' = [tick EXCEPT !.pc = "simulate"]
      /\ fire' = [fire EXCEPT !.moved = (fire.pc # "idle")]
      /\ UNCHANGED <<queue, isReady, players, index, made, entering, late, reentered,
                     physics, controllers, manager, simulating, clock, ticks,
                     firing, rewind, shots, missed, failure>>
  BY DEF AddSnapshot, Goto, physicsVars, roomVars, fireVars
<1>2. isReady = TRUE
  BY <1>1 DEF IInv, TypeOK, InvReady
<1>3. tick'.pc # "fetch" /\ tick'.pc \in {"simulate", "capture"}
  BY <1>1
<1>4. /\ DOMAIN fire' = {"pc", "who", "time", "entities", "moved"}
      /\ fire'.pc = fire.pc /\ fire'.who = fire.who /\ fire'.time = fire.time
  BY <1>1 DEF IInv, InvShooters
<1>5. TypeOK'
  BY <1>1, <1>3, <1>4 DEF IInv, TypeOK
<1>6. InvShooters' /\ InvRewind'
  BY <1>1, <1>4 DEF IInv, InvShooters, InvRewind, Ours, Slot
<1> QED BY <1>1, <1>2, <1>5, <1>6, KeepReady, KeepEarly, KeepFetched, KeepNumbers,
           KeepManager, KeepControlled, KeepAlive, KeepEntries DEF IInv

LEMMA StepPushSimulate ==
  ASSUME IInv, PushSimulate
  PROVE  IInv'
<1> DEFINE job == Job("simulate")
<1>1. /\ tick.pc = "simulate" /\ tick' = [tick EXCEPT !.pc = "fetch"]
      /\ queue' = Append(queue, job)
      /\ UNCHANGED <<isReady, players, index, made, entering, late, reentered,
                     physics, controllers, manager, simulating, clock, ticks,
                     fire, firing, rewind, shots, missed, failure>>
  BY DEF PushSimulate, PushJob, Goto, TickUnchanged, physicsVars, roomVars, fireVars
<1>2. isReady /\ tick'.pc \in {"simulate", "fetch"} /\ (tick'.pc = "fetch" \/ tick' = tick)
  BY <1>1 DEF IInv, TypeOK, InvReady
<1>3. QueuePushed(job) /\ job.kind = "simulate" /\ job \in Jobs
  BY <1>1, JobsTyped, Pushed DEF IInv, TypeOK, Job
<1>4. TypeOK'
  BY <1>1, <1>2, <1>3 DEF IInv, TypeOK, QueuePushed
<1>5. tick'.pc = "fetch"
  BY <1>1, <1>2
<1>6. InvReady' /\ InvEarly'
  BY <1>1, <1>2, <1>3, PushReady, PushEarly DEF IInv
<1>7. InvFetched' /\ InvNumbers' /\ InvManager' /\ InvControlled'
  BY <1>1, <1>3, <1>5, PushFetched, PushNumbers, PushManager, PushControlled DEF IInv
<1>8. InvAlive' /\ EntriesExplained' /\ InvShooters' /\ InvRewind'
  BY <1>1, KeepAlive, KeepEntries, KeepRewind DEF IInv
<1> QED BY <1>4, <1>6, <1>7, <1>8 DEF IInv

LEMMA StepPushFetch ==
  ASSUME IInv, PushFetch
  PROVE  IInv'
<1> DEFINE job == Job("fetch")
<1>1. /\ tick.pc = "fetch" /\ tick' = [tick EXCEPT !.pc = "move"]
      /\ queue' = Append(queue, job)
      /\ UNCHANGED <<isReady, players, index, made, entering, late, reentered,
                     physics, controllers, manager, simulating, clock, ticks,
                     fire, firing, rewind, shots, missed, failure>>
  BY DEF PushFetch, PushJob, Goto, TickUnchanged, physicsVars, roomVars, fireVars
<1>2. isReady /\ tick'.pc \in {"fetch", "move"}
  BY <1>1 DEF IInv, TypeOK, InvReady
<1>3. QueuePushed(job) /\ job.kind = "fetch" /\ job \in Jobs
  BY <1>1, JobsTyped, Pushed DEF IInv, TypeOK, Job
<1>4. TypeOK'
  BY <1>1, <1>2, <1>3 DEF IInv, TypeOK, QueuePushed
<1>5. Fetched(Len(queue) + 1)'
  <2>1. PICK n \in Nat : n = Len(queue) + 1
    BY <1>3 DEF QueuePushed
  <2>2. Kind(n)' = "fetch" /\ Len(queue') + 1 = n + 1
    BY <1>3, <2>1 DEF QueuePushed, Kind
  <2>3. n \in 1..n /\ (n + 1) - 1 = n
    BY <1>3, <2>1 DEF QueuePushed
  <2>4. \A k \in 1..n : Kind(k)' = "simulate" => k < n
    BY <2>2
  <2>5. Fetched(n + 1)'
    BY <2>2, <2>3, <2>4 DEF Fetched
  <2> QED BY <2>2, <2>5
<1>6. InvReady' /\ InvEarly'
  BY <1>1, <1>2, <1>3, PushReady, PushEarly DEF IInv
<1>7. InvFetched' /\ InvNumbers' /\ InvManager' /\ InvControlled'
  BY <1>1, <1>3, <1>5, PushFetched, PushNumbers, PushManager, PushControlled DEF IInv
<1>8. InvAlive' /\ EntriesExplained' /\ InvShooters' /\ InvRewind'
  BY <1>1, KeepAlive, KeepEntries, KeepRewind DEF IInv
<1> QED BY <1>4, <1>6, <1>7, <1>8 DEF IInv

LEMMA StepPushMoves ==
  ASSUME IInv, PushMoves
  PROVE  IInv'
<1>1. /\ tick.pc = "move" /\ tick' = [tick EXCEPT !.pc = "sync"]
      /\ queue' = queue \o <<Job("moveBots"), Job("movePlayers")>>
      /\ UNCHANGED <<isReady, players, index, made, entering, late, reentered,
                     physics, controllers, manager, simulating, clock, ticks,
                     fire, firing, rewind, shots, missed, failure>>
  BY DEF PushMoves, Goto, TickUnchanged, physicsVars, roomVars, fireVars
<1>2. isReady /\ tick'.pc \in {"move", "sync"}
  BY <1>1 DEF IInv, TypeOK, InvReady
<1>3. QueuePushedTwo
  BY <1>1, PushedTwo DEF IInv, TypeOK
<1>4. TypeOK'
  BY <1>1, <1>2, <1>3 DEF IInv, TypeOK, QueuePushedTwo
<1>5. InvReady'
  BY <1>1, <1>2 DEF InvReady
<1>6. InvEarly'
  BY <1>1, <1>3 DEF IInv, InvEarly, NoTickBefore, Making, Kind, Who, QueuePushedTwo, Job,
     TickKinds
<1>7. InvFetched'
  <2>1. PICK n \in Nat : n = Len(queue) + 1
    BY <1>3 DEF QueuePushedTwo
  <2>2. /\ \A k \in 1..(n - 1) : Kind(k)' = Kind(k)
        /\ Kind(n)' = "moveBots" /\ Kind(n + 1)' = "movePlayers"
        /\ DOMAIN queue' = 1..(n + 1) /\ Len(queue') + 1 = n + 2
    BY <1>3, <2>1 DEF QueuePushedTwo, Kind, Job
  <2>3. Fetched(n)
    BY <1>1, <2>1 DEF IInv, InvFetched
  <2>4. Fetched(n)'
    BY <1>1, <2>2, <2>3 DEF Fetched
  <2>5. Fetched(n + 1)' /\ Fetched(n + 2)'
    BY <2>2, <2>4 DEF Fetched
  <2>6. ASSUME NEW i \in 1..(n + 1), Kind(i)' = "movePlayers"
        PROVE  Fetched(i)'
    <3>1. CASE i \in 1..(n - 1)
      <4>1. Fetched(i)
        BY <2>1, <2>2, <2>6, <3>1, <1>3 DEF IInv, InvFetched, QueuePushedTwo
      <4> QED BY <1>1, <2>2, <3>1, <4>1 DEF Fetched
    <3>2. CASE i = n + 1
      BY <2>5, <3>2
    <3> QED BY <2>2, <2>6, <3>1, <3>2
  <2>7. simulating' => physics' = "idle"
    BY <1>1 DEF IInv, InvFetched
  <2>8. Fetched(Len(queue) + 1)'
    BY <2>2, <2>5
  <2> QED BY <2>2, <2>6, <2>7, <2>8 DEF InvFetched
<1>8. InvNumbers'
  BY <1>1, <1>3 DEF IInv, InvNumbers, Making, Kind, Who, QueuePushedTwo, Job, Present
<1>9. InvManager'
  BY <1>1, <1>3, EmptySeq DEF IInv, InvManager, Kind, QueuePushedTwo
<1>10. InvControlled'
  BY <1>1, <1>3 DEF IInv, InvControlled, Making, Kind, Who, QueuePushedTwo
<1>11. InvAlive' /\ EntriesExplained' /\ InvShooters' /\ InvRewind'
  BY <1>1, KeepAlive, KeepEntries, KeepRewind DEF IInv
<1> QED BY <1>4, <1>5, <1>6, <1>7, <1>8, <1>9, <1>10, <1>11 DEF IInv

LEMMA StepTickEnd ==
  ASSUME IInv, TickEnd
  PROVE  IInv'
<1>1. /\ tick.pc = "sync" /\ tick'.pc = "idle"
      /\ UNCHANGED <<queue, isReady, players, index, made, entering, late, reentered,
                     physics, controllers, manager, simulating, clock, ticks,
                     fire, firing, rewind, shots, missed, failure>>
  BY DEF TickEnd, NoTick, TickUnchanged, physicsVars, roomVars, fireVars
<1>2. isReady = TRUE
  BY <1>1 DEF IInv, TypeOK, InvReady
<1>3. TypeOK'
  BY <1>1 DEF IInv, TypeOK
<1> QED BY <1>1, <1>2, <1>3, KeepReady, KeepEarly, KeepFetched, KeepNumbers, KeepManager,
           KeepControlled, KeepAlive, KeepEntries, KeepRewind DEF IInv

-----------------------------------------------------------------------------
(* The physics thread *)

\* What is the same for every job: it was the oldest and nothing of the room,
\* the tick or a shot changes.
PoppedOnly(kind) ==
  /\ failure = "none" /\ physics = "idle"
  /\ QueuePopped /\ Kind(1) = kind /\ queue[1] \in Jobs
  /\ UNCHANGED <<isReady, players, index, made, entering, late, reentered,
                 clock, ticks, tick, fire, firing, rewind, shots, missed>>

LEMMA PopOnly ==
  ASSUME IInv, NEW kind, PopJob(kind), PhysicsUnchanged
  PROVE  PoppedOnly(kind)
<1>1. /\ failure = "none" /\ physics = "idle" /\ Kind(1) = kind
      /\ queue # <<>> /\ queue' = RemoveAt(queue, NextOldest)
  BY DEF PopJob, Running, Kind, NextOldest
<1>2. QueuePopped
  BY <1>1, Popped DEF IInv, TypeOK
<1>3. queue[1] \in Jobs
  BY <1>2, ElementOfSeq DEF IInv, TypeOK, QueuePopped
<1> QED BY <1>1, <1>2, <1>3 DEF PoppedOnly, PhysicsUnchanged, roomVars, tickVars, fireVars

\* What a job leaves as it is.
LEMMA PopKeeps ==
  ASSUME IInv, NEW kind, PoppedOnly(kind)
  PROVE  InvNumbers' /\ InvShooters' /\ InvRewind' /\ InvAlive'
BY PopNumbers, KeepRewind, KeepAlive DEF IInv, PoppedOnly

LEMMA StepRunManager ==
  ASSUME IInv, RunManager
  PROVE  IInv'
<1>1. /\ PoppedOnly("manager") /\ manager' = TRUE
      /\ UNCHANGED <<physics, controllers, simulating, failure>>
  BY PopOnly DEF RunManager
<1>2. TypeOK'
  BY <1>1 DEF IInv, TypeOK, PoppedOnly, QueuePopped
<1>3. InvReady' /\ InvEarly' /\ InvManager' /\ InvControlled'
  BY <1>1, PopReady, PopEarly, PopManager, PopControlled DEF IInv, PoppedOnly, Making
<1>4. InvFetched'
  <2>1. simulating' => physics' = "idle"
    BY <1>1 DEF IInv, InvFetched
  <2> QED BY <1>1, <2>1, PopFetched DEF IInv, PoppedOnly
<1>5. EntriesExplained'
  BY <1>1, KeepEntries DEF IInv, PoppedOnly
<1> QED BY <1>1, <1>2, <1>3, <1>4, <1>5, PopKeeps DEF IInv

\* The job that makes a controller finds the manager, and its player too unless
\* the user has entered again.
LEMMA StepMakeController ==
  ASSUME IInv, NEW kind \in {"bot", "create"}, PoppedOnly(kind), MakeController(Who(1))
  PROVE  IInv'
<1> DEFINE n == Who(1)
<1>1. /\ \/ /\ manager /\ Alive(n)
            /\ controllers' = controllers \cup {n} /\ failure' = failure
         \/ /\ ~ (manager /\ Alive(n)) /\ controllers' = controllers
            /\ failure' = IF manager THEN "freed player" ELSE "null manager"
      /\ UNCHANGED <<physics, manager, simulating>>
  BY DEF MakeController
<1>2. Making(1) /\ 1 \in DOMAIN queue /\ n \in 0..made /\ n \in Actors
  <2>1. Making(1) /\ 1 \in DOMAIN queue
    BY DEF PoppedOnly, Making, QueuePopped
  <2>2. n \in 0..made
    BY <2>1 DEF IInv, InvNumbers
  <2>3. made \in 0..MaxObjects
    BY DEF IInv, TypeOK, Actors
  <2> QED BY <2>1, <2>2, <2>3, RoomAssumption DEF Actors
<1>3. manager
  BY DEF IInv, InvManager, PoppedOnly
<1>4. Alive(n) \/ reentered
  <2>1. CASE n = 0
    BY <2>1 DEF Alive
  <2>2. CASE n # 0
    <3>1. n \in 1..made
      BY <1>2, <2>2 DEF IInv, TypeOK, Actors
    <3>2. reentered \/ \E u \in Users : players[u] = n \/ <<u, n>> \in entering
      BY <3>1 DEF IInv, InvAlive, PoppedOnly
    <3> QED BY <3>2 DEF Alive
  <2> QED BY <2>1, <2>2
<1>5. TypeOK'
  <2>1. failure' \in Failures
    BY <1>1, <1>3 DEF IInv, TypeOK, Failures
  <2>2. controllers' \subseteq Actors
    BY <1>1, <1>2 DEF IInv, TypeOK
  <2> QED BY <1>1, <2>1, <2>2 DEF IInv, TypeOK, PoppedOnly, QueuePopped
<1>6. InvReady' /\ InvEarly' /\ InvManager'
  BY <1>1, <1>3, PopReady, PopEarly, PopManager DEF IInv, PoppedOnly
<1>7. InvFetched'
  <2>1. simulating' => physics' = "idle"
    BY <1>1 DEF IInv, InvFetched
  <2> QED BY <1>1, <2>1, PopFetched DEF IInv, PoppedOnly
<1>8. InvControlled'
  <2>1. failure' = "none" => n \in controllers'
    BY <1>1
  <2>2. controllers \subseteq controllers'
    BY <1>1
  <2> QED BY <2>1, <2>2, PopControlled DEF IInv, PoppedOnly
<1>9. EntriesExplained'
  BY <1>1, <1>3, <1>4 DEF IInv, EntriesExplained, PoppedOnly
<1> QED BY <1>5, <1>6, <1>7, <1>8, <1>9, PopKeeps DEF IInv

LEMMA StepRunCreateBot ==
  ASSUME IInv, RunCreateBot
  PROVE  IInv'
<1>1. PopJob("bot") /\ MakeController(0)
  BY DEF RunCreateBot
<1>2. PoppedOnly("bot")
  BY <1>1, PopOnly DEF MakeController
<1>3. Who(1) = 0
  BY <1>2 DEF PoppedOnly, Kind, Who, Jobs
<1> QED BY <1>1, <1>2, <1>3, StepMakeController

LEMMA StepRunCreatePlayer ==
  ASSUME IInv, RunCreatePlayer
  PROVE  IInv'
<1>1. PopJob("create") /\ MakeController(Who(1))
  BY DEF RunCreatePlayer, Who, NextOldest
<1>2. PoppedOnly("create")
  BY <1>1, PopOnly DEF MakeController
<1> QED BY <1>1, <1>2, StepMakeController

LEMMA StepRunSimulate ==
  ASSUME IInv, RunSimulate
  PROVE  IInv'
<1>1. /\ PoppedOnly("simulate") /\ simulating' = TRUE
      /\ UNCHANGED <<physics, controllers, manager, failure>>
  BY PopOnly DEF RunSimulate
<1>2. TypeOK'
  BY <1>1 DEF IInv, TypeOK, PoppedOnly, QueuePopped
<1>3. InvReady' /\ InvEarly' /\ InvManager' /\ InvControlled'
  BY <1>1, PopReady, PopEarly, PopManager, PopControlled
     DEF IInv, PoppedOnly, Making, TickKinds
<1>4. InvFetched'
  BY <1>1, PopFetched DEF IInv, PoppedOnly
<1>5. EntriesExplained'
  BY <1>1, KeepEntries DEF IInv, PoppedOnly
<1> QED BY <1>1, <1>2, <1>3, <1>4, <1>5, PopKeeps DEF IInv

LEMMA StepRunFetch ==
  ASSUME IInv, RunFetch
  PROVE  IInv'
<1>1. /\ PoppedOnly("fetch") /\ simulating' = FALSE
      /\ UNCHANGED <<physics, controllers, manager, failure>>
  BY PopOnly DEF RunFetch
<1>2. TypeOK'
  BY <1>1 DEF IInv, TypeOK, PoppedOnly, QueuePopped
<1>3. InvReady' /\ InvEarly' /\ InvManager' /\ InvControlled'
  BY <1>1, PopReady, PopEarly, PopManager, PopControlled
     DEF IInv, PoppedOnly, Making, TickKinds
<1>4. InvFetched'
  BY <1>1, PopFetched DEF IInv, PoppedOnly
<1>5. EntriesExplained'
  BY <1>1, KeepEntries DEF IInv, PoppedOnly
<1> QED BY <1>1, <1>2, <1>3, <1>4, <1>5, PopKeeps DEF IInv

\* The bot's controller was made before the first tick's jobs.
LEMMA StepRunMoveBots ==
  ASSUME IInv, RunMoveBots
  PROVE  IInv'
<1>1. /\ PoppedOnly("moveBots")
      /\ failure' = IF 0 \in controllers THEN "none" ELSE "null controller"
      /\ UNCHANGED <<physics, controllers, manager, simulating>>
  BY PopOnly DEF RunMoveBots, physicsVars
<1>2. 0 \in controllers
  <2> SUFFICES ASSUME 0 \notin controllers
               PROVE  FALSE
    OBVIOUS
  <2>1. 0 \in 0..made
    BY DEF IInv, TypeOK, Actors
  <2>2. PICK i \in DOMAIN queue : Making(i) /\ Who(i) = 0
    BY <1>1, <2>1 DEF IInv, InvControlled, PoppedOnly
  <2>3. 0 \in late
    BY <1>1, <2>2, TickHead DEF IInv, PoppedOnly, TickKinds
  <2> QED BY <2>3 DEF IInv, TypeOK, Objects
<1>3. failure' = failure
  BY <1>1, <1>2 DEF PoppedOnly
<1>4. TypeOK'
  BY <1>1, <1>3 DEF IInv, TypeOK, PoppedOnly, QueuePopped
<1>5. InvReady' /\ InvEarly' /\ InvManager' /\ InvControlled'
  BY <1>1, <1>3, PopReady, PopEarly, PopManager, PopControlled
     DEF IInv, PoppedOnly, Making, TickKinds
<1>6. InvFetched'
  <2>1. simulating' => physics' = "idle"
    BY <1>1 DEF IInv, InvFetched
  <2> QED BY <1>1, <2>1, PopFetched DEF IInv, PoppedOnly
<1>7. EntriesExplained'
  BY <1>1, <1>3, KeepEntries DEF IInv, PoppedOnly
<1> QED BY <1>1, <1>4, <1>5, <1>6, <1>7, PopKeeps DEF IInv

\* The oldest job is the players' move: nothing is simulating.
LEMMA MoveIsFetched ==
  ASSUME IInv, PoppedOnly("movePlayers")
  PROVE  ~ simulating
<1>1. 1 \in DOMAIN queue
  BY DEF PoppedOnly, QueuePopped
<1>2. Fetched(1)
  BY <1>1 DEF IInv, InvFetched, PoppedOnly
<1> QED BY <1>2 DEF Fetched

LEMMA StepRunMovePlayers ==
  ASSUME IInv, RunMovePlayers
  PROVE  IInv'
<1>1. /\ PoppedOnly("movePlayers") /\ physics' = "moving"
      /\ UNCHANGED <<controllers, manager, simulating, failure>>
  BY PopOnly DEF RunMovePlayers
<1>2. ~ simulating
  BY <1>1, MoveIsFetched
<1>3. TypeOK'
  BY <1>1 DEF IInv, TypeOK, PoppedOnly, QueuePopped
<1>4. InvReady' /\ InvEarly' /\ InvManager' /\ InvControlled'
  BY <1>1, PopReady, PopEarly, PopManager, PopControlled
     DEF IInv, PoppedOnly, Making, TickKinds
<1>5. InvFetched'
  BY <1>1, <1>2, PopFetched DEF IInv, PoppedOnly
<1>6. EntriesExplained'
  BY <1>1, KeepEntries DEF IInv, PoppedOnly
<1> QED BY <1>1, <1>3, <1>4, <1>5, <1>6, PopKeeps DEF IInv

\* A player without a controller is late: an earlier one's job would have to be
\* still in the queue, behind a tick.
LEMMA StepMovedPlayers ==
  ASSUME IInv, MovedPlayers
  PROVE  IInv'
<1>1. /\ failure = "none" /\ physics = "moving" /\ physics' = "idle"
      /\ IF InRoom \subseteq controllers
         THEN failure' = failure ELSE failure' = "null controller"
      /\ UNCHANGED <<queue, controllers, manager, simulating, isReady, players, index, made,
                     entering, late, reentered, clock, ticks, tick, fire, firing,
                     rewind, shots, missed>>
  BY DEF MovedPlayers, Running, PhysicsUnchanged, roomVars, tickVars, fireVars
<1>2. InRoom \subseteq controllers \/ late # {}
  <2> SUFFICES ASSUME NEW n \in InRoom, n \notin controllers
               PROVE  n \in late
    OBVIOUS
  <2>1. n \in 0..made
    BY DEF InRoom, Present, IInv, InvNumbers
  <2>2. PICK i \in DOMAIN queue : Making(i) /\ Who(i) = n
    BY <1>1, <2>1 DEF IInv, InvControlled
  <2> QED BY <1>1, <2>2 DEF IInv, InvEarly
<1>3. TypeOK'
  BY <1>1 DEF IInv, TypeOK, Failures
<1>4. ~ simulating /\ isReady = TRUE
  BY <1>1 DEF IInv, InvFetched, InvReady, TypeOK
<1>5. InvReady'
  BY <1>1, <1>4 DEF InvReady
<1>6. InvEarly'
  BY <1>1, <1>4 DEF IInv, InvEarly, NoTickBefore, Making, Kind, Who
<1>7. EntriesExplained'
  BY <1>1, <1>2 DEF EntriesExplained
<1> QED BY <1>1, <1>3, <1>5, <1>6, <1>7, KeepFetched, KeepNumbers, KeepManager,
           KeepControlled, KeepAlive, KeepRewind DEF IInv

-----------------------------------------------------------------------------
(* A shot *)

\* A shot changes nothing of the room, the tick and the physics thread; what is
\* left is its own record and how it fails.
ShotFailures ==
  {"none", "no snapshot", "snapshot moved", "null session", "freed target"}

ShotOnly ==
  /\ failure = "none" /\ failure' \in ShotFailures
  /\ UNCHANGED <<queue, physics, controllers, manager, simulating, isReady, players, index,
                 made, entering, late, reentered, clock, ticks, tick>>

LEMMA ShotKeeps ==
  ASSUME IInv, ShotOnly
  PROVE  /\ InvReady' /\ InvEarly' /\ InvFetched' /\ InvNumbers'
         /\ InvManager' /\ InvControlled' /\ InvAlive' /\ EntriesExplained'
<1>1. /\ UNCHANGED <<queue, physics, controllers, manager, simulating, isReady,
                     players, index, made, entering, late, reentered, tick>>
      /\ failure = "none"
  BY DEF ShotOnly
<1>2. EntriesExplained'
  BY DEF ShotOnly, ShotFailures, EntriesExplained
<1> QED BY <1>1, <1>2, KeepReady, KeepEarly, KeepFetched, KeepNumbers, KeepManager,
           KeepControlled, KeepAlive DEF IInv

LEMMA ShotTyped ==
  ASSUME IInv, ShotOnly, shots' \in 0..MaxShots, firing' \subseteq Objects,
         fire'.pc \in {"idle", "found", "built"}, fire'.who \in Actors
  PROVE  TypeOK'
BY DEF IInv, TypeOK, ShotOnly, ShotFailures, Failures

\* A shot that fails leaves its record as it was.
LEMMA StepLost ==
  ASSUME IInv, Running, Fail("snapshot moved")
  PROVE  IInv'
<1>1. ShotOnly /\ UNCHANGED <<fire, firing, rewind, missed, shots>>
  BY DEF Fail, ShotOnly, ShotFailures, Running, physicsVars, roomVars, tickVars, fireVars
<1>2. TypeOK'
  BY <1>1, ShotTyped DEF IInv, TypeOK
<1>3. InvShooters' /\ InvRewind'
  BY <1>1, KeepRewind DEF IInv, ShotOnly
<1> QED BY <1>1, <1>2, <1>3, ShotKeeps DEF IInv

LEMMA StepFire ==
  ASSUME IInv, NEW u \in Users, NEW time \in Times, Fire(u, time)
  PROVE  IInv'
<1>1. /\ ShotOnly /\ fire.pc = "idle" /\ players[u] # 0
      /\ shots < MaxShots /\ shots' = shots + 1 /\ UNCHANGED <<rewind, missed>>
  <2>1. failure' = failure \/ failure' = "no snapshot"
    BY DEF Fire
  <2> QED BY <2>1 DEF Fire, FireUnchanged, ShotOnly, ShotFailures, Running, physicsVars, roomVars, tickVars
<1>2. players[u] \in Objects
  BY <1>1, RoomAssumption DEF IInv, TypeOK, Actors, Objects
<1>3. shots' \in 0..MaxShots
  BY <1>1, RoomAssumption DEF IInv, TypeOK
<1>4. \/ fire' = fire /\ firing' = firing
      \/ fire' = NoFire /\ firing' = firing \ {players[u]}
      \/ \E t, e : /\ fire' = [NoFire EXCEPT !.pc = "found", !.who = players[u],
                                             !.time = t, !.entities = e]
                   /\ firing' = firing \cup {players[u]}
  BY DEF Fire, Done
<1>5. /\ DOMAIN fire' = {"pc", "who", "time", "entities", "moved"}
      /\ fire'.pc \in {"idle", "found"} /\ fire'.who \in Actors
      /\ fire'.pc # "idle" => fire'.who \in Objects
      /\ firing' \subseteq Objects
  <2>1. firing \subseteq Objects /\ fire.who \in Actors /\ 0 \in Actors
    BY RoomAssumption DEF IInv, TypeOK, Actors
  <2>2. players[u] \in Actors
    BY <1>2 DEF Actors, Objects
  <2>3. CASE fire' = fire /\ firing' = firing
    BY <1>1, <2>1, <2>3 DEF IInv, InvShooters
  <2>4. CASE fire' = NoFire /\ firing' = firing \ {players[u]}
    BY <2>1, <2>4 DEF NoFire
  <2>5. CASE \E t, e : /\ fire' = [NoFire EXCEPT !.pc = "found", !.who = players[u],
                                                !.time = t, !.entities = e]
                       /\ firing' = firing \cup {players[u]}
    BY <1>2, <2>1, <2>2, <2>5 DEF NoFire
  <2> QED BY <1>4, <2>3, <2>4, <2>5
<1>6. TypeOK'
  BY <1>1, <1>3, <1>5, ShotTyped
<1>7. InvShooters'
  <2>1. entering = {} /\ entering' = {} /\ made' = made
    BY <1>1 DEF Fire, LockFree, ShotOnly
  <2>2. fire'.pc # "idle" => fire'.who = players[u]
    <3>1. CASE fire' = fire
      BY <1>1, <3>1
    <3>2. CASE fire' = NoFire
      BY <3>2 DEF NoFire
    <3>3. CASE \E t, e : fire' = [NoFire EXCEPT !.pc = "found", !.who = players[u],
                                               !.time = t, !.entities = e]
      BY <3>3 DEF NoFire
    <3> QED BY <1>4, <3>1, <3>2, <3>3
  <2>3. players[u] <= made
    BY DEF IInv, InvNumbers
  <2> QED BY <1>1, <1>5, <2>1, <2>2, <2>3 DEF IInv, InvShooters
<1>8. InvRewind'
  <2>1. index' = index
    BY <1>1 DEF ShotOnly
  <2> QED BY <1>1, <2>1 DEF IInv, InvRewind, Ours
<1> QED BY <1>1, <1>6, <1>7, <1>8, ShotKeeps DEF IInv

\* The handler returns: the type of what is left.
LEMMA DoneTyped ==
  ASSUME IInv, NEW n, Done(n)
  PROVE  /\ firing' \subseteq Objects /\ fire'.pc = "idle" /\ fire'.who \in Actors
         /\ DOMAIN fire' = {"pc", "who", "time", "entities", "moved"}
BY RoomAssumption DEF Done, NoFire, IInv, TypeOK, Actors

LEMMA StepLook ==
  ASSUME IInv, Look
  PROVE  IInv'
<1>1. Running /\ fire.pc = "found"
  BY DEF Look
<1>2. CASE Lost
  BY <1>1, <1>2, StepLost DEF Lost
<1>3. CASE /\ Done(fire.who) /\ UNCHANGED <<rewind, shots, missed, failure>>
           /\ FireUnchanged
  <2>1. ShotOnly
    BY <1>1, <1>3 DEF FireUnchanged, ShotOnly, ShotFailures, Running, physicsVars, roomVars, tickVars
  <2>2. TypeOK'
    <3>1. shots' \in 0..MaxShots
      BY <1>3 DEF IInv, TypeOK
    <3> QED BY <1>3, <2>1, <3>1, DoneTyped, ShotTyped
  <2>3. InvShooters' /\ InvRewind'
    <3>1. UNCHANGED <<index, made, entering, rewind, missed>>
      BY <1>3, <2>1 DEF ShotOnly
    <3>2. InvShooters'
      BY <1>3, <3>1, DoneTyped DEF IInv, InvShooters
    <3> QED BY <1>1, <3>1, <3>2 DEF IInv, InvRewind, Ours
  <2> QED BY <2>1, <2>2, <2>3, ShotKeeps DEF IInv
<1> QED BY <1>2, <1>3 DEF Look

LEMMA StepBuildRewindScene ==
  ASSUME IInv, BuildRewindScene
  PROVE  IInv'
<1>1. /\ fire.pc = "found" /\ fire' = [fire EXCEPT !.pc = "built"]
      /\ rewind' = rewind \cup Entities
      /\ UNCHANGED <<firing, shots, missed>>
  BY DEF BuildRewindScene
<1>2. ShotOnly
  BY DEF BuildRewindScene, FireUnchanged, ShotOnly, ShotFailures, Running, physicsVars,
     roomVars, tickVars
<1>3. /\ DOMAIN fire' = {"pc", "who", "time", "entities", "moved"}
      /\ fire'.pc = "built" /\ fire'.who = fire.who /\ fire'.time = fire.time
      /\ fire.who \in Objects
  BY <1>1 DEF IInv, InvShooters
<1>4. TypeOK'
  BY <1>1, <1>2, <1>3, ShotTyped DEF IInv, TypeOK
<1>5. UNCHANGED <<index, made, entering>>
  BY <1>2 DEF ShotOnly
<1>6. InvShooters'
  BY <1>1, <1>3, <1>5 DEF IInv, InvShooters
<1>7. InvRewind'
  <2>1. ASSUME NEW e \in Entities
        PROVE  Ours(e)'
    <3>1. e.slot = Slot /\ e.time = fire.time
      BY DEF Entities
    <3>2. Slot' = Slot
      BY <1>3, <1>5 DEF Slot
    <3> QED BY <1>3, <3>1, <3>2 DEF Ours
  <2>2. ASSUME NEW e \in rewind
        PROVE  \E n \in Objects : e.time \in missed'[n] /\ index'[n] = e.slot
    <3>1. ~ Ours(e)
      BY <1>1 DEF Ours
    <3> QED BY <1>1, <1>5, <3>1 DEF IInv, InvRewind
  <2> QED BY <1>1, <2>1, <2>2 DEF InvRewind
<1> QED BY <1>2, <1>4, <1>6, <1>7, ShotKeeps DEF IInv

\* A miss leaves the scene as it is; its time is remembered.
LEMMA StepNoTarget ==
  ASSUME IInv, NoTarget
  PROVE  IInv'
<1>1. /\ fire.pc = "built" /\ Done(fire.who)
      /\ missed' = [missed EXCEPT ![fire.who] = @ \cup {fire.time}]
      /\ UNCHANGED <<rewind, shots, failure>>
  BY DEF NoTarget
<1>2. ShotOnly
  BY DEF NoTarget, FireUnchanged, ShotOnly, ShotFailures, Running, physicsVars, roomVars, tickVars
<1>3. TypeOK'
  <2>1. shots' \in 0..MaxShots
    BY <1>1 DEF IInv, TypeOK
  <2> QED BY <1>1, <1>2, <2>1, DoneTyped, ShotTyped
<1>4. UNCHANGED <<index, made, entering>> /\ fire.who \in Objects
  BY <1>1, <1>2 DEF IInv, InvShooters, ShotOnly
<1>5. /\ DOMAIN missed' = Objects
      /\ \A n \in Objects : missed'[n] = missed[n] \/ n = fire.who
      /\ \A n \in Objects : missed[n] \subseteq missed'[n]
      /\ fire.time \in missed'[fire.who]
  BY <1>1, <1>4 DEF IInv, InvShooters
<1>6. InvShooters'
  BY <1>1, <1>4, <1>5, DoneTyped DEF IInv, InvShooters
<1>7. InvRewind'
  <2> SUFFICES ASSUME NEW e \in rewind
               PROVE  \E n \in Objects : e.time \in missed'[n] /\ index'[n] = e.slot
    BY <1>1 DEF InvRewind
  <2>1. CASE Ours(e)
    BY <1>4, <1>5, <2>1 DEF Ours, Slot
  <2>2. CASE ~ Ours(e)
    BY <1>4, <1>5, <2>2 DEF IInv, InvRewind
  <2> QED BY <2>1, <2>2
<1> QED BY <1>2, <1>3, <1>6, <1>7, ShotKeeps DEF IInv

\* A hit clears the scene, and the misses with it.
LEMMA StepShoot ==
  ASSUME IInv, Shoot
  PROVE  IInv'
<1>1. Running /\ fire.pc = "built"
  BY DEF Shoot
<1>2. CASE Lost
  BY <1>1, <1>2, StepLost DEF Lost
<1>3. CASE ~ Lost
  <2>1. /\ Done(fire.who) /\ UNCHANGED shots
        /\ rewind' = {e \in rewind : e.slot # Slot}
        /\ missed' = [n \in Objects |-> IF index[n] = Slot THEN {} ELSE missed[n]]
        /\ FireUnchanged
        /\ failure' \in {failure, "null session", "freed target"}
    BY <1>3 DEF Shoot, ClearRewindScene
  <2>2. ShotOnly
    BY <1>1, <2>1 DEF FireUnchanged, ShotOnly, ShotFailures, Running, physicsVars, roomVars, tickVars
  <2>3. TypeOK'
    <3>1. shots' \in 0..MaxShots
      BY <2>1 DEF IInv, TypeOK
    <3> QED BY <2>1, <2>2, <3>1, DoneTyped, ShotTyped
  <2>4. UNCHANGED <<index, made, entering>>
    BY <2>2 DEF ShotOnly
  <2>5. InvShooters'
    <3>1. DOMAIN missed' = Objects /\ \A n \in Objects : missed'[n] \in {{}, missed[n]}
      BY <2>1
    <3> QED BY <2>1, <2>4, <3>1, DoneTyped DEF IInv, InvShooters
  <2>6. InvRewind'
    <3> SUFFICES ASSUME NEW e \in rewind, e.slot # Slot
                 PROVE  \E n \in Objects : e.time \in missed'[n] /\ index'[n] = e.slot
      BY <2>1 DEF InvRewind
    <3>1. PICK n \in Objects : e.time \in missed[n] /\ index[n] = e.slot
      BY DEF IInv, InvRewind, Ours
    <3> QED BY <2>1, <2>4, <3>1
  <2> QED BY <2>2, <2>3, <2>5, <2>6, ShotKeeps DEF IInv
<1> QED BY <1>2, <1>3

-----------------------------------------------------------------------------
(* The invariant *)

LEMMA InitIInv ==
  ASSUME Init
  PROVE  IInv
<1>1. /\ queue = <<Job("manager"), Job("bot")>>
      /\ Job("manager") \in Jobs /\ Job("bot") \in Jobs
  BY DEF Init, Job, Jobs, Kinds
<1>2. /\ queue \in Seq(Jobs) /\ Len(queue) = 2 /\ DOMAIN queue = 1..2
      /\ queue[1] = Job("manager") /\ queue[2] = Job("bot") /\ queue # <<>>
  BY <1>1
<1>3. /\ Kind(1) = "manager" /\ Kind(2) = "bot" /\ Who(2) = 0
      /\ \A i \in DOMAIN queue : Kind(i) \in {"manager", "bot"} /\ Who(i) = 0
  BY <1>2 DEF Kind, Who, Job
<1>4. TypeOK
  <2>1. /\ physics = "idle" /\ controllers = {} /\ manager = FALSE /\ simulating = FALSE
        /\ isReady = FALSE /\ players = [u \in Users |-> 0] /\ made = 0
        /\ entering = {} /\ late = {} /\ reentered = FALSE /\ clock = 0 /\ ticks = 0
        /\ tick.pc = "idle" /\ fire.pc = "idle" /\ fire.who = 0
        /\ firing = {} /\ shots = 0 /\ failure = "none"
    BY DEF Init, NoTick, NoFire
  <2>3. index \in [Objects -> Nat]
    BY DEF Init
  <2>2. 0 \in Actors /\ 0 \in Times /\ 0 \in 0..0 /\ 0 \in 0..MaxShots
    BY RoomAssumption DEF Actors, Times
  <2> QED BY <1>2, <2>1, <2>2, <2>3 DEF TypeOK, Failures
<1>5. InvReady /\ InvEarly
  BY <1>2, <1>3 DEF Init, NoTick, InvReady, InvEarly, NoTickBefore, TickKinds
<1>6. InvFetched /\ InvManager
  BY <1>2, <1>3 DEF Init, InvFetched, Fetched, InvManager
<1>7. InvNumbers /\ InvAlive
  <2>1. Present = {} /\ IsFiniteSet(Present)
    BY FS_EmptySet DEF Init, Present
  <2> QED BY <1>2, <1>3, <2>1 DEF Init, InvNumbers, InvAlive
<1>8. InvControlled
  BY <1>2, <1>3 DEF Init, InvControlled, Making
<1>9. EntriesExplained /\ InvShooters /\ InvRewind
  BY DEF Init, NoFire, EntriesExplained, InvShooters, InvRewind
<1> QED BY <1>4, <1>5, <1>6, <1>7, <1>8, <1>9 DEF IInv

LEMMA StutterIInv ==
  ASSUME IInv, UNCHANGED vars
  PROVE  IInv'
<1>1. UNCHANGED <<queue, physics, controllers, manager, simulating, isReady, players, index,
                  made, entering, late, reentered, clock, ticks, tick, fire, firing,
                  rewind, missed, shots, failure>>
  BY DEF vars, roomVars, physicsVars, tickVars, fireVars
<1>2. TypeOK'
  BY <1>1 DEF IInv, TypeOK
<1> QED BY <1>1, <1>2, KeepReady, KeepEarly, KeepFetched, KeepNumbers, KeepManager,
           KeepControlled, KeepAlive, KeepEntries, KeepRewind DEF IInv, InvReady, InvFetched

\* IInv is inductive.
LEMMA NextIInv ==
  ASSUME IInv, [Next]_vars
  PROVE  IInv'
<1>1. CASE \E u \in Users : EnterInit(u) \/ SetIsReady(u)
  BY <1>1, StepEnterInit, StepSetIsReady
<1>2. CASE \E u \in Users, n \in Objects : EnterInsert(u, n)
  BY <1>2, StepEnterInsert
<1>3. CASE Tick
  BY <1>3, StepTickBegin, StepAddSnapshot, StepPushSimulate, StepPushFetch,
     StepPushMoves, StepTickEnd DEF Tick
<1>4. CASE Physics
  BY <1>4, StepRunManager, StepRunCreateBot, StepRunCreatePlayer, StepRunSimulate,
     StepRunFetch, StepRunMoveBots, StepRunMovePlayers, StepMovedPlayers DEF Physics
<1>5. CASE \E u \in Users, time \in Times : Fire(u, time)
  BY <1>5, StepFire
<1>6. CASE FireStep
  BY <1>6, StepLook, StepBuildRewindScene, StepNoTarget, StepShoot DEF FireStep
<1>7. CASE UNCHANGED vars
  BY <1>7, StutterIInv
<1> QED BY <1>1, <1>2, <1>3, <1>4, <1>5, <1>6, <1>7 DEF Next

THEOREM Invariant == Spec => []IInv
<1>1. Init => IInv
  BY InitIInv
<1>2. IInv /\ [Next]_vars => IInv'
  BY NextIInv
<1> QED BY <1>1, <1>2, PTL DEF Spec

-----------------------------------------------------------------------------
(* What follows from it *)

\* Every place of a room holds what it should, for any users, ticks and shots.
THEOREM TypeCorrect == Spec => []TypeOK
<1>1. IInv => TypeOK
  BY DEF IInv
<1> QED BY <1>1, Invariant, PTL

\* A job never meets a missing manager; missing controllers and maps that change
\* under a loop take a player who enters a room that is ready, and a freed player
\* takes a user who enters twice.
THEOREM OnlyEntriesDestroy == Spec => []EntriesExplained
<1>1. IInv => EntriesExplained
  BY DEF IInv
<1> QED BY <1>1, Invariant, PTL

\* What a step of the simulation may do.
SimulationStep ==
  simulating => physics' = "idle" /\ controllers' \ controllers \subseteq late

\* While the scene simulates, the only controllers made are late players'.
LEMMA MakeWhileSimulating ==
  ASSUME IInv, simulating, NEW kind \in {"bot", "create"}, PoppedOnly(kind),
         MakeController(Who(1))
  PROVE  SimulationStep
<1>1. 1 \in DOMAIN queue /\ Making(1)
  BY DEF PoppedOnly, QueuePopped, Making
<1>2. Who(1) \in late
  BY <1>1 DEF IInv, InvEarly
<1>3. controllers' \subseteq controllers \cup {Who(1)} /\ physics' = physics
  BY DEF MakeController
<1> QED BY <1>2, <1>3 DEF SimulationStep, PoppedOnly

\* Nobody is moved, and only late players' controllers are made, between simulate
\* and fetchResults.
THEOREM PhysicsKeepsOrder == Spec => PhysicsOrdered
<1>1. ASSUME IInv, Next, simulating
      PROVE  SimulationStep
  <2>0. physics = "idle"
    BY <1>1 DEF IInv, InvFetched
  <2>1. CASE RunCreateBot
    <3>1. PopJob("bot") /\ MakeController(0)
      BY <2>1 DEF RunCreateBot
    <3>2. PoppedOnly("bot")
      BY <1>1, <3>1, PopOnly DEF MakeController
    <3>3. Who(1) = 0
      BY <3>2 DEF PoppedOnly, Kind, Who, Jobs
    <3> QED BY <1>1, <3>1, <3>2, <3>3, MakeWhileSimulating
  <2>2. CASE RunCreatePlayer
    <3>1. PopJob("create") /\ MakeController(Who(1))
      BY <2>2 DEF RunCreatePlayer, Who, NextOldest
    <3>2. PoppedOnly("create")
      BY <1>1, <3>1, PopOnly DEF MakeController
    <3> QED BY <1>1, <3>1, <3>2, MakeWhileSimulating
  <2>3. CASE RunMovePlayers
    <3>1. PoppedOnly("movePlayers")
      BY <1>1, <2>3, PopOnly DEF RunMovePlayers
    <3> QED BY <1>1, <3>1, MoveIsFetched
  <2>4. CASE MovedPlayers
    BY <2>0, <2>4 DEF MovedPlayers
  <2>5. CASE RunManager \/ RunSimulate \/ RunFetch \/ RunMoveBots
    BY <2>0, <2>5 DEF RunManager, RunSimulate, RunFetch, RunMoveBots, physicsVars,
       SimulationStep
  <2>6. CASE \E u \in Users : EnterInit(u) \/ SetIsReady(u)
    BY <2>0, <2>6 DEF EnterInit, SetIsReady, physicsVars, SimulationStep
  <2>7. CASE \E u \in Users, n \in Objects : EnterInsert(u, n)
    BY <2>0, <2>7 DEF EnterInsert, physicsVars, SimulationStep
  <2>8. CASE Tick
    BY <2>0, <2>8 DEF Tick, TickBegin, AddSnapshot, PushSimulate, PushFetch, PushMoves,
       PushJob, TickEnd, TickUnchanged, physicsVars, SimulationStep
  <2>9. CASE \E u \in Users, time \in Times : Fire(u, time)
    BY <2>0, <2>9 DEF Fire, FireUnchanged, physicsVars, SimulationStep
  <2>10. CASE FireStep
    BY <2>0, <2>10 DEF FireStep, Look, BuildRewindScene, NoTarget, Shoot, Lost, Fail,
       FireUnchanged, physicsVars, SimulationStep
  <2> QED BY <1>1, <2>1, <2>2, <2>3, <2>4, <2>5, <2>6, <2>7, <2>8, <2>9, <2>10
          DEF Next, Physics
<1>2. IInv /\ [Next]_vars => [simulating => /\ physics' = "idle"
                                            /\ controllers' \ controllers \subseteq late]_vars
  BY <1>1 DEF SimulationStep
<1> QED BY <1>2, Invariant, PTL DEF Spec, PhysicsOrdered
-----------------------------------------------------------------------------
(* The buffer of snapshots *)

Shots == [time : Nat, entities : SUBSET Actors]

Ordered(buffer) ==
  \A i, j \in DOMAIN buffer : i <= j => buffer[i].time <= buffer[j].time

\* A set of numbers that is not empty has a least one.
LEMMA LeastNumber ==
  ASSUME NEW T \in SUBSET Nat, T # {}
  PROVE  \E n \in T : \A m \in T : n <= m
<1> DEFINE Less == OpToRel(<, Nat)
<1>1. IsWellFoundedOn(Less, Nat)
  BY NatLessThanWellFounded
<1>2. \A m, n \in Nat : m < n => <<m, n>> \in Less
  BY DEF OpToRel
<1> HIDE DEF Less
<1>3. PICK n \in T : \A m \in T : ~ (<<m, n>> \in Less)
  BY <1>1, WFMin
<1>4. \A m \in T : ~ (m < n)
  BY <1>2, <1>3
<1>5. \A m \in T : n <= m
  BY <1>4
<1> QED BY <1>5

\* What remove_if has kept of the first n snapshots: old ones that are not too
\* old, in their order.
KeptOf(s, buffer, time, n) ==
  /\ s \in Seq(Shots) /\ Ordered(s)
  /\ \A k \in DOMAIN s : \E i \in 1..n : s[k] = buffer[i] /\ buffer[i].time + Window >= time

\* Keeping one more snapshot, which is not earlier than the others.
LEMMA KeepOne ==
  ASSUME NEW buffer \in Seq(Shots), Ordered(buffer), NEW time \in Nat,
         NEW n \in 1..Len(buffer), NEW s, KeptOf(s, buffer, time, n - 1)
  PROVE  /\ KeptOf(s, buffer, time, n)
         /\ buffer[n].time + Window >= time => KeptOf(Append(s, buffer[n]), buffer, time, n)
<1>0. /\ Len(buffer) \in Nat /\ DOMAIN buffer = 1..Len(buffer) /\ n \in DOMAIN buffer
      /\ buffer[n] \in Shots /\ 1..(n - 1) \subseteq 1..n
  BY LenProperties, ElementOfSeq
<1>1. KeptOf(s, buffer, time, n)
  BY <1>0 DEF KeptOf
<1>2. ASSUME buffer[n].time + Window >= time
      PROVE  KeptOf(Append(s, buffer[n]), buffer, time, n)
  <2> DEFINE t == Append(s, buffer[n])
             l == Len(s)
  <2>1. /\ s \in Seq(Shots) /\ l \in Nat /\ DOMAIN s = 1..l
        /\ t \in Seq(Shots) /\ DOMAIN t = 1..(l + 1) /\ t[l + 1] = buffer[n]
        /\ \A k \in 1..l : t[k] = s[k]
    BY <1>0, LenProperties, AppendProperties DEF KeptOf
  <2> HIDE DEF t, l
  <2>2. \A k \in DOMAIN t : \E i \in 1..n : t[k] = buffer[i] /\ buffer[i].time + Window >= time
    <3> SUFFICES ASSUME NEW k \in DOMAIN t
                 PROVE  \E i \in 1..n : t[k] = buffer[i] /\ buffer[i].time + Window >= time
      OBVIOUS
    <3>1. CASE k = l + 1
      BY <1>2, <2>1, <3>1
    <3>2. CASE k \in 1..l
      BY <1>1, <2>1, <3>2 DEF KeptOf
    <3>3. k = l + 1 \/ k \in 1..l
      BY <2>1
    <3> QED BY <3>1, <3>2, <3>3
  <2>3. \A k \in 1..l : t[k].time <= buffer[n].time
    <3> SUFFICES ASSUME NEW k \in 1..l PROVE t[k].time <= buffer[n].time
      OBVIOUS
    <3>1. PICK i \in 1..n : s[k] = buffer[i]
      BY <1>1, <2>1 DEF KeptOf
    <3>2. i \in DOMAIN buffer /\ i <= n
      BY <1>0
    <3> QED BY <1>0, <2>1, <3>1, <3>2 DEF Ordered
  <2>4. \A i, j \in 1..l : i <= j => t[i].time <= t[j].time
    BY <2>1 DEF KeptOf, Ordered
  <2>5. Ordered(t)
    <3> SUFFICES ASSUME NEW i \in 1..(l + 1), NEW j \in 1..(l + 1), i <= j
                 PROVE  t[i].time <= t[j].time
      BY <2>1 DEF Ordered
    <3>1. CASE j \in 1..l
      BY <2>1, <2>4, <3>1
    <3>2. CASE j = l + 1 /\ i \in 1..l
      BY <2>1, <2>3, <3>2
    <3>3. CASE j = l + 1 /\ i = l + 1
      BY <1>0, <2>1, <3>3 DEF Shots
    <3> QED BY <2>1, <3>1, <3>2, <3>3
  <2> QED BY <2>1, <2>2, <2>5 DEF KeptOf, t
<1> QED BY <1>1, <1>2

\* remove_if keeps what is not too old, in order, and the last snapshot if that
\* one is not.  By the least length up to which it would not.
LEMMA ExpireKeeps ==
  ASSUME NEW buffer \in Seq(Shots), Ordered(buffer), NEW time \in Nat,
         Len(buffer) # 0, buffer[Len(buffer)].time + Window >= time
  PROVE  /\ KeptOf(Expire(buffer, time), buffer, time, Len(buffer))
         /\ Expire(buffer, time) # <<>>
<1> DEFINE l == Len(buffer)
           Keep(g, n) == IF n = 0 THEN <<>>
                         ELSE IF buffer[n].time + Window >= time THEN Append(g[n - 1], buffer[n])
                         ELSE g[n - 1]
           Kept(g, n) == /\ g = [i \in 0..n |-> Keep(g, i)]
                         /\ \A i \in 0..n : KeptOf(g[i], buffer, time, i)
           Bad == {n \in 0..l : ~ \E g : Kept(g, n)}
<1>0. l \in Nat
  BY LenProperties
<1>1. \E g : Kept(g, 0)
  <2> DEFINE g == [i \in 0..0 |-> <<>>]
  <2>1. g = [i \in 0..0 |-> Keep(g, i)]
    OBVIOUS
  <2>2. KeptOf(<<>>, buffer, time, 0)
    BY EmptySeq DEF KeptOf, Ordered
  <2>3. \A i \in 0..0 : g[i] = <<>> /\ i = 0
    OBVIOUS
  <2> HIDE DEF g
  <2>4. Kept(g, 0)
    BY <2>1, <2>2, <2>3
  <2> QED BY <2>4
<1>2. ASSUME NEW n \in 1..l, \E g : Kept(g, n - 1)
      PROVE  \E g : Kept(g, n)
  <2>1. PICK g : Kept(g, n - 1)
    BY <1>2
  <2> DEFINE h == [i \in 0..n |-> IF i = n THEN Keep(g, n) ELSE g[i]]
  <2>2. \A i \in 0..(n - 1) : h[i] = g[i] /\ g[i] = Keep(g, i)
    <3> HIDE DEF Keep
    <3>1. \A i \in 0..(n - 1) : g[i] = Keep(g, i)
      BY <2>1
    <3>2. \A i \in 0..(n - 1) : i \in 0..n /\ i # n
      BY <1>0
    <3> QED BY <3>1, <3>2
  <2>3. h[n] = Keep(g, n)
    OBVIOUS
  <2> HIDE DEF h
  <2>4. ASSUME NEW i \in 0..n PROVE h[i] = Keep(h, i)
    <3>1. CASE i = n
      <4>1. h[n - 1] = g[n - 1]
        BY <2>2
      <4> QED BY <2>3, <3>1, <4>1
    <3>2. CASE i \in 1..(n - 1)
      <4>1. h[i - 1] = g[i - 1]
        BY <2>2, <3>2
      <4> QED BY <2>2, <3>2, <4>1
    <3>3. CASE i = 0
      BY <2>2, <3>3
    <3> QED BY <3>1, <3>2, <3>3
  <2>5. h = [i \in 0..n |-> Keep(h, i)]
    <3>1. h = [i \in 0..n |-> h[i]]
      BY DEF h
    <3> QED BY <2>4, <3>1
  <2>6. KeptOf(g[n - 1], buffer, time, n - 1)
    BY <2>1
  <2>7. KeptOf(Keep(g, n), buffer, time, n)
    BY <2>6, KeepOne
  <2>8. \A i \in 0..n : KeptOf(h[i], buffer, time, i)
    <3> SUFFICES ASSUME NEW i \in 0..n PROVE KeptOf(h[i], buffer, time, i)
      OBVIOUS
    <3>1. CASE i = n
      BY <2>3, <2>7, <3>1
    <3>2. CASE i \in 0..(n - 1)
      BY <2>1, <2>2, <3>2
    <3> QED BY <3>1, <3>2
  <2> QED BY <2>5, <2>8
<1> HIDE DEF Kept
<1>3. Bad = {}
  <2> SUFFICES ASSUME Bad # {} PROVE FALSE
    OBVIOUS
  <2>0. Bad \in SUBSET Nat
    BY <1>0
  <2> HIDE DEF Bad
  <2>1. PICK n \in Bad : \A m \in Bad : n <= m
    BY <2>0, LeastNumber
  <2> USE DEF Bad
  <2>2. n # 0
    BY <1>1
  <2>3. n \in 1..l /\ n - 1 \notin Bad /\ n - 1 \in 0..l
    BY <1>0, <2>1, <2>2
  <2> QED BY <1>2, <2>1, <2>3
<1>4. PICK g : Kept(g, l)
  BY <1>0, <1>3
<1> USE DEF Kept
<1>5. g = [i \in 0..l |-> Keep(g, i)]
  BY <1>4
<1>6. PICK f : Expire(buffer, time) = f[l] /\ f = [i \in 0..l |-> Keep(f, i)]
  BY <1>5 DEF Expire
<1>7. \A i \in 0..l : f[i] = g[i]
  <2> DEFINE Differ == {i \in 0..l : f[i] # g[i]}
  <2> SUFFICES ASSUME Differ # {} PROVE FALSE
    OBVIOUS
  <2>0. Differ \in SUBSET Nat
    BY <1>0
  <2> HIDE DEF Differ
  <2>1. PICK n \in Differ : \A m \in Differ : n <= m
    BY <2>0, LeastNumber
  <2> USE DEF Differ
  <2>2. f[n] = Keep(f, n) /\ g[n] = Keep(g, n)
    BY <1>5, <1>6, <2>1
  <2>3. n # 0
    BY <2>1, <2>2
  <2>4. n - 1 \notin Differ /\ n - 1 \in 0..l
    BY <1>0, <2>1, <2>3
  <2>5. f[n - 1] = g[n - 1]
    BY <2>4
  <2> QED BY <2>1, <2>2, <2>5
<1>8. KeptOf(f[l], buffer, time, l)
  BY <1>0, <1>4, <1>7
<1>9. f[l] # <<>>
  <2>0. f[l] = Keep(f, l)
    <3> HIDE DEF Keep
    <3>1. l \in 0..l
      BY <1>0
    <3> QED BY <1>6, <3>1
  <2>1. f[l] = Append(f[l - 1], buffer[l])
    BY <2>0
  <2>2. l - 1 \in 0..l
    BY <1>0
  <2>3. f[l - 1] \in Seq(Shots)
    BY <1>4, <1>7, <2>2 DEF KeptOf
  <2>4. buffer[l] \in Shots
    BY <1>0, LenProperties, ElementOfSeq
  <2> QED BY <2>1, <2>3, <2>4, AppendProperties, EmptySeq
<1> QED BY <1>6, <1>8, <1>9

\* What lower_bound finds is in the buffer.
LEMMA FirstFound ==
  ASSUME snapshots \in Seq(Shots), NEW time \in Nat,
         ~ \A i \in DOMAIN snapshots : snapshots[i].time < time
  PROVE  FirstFrom(time) \in DOMAIN snapshots
<1> DEFINE Later == {i \in DOMAIN snapshots : snapshots[i].time >= time}
<1>1. /\ Len(snapshots) \in Nat /\ DOMAIN snapshots = 1..Len(snapshots)
      /\ \A i \in DOMAIN snapshots : snapshots[i].time \in Nat
  <2>1. Len(snapshots) \in Nat /\ DOMAIN snapshots = 1..Len(snapshots)
    BY LenProperties
  <2>2. \A i \in DOMAIN snapshots : snapshots[i] \in Shots
    BY <2>1, ElementOfSeq
  <2> QED BY <2>1, <2>2 DEF Shots
<1>2. Later \in SUBSET Nat /\ Later # {}
  BY <1>1
<1>3. \A i \in Later : i \in DOMAIN snapshots /\ snapshots[i].time >= time
  OBVIOUS
<1>4. \A i \in DOMAIN snapshots : i \notin Later => snapshots[i].time < time
  BY <1>1
<1> HIDE DEF Later
<1>5. PICK n \in Later : \A m \in Later : n <= m
  BY <1>2, LeastNumber
<1>6. ASSUME NEW j \in 1..(n - 1) PROVE snapshots[j].time < time
  <2>1. j \in DOMAIN snapshots /\ j \notin Later
    BY <1>1, <1>2, <1>3, <1>5
  <2> QED BY <1>4, <2>1
<1> QED BY <1>3, <1>5, <1>6 DEF FirstFrom

\* upper_bound is the end of the buffer for a time that is not earlier.
LEMMA InsertedLast ==
  ASSUME NEW buffer \in Seq(Shots), NEW shot \in Shots,
         \A i \in DOMAIN buffer : buffer[i].time <= shot.time
  PROVE  InsertSorted(buffer, shot) = Append(buffer, shot)
<1> DEFINE l == Len(buffer)
           upTo == {i \in DOMAIN buffer : buffer[i].time <= shot.time}
           at == IF upTo = {} THEN 1 ELSE 1 + CHOOSE i \in upTo : \A j \in upTo : j <= i
<1>1. l \in Nat /\ DOMAIN buffer = 1..l /\ upTo = 1..l
  BY LenProperties
<1>2. at = l + 1
  <2> HIDE DEF upTo
  <2>1. CASE l = 0
    <3>1. upTo = {}
      BY <1>1, <2>1
    <3> QED BY <2>1, <3>1
  <2>2. CASE l # 0
    <3>1. l \in upTo /\ \A j \in upTo : j <= l
      BY <1>1, <2>2
    <3> DEFINE m == CHOOSE i \in upTo : \A j \in upTo : j <= i
    <3>2. m \in upTo /\ \A j \in upTo : j <= m
      BY <3>1
    <3>3. upTo # {}
      BY <3>1
    <3>4. at = 1 + m
      BY <3>3
    <3> HIDE DEF m, at
    <3>5. m \in 1..l /\ l <= m
      BY <1>1, <3>1, <3>2
    <3> HIDE DEF l
    <3>6. l \in Nat
      BY <1>1
    <3>7. m = l
      BY <3>5, <3>6
    <3> QED BY <3>4, <3>6, <3>7
  <2> QED BY <2>1, <2>2
<1>3. InsertSorted(buffer, shot) = InsertAt(buffer, at, shot)
  BY DEF InsertSorted
<1> HIDE DEF at
<1>4. InsertAt(buffer, at, shot) =
        SubSeq(buffer, 1, l) \o <<shot>> \o SubSeq(buffer, l + 1, l)
  BY <1>1, <1>2 DEF InsertAt
<1>5. SubSeq(buffer, 1, l) = buffer /\ SubSeq(buffer, l + 1, l) = <<>>
  <2>1. SubSeq(buffer, 1, l) = buffer
    BY SubSeqFull
  <2>2. SubSeq(buffer, l + 1, l) = <<>>
    BY <1>1, SubSeqEmpty
  <2> QED BY <2>1, <2>2
<1>6. buffer \o <<shot>> = Append(buffer, shot)
  BY AppendIsConcat
<1>7. Append(buffer, shot) \o <<>> = Append(buffer, shot)
  BY AppendProperties, ConcatEmptySeq
<1> QED BY <1>3, <1>4, <1>5, <1>6, <1>7

-----------------------------------------------------------------------------
(* The snapshots and the scenes made of them *)

\* The snapshots can be searched, none is of a time to come, and whom they show
\* has been made; so has whom a tick is about to add.
InvBuffer ==
  /\ snapshots \in Seq(Shots) /\ SnapshotsUsable
  /\ \A i \in DOMAIN snapshots :
       snapshots[i].time <= clock /\ snapshots[i].entities \subseteq 0..made
  /\ DOMAIN tick = {"pc", "time", "seen"}
  /\ tick.pc = "capture" => tick.time = clock /\ tick.seen \subseteq 0..made

\* Whom a shot may meet has been made.
InvSeen ==
  /\ fire.pc # "idle" => fire.entities \subseteq 0..made
  /\ \A e \in rewind : e.who \in 0..made

\* A shot meets a freed player if one has entered twice.
InvTarget == failure = "freed target" => reentered

Snap == InvBuffer /\ InvSeen /\ InvTarget

\* No snapshot is taken, and nobody shoots.
SnapOnly ==
  /\ UNCHANGED <<snapshots, clock, ticks, fire, rewind>>
  /\ failure' # "freed target" /\ 0..made \subseteq 0..made'
  /\ \/ tick' = tick
     \/ /\ tick.pc # "capture" /\ tick'.pc # "capture"
        /\ DOMAIN tick' = {"pc", "time", "seen"}

LEMMA KeepSnap ==
  ASSUME Snap, SnapOnly
  PROVE  Snap'
<1>1. UNCHANGED <<snapshots, clock, ticks, fire, rewind>> /\ 0..made \subseteq 0..made'
  BY DEF SnapOnly
<1>2. SnapshotsUsable'
  BY <1>1 DEF Snap, InvBuffer, SnapshotsUsable, SnapOnly
<1>3. InvBuffer'
  BY <1>1, <1>2 DEF Snap, InvBuffer, SnapOnly
<1>4. InvSeen'
  BY <1>1 DEF Snap, InvSeen
<1> QED BY <1>3, <1>4 DEF Snap, InvTarget, SnapOnly

\* A room that is entered has players with higher numbers only.
LEMMA MoreMade ==
  ASSUME IInv, made' = made \/ made' = made + 1
  PROVE  0..made \subseteq 0..made'
BY RoomAssumption DEF IInv, TypeOK, Actors

LEMMA SnapEnter ==
  ASSUME IInv, Snap,
         \/ \E u \in Users : EnterInit(u) \/ SetIsReady(u)
         \/ \E u \in Users, n \in Objects : EnterInsert(u, n)
  PROVE  Snap'
<1>1. /\ UNCHANGED <<snapshots, clock, ticks, fire, rewind, tick>>
      /\ made' = made \/ made' = made + 1
      /\ failure' # "freed target"
  BY DEF EnterInit, SetIsReady, EnterInsert, HandlerReads, Running, tickVars, fireVars
<1> QED BY <1>1, MoreMade, KeepSnap DEF SnapOnly

LEMMA SnapPhysics ==
  ASSUME IInv, Snap, Physics
  PROVE  Snap'
<1>1. PhysicsUnchanged /\ failure' # "freed target"
  <2>1. CASE RunManager \/ RunSimulate \/ RunFetch \/ RunMoveBots \/ RunMovePlayers
    BY <2>1 DEF RunManager, RunSimulate, RunFetch, RunMoveBots, RunMovePlayers, PopJob,
       Running
  <2>2. CASE MovedPlayers
    BY <2>2 DEF MovedPlayers, Running
  <2>3. CASE RunCreateBot \/ RunCreatePlayer
    BY <2>3 DEF RunCreateBot, RunCreatePlayer, PopJob, Running, MakeController
  <2> QED BY <2>1, <2>2, <2>3 DEF Physics
<1>2. UNCHANGED <<snapshots, clock, ticks, fire, rewind, tick, made>>
  BY <1>1 DEF PhysicsUnchanged, roomVars, tickVars, fireVars
<1> QED BY <1>1, <1>2, KeepSnap DEF SnapOnly

LEMMA SnapPushes ==
  ASSUME IInv, Snap, PushSimulate \/ PushFetch \/ PushMoves \/ TickEnd
  PROVE  Snap'
<1>1. /\ UNCHANGED <<snapshots, clock, ticks, fire, rewind, made>> /\ failure' = "none"
      /\ tick.pc # "capture"
  BY DEF PushSimulate, PushFetch, PushJob, PushMoves, TickEnd, TickUnchanged, Running,
     roomVars, fireVars
<1>2. \/ tick' = NoTick
      \/ \E pc \in {"fetch", "move", "sync"} : tick' = [tick EXCEPT !.pc = pc]
  BY DEF PushSimulate, PushFetch, PushJob, PushMoves, TickEnd, Goto
<1>3. tick'.pc # "capture" /\ DOMAIN tick' = {"pc", "time", "seen"}
  BY <1>2 DEF Snap, InvBuffer, NoTick
<1> QED BY <1>1, <1>3, KeepSnap DEF SnapOnly

LEMMA SnapTickBegin ==
  ASSUME IInv, Snap, TickBegin
  PROVE  Snap'
<1>1. /\ tick.pc = "idle" /\ ticks' = ticks + 1 /\ clock' \in {clock, clock + 1}
      /\ tick' = [pc |-> "capture", time |-> clock', seen |-> {0} \cup InRoom]
      /\ failure' = "none"
      /\ UNCHANGED <<made, fire, rewind, snapshots, reentered>>
  <2>1. clock \in Nat
    BY RoomAssumption DEF IInv, TypeOK, Times
  <2>2. clock' \in {clock, clock + 1}
    BY <2>1 DEF TickBegin
  <2> QED BY <2>2 DEF TickBegin, Running, roomVars, fireVars
<1>2. clock \in Nat /\ clock' \in Nat /\ clock <= clock' /\ ticks \in Nat /\ made \in Nat
  BY <1>1, RoomAssumption DEF IInv, TypeOK, Times, Actors
<1>3. {0} \cup InRoom \subseteq 0..made
  BY <1>2 DEF IInv, InvNumbers, InRoom, Present
<1>4. \A i \in DOMAIN snapshots' :
        snapshots'[i].time <= clock' /\ snapshots'[i].entities \subseteq 0..made'
  <2> SUFFICES ASSUME NEW i \in DOMAIN snapshots
               PROVE  snapshots[i].time <= clock' /\ snapshots[i].entities \subseteq 0..made
    BY <1>1
  <2>1. /\ snapshots[i] \in Shots
        /\ snapshots[i].time <= clock /\ snapshots[i].entities \subseteq 0..made
    BY ElementOfSeq, LenProperties DEF Snap, InvBuffer
  <2> QED BY <1>2, <2>1 DEF Shots
<1>5. SnapshotsUsable'
  <2>1. snapshots = <<>> => ticks = 0
    BY <1>1 DEF Snap, InvBuffer, SnapshotsUsable
  <2>2. tick'.pc = "capture"
    BY <1>1
  <2> QED BY <1>1, <1>2, <2>1, <2>2 DEF Snap, InvBuffer, SnapshotsUsable
<1>6. InvBuffer'
  <2>1. /\ DOMAIN tick' = {"pc", "time", "seen"}
        /\ tick'.time = clock' /\ tick'.seen \subseteq 0..made'
    BY <1>1, <1>3
  <2> QED BY <1>1, <1>4, <1>5, <2>1 DEF Snap, InvBuffer
<1>7. InvSeen' /\ InvTarget'
  BY <1>1 DEF Snap, InvSeen, InvTarget
<1> QED BY <1>6, <1>7 DEF Snap

\* The snapshot added is the last one, and as it is fresh it stays.
LEMMA SnapAddSnapshot ==
  ASSUME IInv, Snap, AddSnapshot
  PROVE  Snap'
<1> DEFINE shot == [time |-> tick.time, entities |-> tick.seen]
           more == Append(snapshots, shot)
<1>1. /\ tick.pc = "capture" /\ tick' = [tick EXCEPT !.pc = "simulate"]
      /\ snapshots' = Expire(InsertSorted(snapshots, shot), tick.time)
      /\ fire' = [fire EXCEPT !.moved = (fire.pc # "idle")] /\ failure' = "none"
      /\ UNCHANGED <<made, clock, ticks, rewind, reentered>>
  BY DEF AddSnapshot, Goto, Running, roomVars, fireVars
<1>2. /\ tick.time = clock /\ tick.seen \subseteq 0..made /\ clock \in Nat
      /\ made \in Actors /\ snapshots \in Seq(Shots) /\ Window \in Nat
  BY <1>1, RoomAssumption DEF IInv, TypeOK, Times, Snap, InvBuffer
<1>3. shot \in Shots /\ shot.time = clock /\ shot.entities \subseteq 0..made
  <2>1. 0..made \subseteq Actors
    BY <1>2, RoomAssumption DEF Actors
  <2> QED BY <1>2, <2>1 DEF Shots
<1> HIDE DEF shot
<1>4. \A i \in DOMAIN snapshots : /\ snapshots[i] \in Shots /\ snapshots[i].time <= clock
                                  /\ snapshots[i].entities \subseteq 0..made
  BY <1>2, ElementOfSeq, LenProperties DEF Snap, InvBuffer
<1>5. InsertSorted(snapshots, shot) = more
  BY <1>2, <1>3, <1>4, InsertedLast
<1>6. /\ more \in Seq(Shots) /\ Len(more) \in Nat \ {0} /\ DOMAIN more = 1..Len(more)
      /\ more[Len(more)] = shot
      /\ \A i \in DOMAIN more : more[i] = shot \/ (i \in DOMAIN snapshots /\ more[i] = snapshots[i])
  <2>1. /\ Len(snapshots) \in Nat /\ DOMAIN snapshots = 1..Len(snapshots)
        /\ more \in Seq(Shots) /\ Len(more) = Len(snapshots) + 1
        /\ more[Len(snapshots) + 1] = shot
        /\ \A i \in 1..Len(snapshots) : more[i] = snapshots[i]
    BY <1>2, <1>3, LenProperties, AppendProperties
  <2>2. DOMAIN more = 1..Len(more)
    BY <2>1, LenProperties
  <2> HIDE DEF more
  <2> QED BY <2>1, <2>2
<1>7. Ordered(more)
  <2> SUFFICES ASSUME NEW i \in DOMAIN more, NEW j \in DOMAIN more, i <= j
               PROVE  more[i].time <= more[j].time
    BY DEF Ordered
  <2>1. /\ Len(snapshots) \in Nat /\ DOMAIN snapshots = 1..Len(snapshots)
        /\ DOMAIN more = 1..(Len(snapshots) + 1)
        /\ more[Len(snapshots) + 1] = shot
        /\ \A k \in 1..Len(snapshots) : more[k] = snapshots[k]
    BY <1>2, <1>3, <1>6, LenProperties, AppendProperties
  <2>2. more[i].time <= clock
    BY <1>2, <1>3, <1>4, <1>6
  <2>3. CASE j = Len(snapshots) + 1
    BY <1>3, <2>1, <2>2, <2>3
  <2>4. CASE j \in 1..Len(snapshots)
    <3>1. i \in 1..Len(snapshots)
      BY <2>1, <2>4
    <3>2. snapshots[i].time <= snapshots[j].time
      BY <2>1, <2>4, <3>1 DEF Snap, InvBuffer, SnapshotsUsable
    <3> QED BY <2>1, <2>4, <3>1, <3>2
  <2> QED BY <2>1, <2>3, <2>4
<1>8. /\ KeptOf(snapshots', more, clock, Len(more))
      /\ snapshots' # <<>>
  <2>1. /\ KeptOf(Expire(more, clock), more, clock, Len(more))
        /\ Expire(more, clock) # <<>>
    <3>1. more[Len(more)].time + Window >= clock
      BY <1>2, <1>3, <1>6
    <3> HIDE DEF more
    <3> QED BY <1>2, <1>6, <1>7, <3>1, ExpireKeeps
  <2> QED BY <1>1, <1>2, <1>5, <2>1
<1> HIDE DEF more
<1>9. /\ snapshots' \in Seq(Shots)
      /\ \A i \in DOMAIN snapshots' :
           /\ snapshots'[i] \in Shots /\ snapshots'[i].time <= clock
           /\ snapshots'[i].entities \subseteq 0..made
           /\ snapshots'[i].time + Window >= clock
  <2>1. snapshots' \in Seq(Shots)
    BY <1>8 DEF KeptOf
  <2>2. ASSUME NEW i \in DOMAIN snapshots'
        PROVE  /\ snapshots'[i] \in Shots /\ snapshots'[i].time <= clock
               /\ snapshots'[i].entities \subseteq 0..made
               /\ snapshots'[i].time + Window >= clock
    <3>1. PICK k \in DOMAIN more : snapshots'[i] = more[k] /\ more[k].time + Window >= clock
      BY <1>6, <1>8 DEF KeptOf
    <3>2. more[k] \in Shots /\ more[k].time <= clock /\ more[k].entities \subseteq 0..made
      <4>1. clock <= clock
        BY <1>2
      <4> QED BY <1>3, <1>4, <1>6, <4>1
    <3> QED BY <3>1, <3>2
  <2> QED BY <2>1, <2>2
<1>10. SnapshotsUsable'
  <2>1. ASSUME NEW i \in DOMAIN snapshots', NEW j \in DOMAIN snapshots', i <= j
        PROVE  /\ snapshots'[i].time <= snapshots'[j].time
               /\ snapshots'[j].time <= snapshots'[i].time + Window
    <3>1. snapshots'[i].time <= snapshots'[j].time
      BY <1>8, <2>1 DEF KeptOf, Ordered
    <3>2. /\ snapshots'[j].time <= clock /\ snapshots'[i].time + Window >= clock
          /\ snapshots'[i].time \in Nat /\ snapshots'[j].time \in Nat
      BY <1>9 DEF Shots
    <3> QED BY <1>2, <3>1, <3>2
  <2> QED BY <1>8, <2>1 DEF SnapshotsUsable
<1>11. tick'.pc # "capture" /\ DOMAIN tick' = {"pc", "time", "seen"}
  BY <1>1 DEF Snap, InvBuffer
<1>12. InvBuffer'
  BY <1>1, <1>9, <1>10, <1>11 DEF InvBuffer
<1>13. fire'.pc = fire.pc /\ fire'.entities = fire.entities
  BY <1>1 DEF IInv, InvShooters
<1>14. InvSeen' /\ InvTarget'
  BY <1>1, <1>13 DEF Snap, InvSeen, InvTarget
<1> QED BY <1>12, <1>14 DEF Snap

\* What a shot leaves of the buffer.
LEMMA ShotBuffer ==
  ASSUME Snap, UNCHANGED <<snapshots, clock, ticks, tick, made>>
  PROVE  InvBuffer'
<1>1. SnapshotsUsable'
  BY DEF Snap, InvBuffer, SnapshotsUsable
<1> QED BY <1>1 DEF Snap, InvBuffer

LEMMA SnapFire ==
  ASSUME IInv, Snap, NEW u \in Users, NEW time \in Times, Fire(u, time)
  PROVE  Snap'
<1>1. /\ UNCHANGED <<snapshots, clock, ticks, tick, made, reentered, rewind>>
      /\ failure' \in {"none", "no snapshot"}
  BY DEF Fire, FireUnchanged, Running, roomVars, tickVars
<1>2. /\ snapshots \in Seq(Shots) /\ time \in Nat
      /\ \A i \in DOMAIN snapshots : snapshots[i].entities \subseteq 0..made
  BY RoomAssumption DEF Snap, InvBuffer, Times
<1>3. fire'.pc # "idle" => fire'.entities \subseteq 0..made
  <2>1. CASE snapshots = <<>>
    BY <2>1 DEF Fire, Snap, InvSeen
  <2>2. CASE snapshots # <<>> /\ \A i \in DOMAIN snapshots : snapshots[i].time < time
    BY <2>2 DEF Fire, Done, NoFire
  <2>3. CASE snapshots # <<>> /\ ~ \A i \in DOMAIN snapshots : snapshots[i].time < time
    <3> DEFINE found == snapshots[FirstFrom(time)]
    <3>1. found.entities \subseteq 0..made
      BY <1>2, <2>3, FirstFound
    <3>2. fire' = [NoFire EXCEPT !.pc = "found", !.who = players[u],
                                 !.time = found.time, !.entities = found.entities]
      BY <2>3 DEF Fire
    <3> HIDE DEF found
    <3> QED BY <3>1, <3>2 DEF NoFire
  <2> QED BY <2>1, <2>2, <2>3
<1>4. InvSeen' /\ InvTarget'
  BY <1>1, <1>3 DEF Snap, InvSeen, InvTarget
<1> QED BY <1>1, <1>4, ShotBuffer DEF Snap

\* While nobody enters twice, whoever has been made is alive.
LEMMA AliveUnlessReentered ==
  ASSUME IInv, Running, ~ reentered, NEW n \in 0..made
  PROVE  Alive(n)
<1>1. CASE n = 0
  BY <1>1 DEF Alive
<1>2. CASE n # 0
  <2>1. n \in 1..made
    BY <1>2 DEF IInv, TypeOK, Actors
  <2> QED BY <2>1 DEF IInv, InvAlive, Alive, Running
<1> QED BY <1>1, <1>2

LEMMA SnapFireStep ==
  ASSUME IInv, Snap, FireStep
  PROVE  Snap'
<1>1. UNCHANGED <<snapshots, clock, ticks, tick, made, reentered>> /\ Running
  BY DEF FireStep, Look, BuildRewindScene, NoTarget, Shoot, Lost, Fail, FireUnchanged,
     roomVars, tickVars
<1>2. InvBuffer'
  BY <1>1, ShotBuffer
<1>3. InvSeen' /\ InvTarget'
  <2>1. CASE Lost
    BY <1>1, <2>1 DEF Lost, Fail, fireVars, Snap, InvSeen, InvTarget
  <2>2. CASE Done(fire.who) /\ UNCHANGED <<rewind, failure>>
    BY <1>1, <2>2 DEF Done, NoFire, Snap, InvSeen, InvTarget
  <2>3. CASE BuildRewindScene
    <3>1. /\ fire.pc = "found" /\ rewind' = rewind \cup Entities
          /\ fire' = [fire EXCEPT !.pc = "built"] /\ failure' = failure
      BY <2>3 DEF BuildRewindScene
    <3>2. fire'.entities = fire.entities
      BY <3>1 DEF IInv, InvShooters
    <3>3. \A e \in Entities : e.who \in 0..made
      BY <3>1 DEF Snap, InvSeen, Entities
    <3> QED BY <1>1, <3>1, <3>2, <3>3 DEF Snap, InvSeen, InvTarget
  <2>4. CASE Shoot /\ ~ Lost
    <3>1. /\ fire.pc = "built" /\ Done(fire.who)
          /\ rewind' = {e \in rewind : e.slot # Slot}
          /\ \/ UNCHANGED failure
             \/ failure' = "null session"
             \/ \E target \in rewind : ~ Alive(target.who)
      BY <2>4 DEF Shoot, ClearRewindScene
    <3>2. fire'.pc = "idle"
      BY <3>1 DEF Done, NoFire
    <3>3. rewind' \subseteq rewind
      BY <3>1
    <3>4. InvSeen'
      BY <1>1, <3>2, <3>3 DEF Snap, InvSeen
    <3>5. failure' = failure \/ failure' = "null session" \/ reentered
      BY <1>1, <3>1, AliveUnlessReentered DEF Snap, InvSeen
    <3> QED BY <1>1, <3>4, <3>5 DEF Snap, InvTarget
  <2> QED BY <2>1, <2>2, <2>3, <2>4 DEF FireStep, Look, NoTarget, Shoot
<1> QED BY <1>2, <1>3 DEF Snap

LEMMA InitSnap ==
  ASSUME Init
  PROVE  Snap
<1>1. snapshots \in Seq(Shots) /\ DOMAIN snapshots = {} /\ SnapshotsUsable
  BY EmptySeq DEF Init, SnapshotsUsable
<1>2. InvBuffer
  BY <1>1 DEF Init, NoTick, InvBuffer
<1> QED BY <1>2 DEF Init, NoFire, Snap, InvSeen, InvTarget

LEMMA NextSnap ==
  ASSUME IInv, Snap, [Next]_vars
  PROVE  Snap'
<1>1. CASE Tick
  BY <1>1, SnapTickBegin, SnapAddSnapshot, SnapPushes DEF Tick
<1>2. CASE \/ \E u \in Users : EnterInit(u) \/ SetIsReady(u)
           \/ \E u \in Users, n \in Objects : EnterInsert(u, n)
  BY <1>2, SnapEnter
<1>3. CASE \E u \in Users, time \in Times : Fire(u, time)
  BY <1>3, SnapFire
<1>4. CASE UNCHANGED vars
  <2>1. UNCHANGED <<snapshots, clock, ticks, tick, made, fire, rewind, failure, reentered>>
    BY <1>4 DEF vars, roomVars, tickVars, fireVars
  <2>2. InvBuffer'
    BY <2>1, ShotBuffer
  <2> QED BY <2>1, <2>2 DEF Snap, InvSeen, InvTarget
<1> QED BY <1>1, <1>2, <1>3, <1>4, SnapPhysics, SnapFireStep DEF Next

THEOREM SnapInvariant == Spec => []Snap
<1>1. Init => Snap
  BY InitSnap
<1>2. IInv /\ Snap /\ [Next]_vars => Snap'
  BY NextSnap
<1> QED BY <1>1, <1>2, Invariant, PTL DEF Spec

\* A shot can search the snapshots: they are in order, none is older than the window
\* allows, and once a tick has added one there is always one.
THEOREM BufferUsable == Spec => []SnapshotsUsable
<1>1. Snap => SnapshotsUsable
  BY DEF Snap, InvBuffer
<1> QED BY <1>1, SnapInvariant, PTL

\* A missing controller or a map that changes under a loop of the tick or of the physics
\* thread takes a late entry, one that changes under a multicast a second entry, and a
\* freed player a user who enters twice, for a shot as for a job.
THEOREM FailuresKnown == Spec => []FailureExplained
<1>1. IInv /\ Snap => FailureExplained
  BY DEF IInv, Snap, InvTarget, FailureExplained
<1> QED BY <1>1, Invariant, SnapInvariant, PTL
-----------------------------------------------------------------------------
(* The indices of players *)

\* While nobody enters twice, the players of the room have different indices,
\* all below their number, and whoever has shot is one of them.
Indexed ==
  ~ reentered =>
    /\ \A u \in Present : index[players[u]] < Cardinality(Present)
    /\ \A u, v \in Present : index[players[u]] = index[players[v]] => players[u] = players[v]
    /\ fire.pc # "idle" => fire.who \in InRoom
    /\ \A n \in Objects : missed[n] # {} => n \in InRoom

\* Nobody enters, and only a player of the room shoots.
NobodyNew ==
  /\ UNCHANGED <<players, index, reentered>>
  /\ \/ fire'.pc = "idle"
     \/ fire.pc # "idle" /\ fire'.who = fire.who
     \/ fire'.who \in InRoom
  /\ \A n \in Objects : missed'[n] # {} =>
       missed[n] # {} \/ (fire.pc # "idle" /\ n = fire.who)

LEMMA KeepIndexed ==
  ASSUME Indexed, NobodyNew
  PROVE  Indexed'
<1>1. Present' = Present /\ InRoom' = InRoom
  BY DEF NobodyNew, Present, InRoom
<1> QED BY <1>1 DEF Indexed, NobodyNew

\* A player who enters gets an index that is above all others.
LEMMA IndexedEnter ==
  ASSUME IInv, Indexed, NEW u \in Users, NEW n \in Objects, EnterInsert(u, n)
  PROVE  Indexed'
<1> SUFFICES ASSUME ~ reentered'
             PROVE  Indexed'
  BY DEF Indexed
<1>1. /\ <<u, n>> \in entering
      /\ index' = [index EXCEPT ![n] = Cardinality(Present)]
      /\ players' = [players EXCEPT ![u] = n]
      /\ reentered' = (reentered \/ players[u] # 0)
      /\ UNCHANGED <<fire, missed>>
  BY DEF EnterInsert, fireVars
<1>2. ~ reentered /\ players[u] = 0
  BY <1>1, Zenon
<1>3. /\ players \in [Users -> Actors] /\ index \in [Objects -> Nat] /\ n # 0
      /\ IsFiniteSet(Present) /\ \A v \in Users : players[v] # n
  BY <1>1 DEF IInv, TypeOK, InvNumbers, Objects
<1>4. /\ \A v \in Users : v # u => players'[v] = players[v]
      /\ players'[u] = n /\ index'[n] = Cardinality(Present)
      /\ \A m \in Objects : m # n => index'[m] = index[m]
  BY <1>1, <1>3
<1>5. Present' = Present \cup {u} /\ u \notin Present
  BY <1>2, <1>3, <1>4 DEF Present
<1> DEFINE size == Cardinality(Present)
<1>6. size \in Nat /\ Cardinality(Present') = size + 1
  BY <1>3, <1>5, FS_CardinalityType, FS_AddElement
<1> HIDE DEF size
<1>7. \A v \in Present : /\ players'[v] = players[v] /\ players[v] \in Objects
                         /\ index'[players[v]] = index[players[v]]
                         /\ index[players[v]] \in Nat /\ index[players[v]] < size
  <2> SUFFICES ASSUME NEW v \in Present
               PROVE  /\ players'[v] = players[v] /\ players[v] \in Objects
                      /\ index'[players[v]] = index[players[v]]
                      /\ index[players[v]] \in Nat /\ index[players[v]] < size
    OBVIOUS
  <2>1. v \in Users /\ v # u /\ players[v] # n
    BY <1>3, <1>5 DEF Present
  <2>2. players[v] \in Objects
    BY <1>3, <2>1, RoomAssumption DEF Present, Actors, Objects
  <2>3. index[players[v]] < size
    BY <1>2 DEF Indexed, size
  <2> QED BY <1>3, <1>4, <2>1, <2>2, <2>3
<1>8. index'[n] = size
  BY <1>4 DEF size
<1>9. \A v \in Present' : index'[players'[v]] < Cardinality(Present')
  BY <1>4, <1>5, <1>6, <1>7, <1>8
<1>10. ASSUME NEW v \in Present', NEW w \in Present',
              index'[players'[v]] = index'[players'[w]]
       PROVE  players'[v] = players'[w]
  <2>1. CASE v = u /\ w = u
    BY <2>1
  <2>2. CASE v = u /\ w \in Present
    BY <1>4, <1>6, <1>7, <1>8, <1>10, <2>2
  <2>3. CASE w = u /\ v \in Present
    BY <1>4, <1>6, <1>7, <1>8, <1>10, <2>3
  <2>4. CASE v \in Present /\ w \in Present
    BY <1>2, <1>7, <1>10, <2>4 DEF Indexed
  <2> QED BY <1>5, <2>1, <2>2, <2>3, <2>4
<1>11. InRoom \subseteq InRoom'
  BY <1>5, <1>7 DEF InRoom
<1> QED BY <1>1, <1>2, <1>9, <1>10, <1>11 DEF Indexed

LEMMA NextIndexed ==
  ASSUME IInv, Indexed, [Next]_vars
  PROVE  Indexed'
<1>1. CASE UNCHANGED <<players, index, reentered, fire, missed>>
  BY <1>1, KeepIndexed DEF NobodyNew, Indexed
<1>2. CASE \E u \in Users : EnterInit(u) \/ SetIsReady(u)
  BY <1>1, <1>2 DEF EnterInit, SetIsReady, fireVars
<1>3. CASE \E u \in Users, n \in Objects : EnterInsert(u, n)
  BY <1>3, IndexedEnter
<1>4. CASE Tick
  <2>1. CASE AddSnapshot
    <3>1. fire'.pc = fire.pc /\ fire'.who = fire.who
      BY <2>1 DEF AddSnapshot, IInv, InvShooters
    <3>2. UNCHANGED <<players, index, reentered, missed>>
      BY <2>1 DEF AddSnapshot, roomVars, fireVars
    <3> QED BY <3>1, <3>2, KeepIndexed DEF NobodyNew
  <2>2. CASE TickBegin
    BY <1>1, <2>2 DEF TickBegin, roomVars, fireVars
  <2>3. CASE PushSimulate \/ PushFetch \/ PushMoves \/ TickEnd
    BY <1>1, <2>3 DEF PushSimulate, PushFetch, PushJob, PushMoves, TickEnd, TickUnchanged,
       roomVars, fireVars
  <2> QED BY <1>4, <2>1, <2>2, <2>3 DEF Tick
<1>5. CASE Physics
  <2>1. PhysicsUnchanged
    BY <1>5 DEF Physics, RunManager, RunCreateBot, RunCreatePlayer, RunSimulate, RunFetch,
       RunMoveBots, RunMovePlayers, MovedPlayers, MakeController
  <2> QED BY <1>1, <2>1 DEF PhysicsUnchanged, roomVars, fireVars
<1>6. CASE \E u \in Users, time \in Times : Fire(u, time)
  <2>1. PICK u \in Users, time \in Times : Fire(u, time)
    BY <1>6
  <2>2. UNCHANGED <<players, index, reentered, missed>> /\ fire.pc = "idle" /\ players[u] \in InRoom
    BY <2>1 DEF Fire, FireUnchanged, roomVars, InRoom, Present
  <2>3. fire'.pc = "idle" \/ fire'.who = players[u]
    <3>1. CASE fire' = fire
      BY <2>2, <3>1
    <3>2. CASE fire' = NoFire
      BY <3>2 DEF NoFire
    <3>3. CASE \E t, e : fire' = [NoFire EXCEPT !.pc = "found", !.who = players[u],
                                               !.time = t, !.entities = e]
      BY <3>3 DEF NoFire
    <3>4. \/ fire' = fire \/ fire' = NoFire
          \/ \E t, e : fire' = [NoFire EXCEPT !.pc = "found", !.who = players[u],
                                              !.time = t, !.entities = e]
      BY <2>1 DEF Fire, Done
    <3> QED BY <3>1, <3>2, <3>3, <3>4
  <2> QED BY <2>2, <2>3, KeepIndexed DEF NobodyNew
<1>7. CASE FireStep
  <2>1. UNCHANGED <<players, index, reentered>>
    BY <1>7 DEF FireStep, Look, BuildRewindScene, NoTarget, Shoot, Lost, Fail,
       FireUnchanged, roomVars
  <2>2. CASE Lost
    BY <1>1, <2>1, <2>2 DEF Lost, Fail, fireVars
  <2>3. CASE Done(fire.who) /\ UNCHANGED missed
    BY <2>1, <2>3, KeepIndexed DEF Done, NoFire, NobodyNew
  <2>4. CASE BuildRewindScene
    <3>1. fire.pc = "found" /\ fire' = [fire EXCEPT !.pc = "built"] /\ missed' = missed
      BY <2>4 DEF BuildRewindScene
    <3>2. fire'.who = fire.who
      BY <3>1 DEF IInv, InvShooters
    <3> QED BY <2>1, <3>1, <3>2, KeepIndexed DEF NobodyNew
  <2>5. CASE NoTarget
    <3>1. /\ fire.pc = "built" /\ fire'.pc = "idle"
          /\ missed' = [missed EXCEPT ![fire.who] = @ \cup {fire.time}]
      BY <2>5 DEF NoTarget, Done, NoFire
    <3>2. \A n \in Objects : n # fire.who => missed'[n] = missed[n]
      BY <3>1 DEF IInv, InvShooters
    <3> QED BY <2>1, <3>1, <3>2, KeepIndexed DEF NobodyNew
  <2>6. CASE Shoot /\ ~ Lost
    <3>1. Done(fire.who)
      BY ONLY <2>6 DEF Shoot
    <3>2. missed' = [n \in Objects |-> IF index[n] = Slot THEN {} ELSE missed[n]]
      BY ONLY <2>6 DEF Shoot
    <3>3. fire'.pc = "idle"
      BY ONLY <3>1 DEF Done, NoFire
    <3>4. \A n \in Objects : missed'[n] \in {{}, missed[n]}
      BY ONLY <3>2
    <3> QED BY <2>1, <3>3, <3>4, KeepIndexed DEF NobodyNew
  <2> QED BY <1>7, <2>2, <2>3, <2>4, <2>5, <2>6 DEF FireStep, Look
<1>8. CASE UNCHANGED vars
  BY <1>1, <1>8 DEF vars, roomVars, fireVars
<1> QED BY <1>2, <1>3, <1>4, <1>5, <1>6, <1>7, <1>8 DEF Next

THEOREM IndexInvariant == Spec => []Indexed
<1>1. Init => Indexed
  <2> SUFFICES ASSUME Init PROVE Indexed
    OBVIOUS
  <2>1. Present = {} /\ fire.pc = "idle" /\ \A n \in Objects : missed[n] = {}
    BY DEF Init, Present, NoFire
  <2> QED BY <2>1 DEF Indexed
<1>2. IInv /\ Indexed /\ [Next]_vars => Indexed'
  BY NextIndexed
<1> QED BY <1>1, <1>2, Invariant, PTL DEF Spec

\* Whatever a ray may hit that was not in the snapshot of the shot stood there at
\* the time of a miss of a player with that index: of the same player, unless a
\* user has entered twice.
THEOREM RewindOnlyMisses == Spec => []RewindExplained
<1>1. IInv /\ Indexed => RewindExplained
  <2> SUFFICES ASSUME IInv, Indexed, fire.pc = "built", NEW e \in rewind, e.slot = Slot,
                      e.time # fire.time
               PROVE  \E n \in Objects : /\ e.time \in missed[n] /\ index[n] = Slot
                                         /\ n = fire.who \/ reentered
    BY DEF RewindExplained
  <2>1. PICK n \in Objects : e.time \in missed[n] /\ index[n] = Slot
    BY DEF IInv, InvRewind, Ours
  <2>2. n = fire.who \/ reentered
    <3> SUFFICES ASSUME ~ reentered PROVE n = fire.who
      OBVIOUS
    <3>1. n \in InRoom /\ fire.who \in InRoom
      BY <2>1 DEF Indexed
    <3>2. PICK u \in Present, v \in Present : n = players[u] /\ fire.who = players[v]
      BY <3>1 DEF InRoom
    <3>3. index[players[u]] = index[players[v]]
      BY <2>1, <3>2 DEF Slot
    <3> QED BY <3>2, <3>3 DEF Indexed
  <2> QED BY <2>1, <2>2
<1> QED BY <1>1, Invariant, IndexInvariant, PTL
=============================================================================
