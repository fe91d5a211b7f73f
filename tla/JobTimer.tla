------------------------------ MODULE JobTimer ------------------------------
(***************************************************************************)
(* core::job::JobTimer on top of JobQueue: jobs reserved for a later time  *)
(* wait in a heap; each network worker looks at the clock once a turn and, *)
(* unless another one is at it, takes everything that is due and pushes it *)
(* to the owners' queues, where the first push may run the queue on the    *)
(* spot, in the middle of Distribute.                                      *)
(*                                                                         *)
(* Time is a counter that ticks on its own.  JobTimer::Clear has no caller *)
(* and is left out; Reserve is reached only through JobQueue::DoTimer.     *)
(***************************************************************************)
EXTENDS JobQueue

CONSTANTS
  MaxTimers,   \* bound: calls of Reserve
  MaxTime      \* bound: the last tick of the clock

ASSUME TimerAssumption ==
  /\ MaxTimers \in Nat
  /\ MaxTime \in Nat

VARIABLES
  now,            \* TimeManager::GetServerTime
  alive,          \* queues whose weak_ptr still locks
  items,          \* JobTimer::_items
  distributing,   \* JobTimer::_distributing
  reserve,        \* where a thread is in Reserve, and the item it holds
  dist,           \* where a thread is in Distribute, its time and its items
  reserved,       \* calls of Reserve so far; numbers the items
  fired, dropped  \* numbers of the items pushed, and of those without owner

timerVars ==
  <<now, alive, items, distributing, reserve, dist, reserved, fired, dropped>>
allVars == <<vars, timerVars>>

Timers == 1..MaxTimers
Items == [id : Timers, executeTime : 0..MaxTime, owner : Queues]

NotReserving == [pc |-> "out", item |-> <<>>]
NotDistributing == [pc |-> "out", time |-> 0, due |-> <<>>]

TimerInit ==
  /\ Init
  /\ now = 0
  /\ alive = Queues
  /\ items = {}
  /\ distributing = FALSE
  /\ reserve = [t \in Threads |-> NotReserving]
  /\ dist = [t \in Threads |-> NotDistributing]
  /\ reserved = 0
  /\ fired = {} /\ dropped = {}

\* Thread t is in its own code, outside of everything modelled here.
Idle(t) ==
  /\ exec[t].pc = "out" /\ push[t].pc = "out"
  /\ reserve[t].pc = "out" /\ dist[t].pc = "out"

\* Thread t is in the code of a job.
InJob(t) ==
  exec[t].pc = "run" /\ push[t].pc = "out" /\ reserve[t].pc = "out"

\* Bound: pushes of timers that are still to come stay possible.
MayAdd == pushed + reserved < MaxJobs + Cardinality(fired \cup dropped)

-----------------------------------------------------------------------------
(* JobTimer::Reserve *)

\* executeTime = GetServerTime() + afterTime, before the lock.
ReadTime(t, q, after) ==
  /\ Idle(t) \/ InJob(t)
  /\ MayAdd /\ reserved < MaxTimers
  /\ q \in alive
  /\ now + after <= MaxTime
  /\ reserved' = reserved + 1
  /\ reserve' = [reserve EXCEPT ![t] = [pc |-> "add", item |->
       [id |-> reserved', executeTime |-> now + after, owner |-> q]]]
  /\ UNCHANGED <<vars, now, alive, items, distributing, dist, fired, dropped>>

AddItem(t) ==
  /\ reserve[t].pc = "add"
  /\ items' = items \cup {reserve[t].item}
  /\ reserve' = [reserve EXCEPT ![t] = NotReserving]
  /\ UNCHANGED <<vars, now, alive, distributing, dist, reserved, fired, dropped>>

-----------------------------------------------------------------------------
(* ThreadManager::DistributeReservedJob and JobTimer::Distribute *)

ReadNow(t) ==
  /\ t \in Workers
  /\ Idle(t)
  /\ dist' = [dist EXCEPT ![t] = [NotDistributing EXCEPT !.pc = "enter", !.time = now]]
  /\ UNCHANGED <<vars, now, alive, items, distributing, reserve, reserved, fired, dropped>>

\* Fault: the flag is set, but what it was before is not looked at.
EnterAlways(t) ==
  /\ dist[t].pc = "enter"
  /\ distributing' = TRUE
  /\ dist' = [dist EXCEPT ![t].pc = "take"]
  /\ UNCHANGED <<vars, now, alive, items, reserve, reserved, fired, dropped>>

\* _distributing.exchange(true): whoever finds it set goes away.
Enter(t) ==
  /\ dist[t].pc = "enter"
  /\ distributing' = TRUE
  /\ dist' = [dist EXCEPT ![t] =
       IF distributing THEN NotDistributing ELSE [@ EXCEPT !.pc = "take"]]
  /\ UNCHANGED <<vars, now, alive, items, reserve, reserved, fired, dropped>>

\* The sequences of the items of S in the order the heap gives them out;
\* items of one time come in any order.
DueOrders(S) ==
  {s \in [1..Cardinality(S) -> S] :
     /\ {s[i] : i \in DOMAIN s} = S
     /\ \A i, j \in DOMAIN s : i < j => s[i].executeTime <= s[j].executeTime}

\* Fault: what is not due yet is popped with the rest.
TakeDueAndMore(t) ==
  /\ dist[t].pc = "take"
  /\ \E s \in DueOrders({i \in items : i.executeTime <= dist[t].time}) :
       dist' = [dist EXCEPT ![t].pc = "fire", ![t].due = s]
  /\ items' = {i \in items : i.executeTime > dist[t].time + 1}
  /\ UNCHANGED <<vars, now, alive, distributing, reserve, reserved, fired, dropped>>

\* Everything due by the time read before is popped under the lock.
TakeDue(t) ==
  /\ dist[t].pc = "take"
  /\ \E s \in DueOrders({i \in items : i.executeTime <= dist[t].time}) :
       dist' = [dist EXCEPT ![t].pc = "fire", ![t].due = s]
  /\ items' = {i \in items : i.executeTime > dist[t].time}
  /\ UNCHANGED <<vars, now, alive, distributing, reserve, reserved, fired, dropped>>

\* Thread t is in Distribute's loop, and no Push of it is under way.
Firing(t) ==
  /\ dist[t].pc = "fire"
  /\ exec[t].pc = "out" /\ push[t].pc = "out"

\* owner->Push(job): the Push, and perhaps an Execute, follow before the
\* next item.
FireItem(t) ==
  /\ Firing(t) /\ dist[t].due # <<>>
  /\ LET item == Head(dist[t].due)
     IN  /\ item.owner \in alive
         /\ Count(t, item.owner, FALSE)
         /\ fired' = fired \cup {item.id}
  /\ dist' = [dist EXCEPT ![t].due = Tail(@)]
  /\ UNCHANGED <<now, alive, items, distributing, reserve, reserved, dropped>>

\* The owner's weak_ptr does not lock any more.
DropItem(t) ==
  /\ Firing(t) /\ dist[t].due # <<>>
  /\ LET item == Head(dist[t].due)
     IN  /\ item.owner \notin alive
         /\ dropped' = dropped \cup {item.id}
  /\ dist' = [dist EXCEPT ![t].due = Tail(@)]
  /\ UNCHANGED <<vars, now, alive, items, distributing, reserve, reserved, fired>>

\* Fault: Distribute returns with the flag still set when nothing was due.
LeaveDistributeSet(t) ==
  /\ Firing(t) /\ dist[t].due = <<>>
  /\ distributing' = (fired = {})
  /\ dist' = [dist EXCEPT ![t] = NotDistributing]
  /\ UNCHANGED <<vars, now, alive, items, reserve, reserved, fired, dropped>>

LeaveDistribute(t) ==
  /\ Firing(t) /\ dist[t].due = <<>>
  /\ distributing' = FALSE
  /\ dist' = [dist EXCEPT ![t] = NotDistributing]
  /\ UNCHANGED <<vars, now, alive, items, reserve, reserved, fired, dropped>>

Distribute(t) ==
  \/ Enter(t) \/ TakeDue(t) \/ FireItem(t) \/ DropItem(t) \/ LeaveDistribute(t)

-----------------------------------------------------------------------------

\* The last shared_ptr of a queue goes: nothing is in it, nobody holds it.
Expire(q) ==
  /\ q \in alive
  /\ jobCount[q] = 0
  /\ \A t \in Threads : current[t] # q /\ push[t].queue # q
  /\ \A t \in Threads : reserve[t].pc = "add" => reserve[t].item.owner # q
  /\ alive' = alive \ {q}
  /\ UNCHANGED <<vars, now, items, distributing, reserve, dist, reserved, fired, dropped>>

Tick ==
  /\ now < MaxTime
  /\ now' = now + 1
  /\ UNCHANGED <<vars, alive, items, distributing, reserve, dist, reserved, fired, dropped>>

\* What JobQueue does on its own, a Push from plain code or a job included.
QueueProgress(t) ==
  /\ reserve[t].pc = "out"
  /\ Progress(t)
  /\ UNCHANGED timerVars

Submit(t) ==
  /\ Idle(t) \/ InJob(t)
  /\ MayAdd
  /\ \E q \in alive, only \in BOOLEAN : Count(t, q, only)
  /\ UNCHANGED timerVars

ServeQueue(t) ==
  /\ Idle(t)
  /\ ServeGlobal(t)
  /\ UNCHANGED timerVars

TimerNext ==
  \/ \E t \in Threads :
       \/ \E q \in Queues, after \in 0..MaxTime : ReadTime(t, q, after)
       \/ AddItem(t) \/ ReadNow(t) \/ Distribute(t)
       \/ QueueProgress(t) \/ Submit(t) \/ ServeQueue(t)
  \/ \E q \in Queues : Expire(q)
  \/ Tick

TimerSpec == TimerInit /\ [][TimerNext]_allVars

\* Threads inside a call go on, their jobs return, and the clock ticks.  Every
\* turn of a worker's loop calls Distribute.  A worker whose slice is still open
\* when it finds a queue takes it again and again, whatever happens in between:
\* completions keep its loop turning.
TimerFairness ==
  /\ WF_allVars(Tick)
  /\ \A t \in Threads : WF_allVars(AddItem(t) \/ Distribute(t) \/ QueueProgress(t))
  /\ \A t \in Workers : SF_allVars(ReadNow(t)) /\ SF_allVars(ServeQueue(t))

FairTimerSpec == TimerSpec /\ TimerFairness

-----------------------------------------------------------------------------
(* Correctness *)

InHand(t) == {dist[t].due[i] : i \in DOMAIN dist[t].due}
Reserving(id) == \E t \in Threads : reserve[t].pc = "add" /\ reserve[t].item.id = id
Waiting(id) == \E i \in items : i.id = id
Taken(id) == {t \in Threads : \E i \in InHand(t) : i.id = id}

Places(id) ==
  (IF Reserving(id) THEN 1 ELSE 0) + (IF Waiting(id) THEN 1 ELSE 0)
  + Cardinality(Taken(id))
  + (IF id \in fired THEN 1 ELSE 0) + (IF id \in dropped THEN 1 ELSE 0)

\* A reserved job is in one place at any time: on its way into the heap, in
\* the heap, in the hands of one distributor, pushed, or dropped because its
\* owner is gone.  None is lost or pushed twice, whoever distributes.
ItemsKept ==
  /\ \A id \in 1..reserved : Places(id) = 1
  /\ \A t, u \in Threads :
       dist[t].pc \in {"take", "fire"} /\ dist[u].pc \in {"take", "fire"} => t = u

\* What a distributor pushes is due no later than anything any distributor
\* still holds, nor than what was left in the heap when it took its items.
FiredInDueOrder ==
  [][/\ \A t \in Threads :
          dist[t].due # <<>> /\ dist'[t].due = Tail(dist[t].due) =>
            \A u \in Threads : \A i \in InHand(u) :
              Head(dist[t].due).executeTime <= i.executeTime
     /\ \A t \in Threads : dist[t].pc = "take" /\ dist'[t].pc = "fire" =>
          \A i \in InHand(t)', j \in items' : i.executeTime <= j.executeTime]_allVars

\* Every reserved job is pushed, or dropped for want of an owner, after the
\* clock has reached its time, however many workers distribute and whatever
\* queues run in the middle of Distribute.
TimersFire ==
  \A id \in Timers : id <= reserved ~> id \in fired \cup dropped
=============================================================================
