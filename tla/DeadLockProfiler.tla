-------------------------- MODULE DeadLockProfiler --------------------------
(***************************************************************************)
(* core::thread::DeadLockProfiler in a debug build, where every guard of a *)
(* Lock tells it its name before it waits and before it lets go: the graph *)
(* of the orders in which locks were taken, and the depth-first search     *)
(* that looks for a cycle in it whenever an order is new.                  *)
(*                                                                         *)
(* A lock's name is that of its class: the locks of two rooms have one     *)
(* name.  The lock itself is as RWLockSpec has it, which RWLock implements. *)
(***************************************************************************)
EXTENDS Integers, Sequences, FiniteSets, SequencesExt

CONSTANTS
  Callers,   \* the threads that take locks
  Locks,
  Shared,    \* locks of classes that use READ_LOCK too (in the server, Room)
  NameOf,    \* the name WRITE_LOCK and READ_LOCK give with each lock
  MaxDepth   \* bound: guards a thread holds or waits for

Names == {NameOf[l] : l \in Locks}

ASSUME ProfilerAssumption ==
  /\ NameOf \in [Locks -> Names] /\ Shared \subseteq Locks
  /\ MaxDepth \in Nat

VARIABLES
  nameToId,     \* _nameToId
  lockHistory,  \* _lockHistory as a set of pairs
  stack,        \* LLockStack of each thread
  guards,       \* the locks each thread has entered, and how
  waiting,      \* the guard a thread is about to enter, if any
  crash         \* what CRASH said, "none" before

profilerVars ==
  <<nameToId, lockHistory, stack, guards, waiting, crash>>

ProfilerInit ==
  /\ nameToId = <<>>
  /\ lockHistory = {}
  /\ stack = [t \in Callers |-> <<>>]
  /\ guards = [t \in Callers |-> <<>>]
  /\ waiting = [t \in Callers |-> <<>>]
  /\ crash = "none"

Running(t) == crash = "none" /\ waiting[t] = <<>>

-----------------------------------------------------------------------------
(* The search for a cycle *)

Ids(lockCount) == 0 .. lockCount - 1

\* What a search has done so far; found stands for its CRASH.
Searches(lockCount) ==
  [order : [Ids(lockCount) -> Int], count : Int, finished : SUBSET Ids(lockCount),
   found : BOOLEAN]

\* Dfs(here) looks at a lock taken behind here; deeper is what its calls do.
Visit(deeper, s, here, there) ==
  IF s.found THEN s
  ELSE IF s.order[there] = -1 THEN deeper[s][there]
  ELSE [s EXCEPT !.found = ~ (s.order[here] < s.order[there]) /\ there \notin s.finished]

\* Dfs(here).  A set<int32> is gone through in ascending order.
Call(history, lockCount, deeper, s, here) ==
  LET entered == [s EXCEPT !.order[here] = s.count, !.count = @ + 1]
      visited[k \in 0..lockCount] ==
        IF k = 0 THEN entered
        ELSE IF <<here, k - 1>> \in history THEN Visit(deeper, visited[k - 1], here, k - 1)
        ELSE visited[k - 1]
  IN  IF s.found \/ s.order[here] # -1 THEN s
      ELSE [visited[lockCount] EXCEPT !.finished = @ \cup {here}]

\* Every call inside another one has discovered a lock: none is deeper than
\* there are locks.
Dfs(history, lockCount) ==
  LET dfs[depth \in 0..lockCount] ==
        [s \in Searches(lockCount) |-> [here \in Ids(lockCount) |->
           IF depth = 0 THEN s ELSE Call(history, lockCount, dfs[depth - 1], s, here)]]
  IN  dfs[lockCount]

\* Nothing has been discovered among so many locks.
Fresh(lockCount) ==
  [order |-> [i \in Ids(lockCount) |-> -1], count |-> 0, finished |-> {}, found |-> FALSE]

\* Fault: only the lock with the first number is searched from.
CheckCycleFromFirst(history, lockCount) ==
  Dfs(history, lockCount)[Fresh(lockCount)][0].found

CheckCycle(history, lockCount) ==
  LET search[k \in 0..lockCount] ==
        IF k = 0 THEN Fresh(lockCount) ELSE Dfs(history, lockCount)[search[k - 1]][k - 1]
  IN  search[lockCount].found

-----------------------------------------------------------------------------

\* The number of a name, a new one if it has none.
IdOf(name) ==
  IF name \in DOMAIN nameToId THEN nameToId[name] ELSE Cardinality(DOMAIN nameToId)

WithId(name) ==
  [n \in DOMAIN nameToId \cup {name} |-> IF n = name THEN IdOf(name) ELSE nameToId[n]]

\* Fault: a lock behind which another one was taken remembers no more.
NewOrderOnce(t, id) ==
  {<<p, id>> : p \in IF stack[t] # <<>> /\ \A e \in lockHistory : e[1] # Last(stack[t])
                     THEN {Last(stack[t])} \ {id} ELSE {}}

\* The order in which t takes a lock numbered id: behind the last one it has
\* told about, unless they have one name.
NewOrder(t, id) ==
  {<<p, id>> : p \in IF stack[t] # <<>> THEN {Last(stack[t])} \ {id} ELSE {}}

\* PushLock, under _lock, before WriteLock or ReadLock starts to spin.
PushLock(t, l, mode) ==
  LET id == IdOf(NameOf[l])
      history == lockHistory \cup NewOrder(t, id)
      table == WithId(NameOf[l])
  IN  /\ Running(t) /\ Len(guards[t]) < MaxDepth
      /\ nameToId' = table
      /\ lockHistory' = history
      /\ crash' = IF history # lockHistory /\ CheckCycle(history, Cardinality(DOMAIN table))
                  THEN "DEADLOCK_DETECTED" ELSE "none"
      /\ stack' = [stack EXCEPT ![t] = Append(@, id)]
      /\ waiting' = [waiting EXCEPT ![t] = <<[lock |-> l, mode |-> mode]>>]
      /\ UNCHANGED guards

Holds(t, l, modes) ==
  \E i \in DOMAIN guards[t] : guards[t][i].lock = l /\ guards[t][i].mode \in modes

\* The threads, t itself included, whose guards keep t spinning.
BlockedBy(t) ==
  IF waiting[t] = <<>> THEN {}
  ELSE LET w == waiting[t][1]
           own == Holds(t, w.lock, {"write"})
       IN  IF own THEN {}
           ELSE IF w.mode = "write"
                THEN {u \in Callers : Holds(u, w.lock, {"read", "write"})}
                ELSE {u \in Callers \ {t} : Holds(u, w.lock, {"write"})}

\* The compare-and-swap succeeds.
Acquire(t) ==
  /\ crash = "none"
  /\ waiting[t] # <<>> /\ BlockedBy(t) = {}
  /\ guards' = [guards EXCEPT ![t] = Append(@, waiting[t][1])]
  /\ waiting' = [waiting EXCEPT ![t] = <<>>]
  /\ UNCHANGED <<nameToId, lockHistory, stack, crash>>

\* The innermost guard ends: PopLock with its two tests, then the release;
\* between them the thread touches its own stack only.
PopLock(t) ==
  /\ Running(t) /\ guards[t] # <<>>
  /\ LET id == nameToId[NameOf[Last(guards[t]).lock]]
     IN  crash' = CASE stack[t] = <<>> -> "MULTIPLE_UNLOCK"
                    [] stack[t] # <<>> /\ Last(stack[t]) # id -> "INVALID_UNLOCK"
                    [] OTHER -> "none"
  /\ stack' = [stack EXCEPT ![t] = IF @ = <<>> THEN @ ELSE Front(@)]
  /\ guards' = [guards EXCEPT ![t] = Front(@)]
  /\ UNCHANGED <<nameToId, lockHistory, waiting>>

ProfilerNext ==
  \E t \in Callers :
    \/ \E l \in Locks : PushLock(t, l, "write")
    \/ \E l \in Shared : PushLock(t, l, "read")
    \/ Acquire(t)
    \/ PopLock(t)

ProfilerSpec == ProfilerInit /\ [][ProfilerNext]_profilerVars

-----------------------------------------------------------------------------
(* Correctness *)

\* The graph of the orders has a cycle: some locks are each taken before
\* another one of them.
Cyclic ==
  \E ids \in SUBSET Ids(Cardinality(DOMAIN nameToId)) :
    ids # {} /\ \A i \in ids : \E j \in ids : <<i, j>> \in lockHistory

\* The server stops exactly when the orders seen so far contradict each
\* other: the search misses no cycle and reports none that is not there, and
\* guards that end inside out never fail the tests of PopLock.
AlarmExact == crash # "none" <=> Cyclic

\* While there was no alarm, threads that wait for each other in a circle all
\* wait for locks of one name, between which the profiler sees no order.
DeadlocksShareName ==
  LET blocked == {t \in Callers : BlockedBy(t) # {}}
      Closed(set) == \A t \in set : BlockedBy(t) \cap blocked \subseteq set
      WaitsFor(t, u) == \A set \in SUBSET blocked : t \in set /\ Closed(set) => u \in set
  IN  crash = "none" =>
        \A t, u \in blocked :
          WaitsFor(t, u) /\ WaitsFor(u, t) =>
            NameOf[waiting[t][1].lock] = NameOf[waiting[u][1].lock]
=============================================================================
