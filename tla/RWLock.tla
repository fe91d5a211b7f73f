------------------------------- MODULE RWLock -------------------------------
(***************************************************************************)
(* core::thread::Lock, the reader/writer spin lock every shared structure  *)
(* of the server is guarded with.  One lock, any number of threads.        *)
(*                                                                         *)
(* _lockFlag is one atomic 32-bit word: the owner's thread id in the high  *)
(* half, the number of read guards in the low half.  It is a record here,  *)
(* read and written as a whole, as the atomic word is.  _writeCount is a   *)
(* plain variable: each access to it is a step of its own.                 *)
(*                                                                         *)
(* held[t] counts the ReadLockGuard and WriteLockGuard objects of thread t *)
(* that are alive; being scoped objects they are released in the reverse   *)
(* order of their construction, and the callers never take a write guard   *)
(* under a read guard.                                                     *)
(***************************************************************************)
EXTENDS Naturals, FiniteSets

CONSTANTS
  Threads,          \* thread ids; LThreadId starts at 1
  NoThread,         \* owner field 0
  MaxNesting,       \* bound: guards of one kind one thread nests
  READ_COUNT_MASK   \* largest reader count the low half of the word holds

ASSUME ThreadsAssumption ==
  /\ IsFiniteSet(Threads)
  /\ NoThread \notin Threads

ASSUME WidthAssumption ==
  /\ MaxNesting \in Nat
  /\ READ_COUNT_MASK \in Nat
  /\ Cardinality(Threads) * MaxNesting <= READ_COUNT_MASK

VARIABLES
  lockFlag,     \* the atomic word [owner, readers]
  writeCount,   \* nesting depth of the owner's write guards
  held,         \* held[t] = guards of t alive: [w |-> Nat, r |-> Nat]
  pc,           \* where t is inside a Lock call
  expected,     \* reader count t loaded for its compare-exchange
  crashed       \* reason of a CRASH, or "none"

vars == <<lockFlag, writeCount, held, pc, expected, crashed>>

EMPTY_FLAG == [owner |-> NoThread, readers |-> 0]

CrashReasons == {"LOCK_TIMEOUT", "INVALID_UNLOCK_ORDER", "MULTIPLE_UNLOCK"}

Places == {"out", "winc", "wcas", "wdec", "wstore", "radd", "rload", "rcas"}

Init ==
  /\ lockFlag = EMPTY_FLAG
  /\ writeCount = 0
  /\ held = [t \in Threads |-> [w |-> 0, r |-> 0]]
  /\ pc = [t \in Threads |-> "out"]
  /\ expected = [t \in Threads |-> 0]
  /\ crashed = "none"

Goto(t, place) == pc' = [pc EXCEPT ![t] = place]

Crash(reason) ==
  /\ crashed' = reason
  /\ UNCHANGED <<lockFlag, writeCount, held, pc, expected>>

-----------------------------------------------------------------------------
(* Lock::WriteLock *)

\* Load the word: the owner only deepens its nesting, anybody else spins.
WriteLock(t) ==
  /\ crashed = "none"
  /\ pc[t] = "out"
  /\ held[t].r = 0 /\ held[t].w < MaxNesting
  /\ Goto(t, IF lockFlag.owner = t THEN "winc" ELSE "wcas")
  /\ UNCHANGED <<lockFlag, writeCount, held, expected, crashed>>

\* compare_exchange(EMPTY_FLAG -> my id); a failed attempt changes nothing.
WriteAcquire(t) ==
  /\ crashed = "none"
  /\ pc[t] = "wcas"
  /\ lockFlag = EMPTY_FLAG
  /\ lockFlag' = [owner |-> t, readers |-> 0]
  /\ Goto(t, "winc")
  /\ UNCHANGED <<writeCount, held, expected, crashed>>

\* _writeCount++ and return: the guard now exists.
WriteEnter(t) ==
  /\ crashed = "none"
  /\ pc[t] = "winc"
  /\ writeCount' = writeCount + 1
  /\ held' = [held EXCEPT ![t].w = @ + 1]
  /\ Goto(t, "out")
  /\ UNCHANGED <<lockFlag, expected, crashed>>

-----------------------------------------------------------------------------
(* Lock::WriteUnlock, called by the destructor of the innermost guard *)

WriteUnlock(t) ==
  /\ crashed = "none"
  /\ pc[t] = "out"
  /\ held[t].w > 0 /\ held[t].r = 0
  /\ IF lockFlag.readers # 0
     THEN Crash("INVALID_UNLOCK_ORDER")
     ELSE /\ held' = [held EXCEPT ![t].w = @ - 1]
          /\ Goto(t, "wdec")
          /\ UNCHANGED <<lockFlag, writeCount, expected, crashed>>

\* Fault: WriteUnlock stores EMPTY_FLAG at every level, or at none.
WriteLeaveTo(t, place) ==
  /\ crashed = "none"
  /\ pc[t] = "wdec"
  /\ writeCount' = writeCount - 1
  /\ Goto(t, place)
  /\ UNCHANGED <<lockFlag, held, expected, crashed>>

WriteLeaveAlwaysStores(t) == WriteLeaveTo(t, "wstore")
WriteLeaveNeverStores(t) == WriteLeaveTo(t, "out")

WriteLeave(t) ==
  /\ crashed = "none"
  /\ pc[t] = "wdec"
  /\ writeCount' = writeCount - 1
  /\ Goto(t, IF writeCount' = 0 THEN "wstore" ELSE "out")
  /\ UNCHANGED <<lockFlag, held, expected, crashed>>

WriteRelease(t) ==
  /\ crashed = "none"
  /\ pc[t] = "wstore"
  /\ lockFlag' = EMPTY_FLAG
  /\ Goto(t, "out")
  /\ UNCHANGED <<writeCount, held, expected, crashed>>

-----------------------------------------------------------------------------
(* Lock::ReadLock and Lock::ReadUnlock *)

ReadLock(t) ==
  /\ crashed = "none"
  /\ pc[t] = "out"
  /\ held[t].r < MaxNesting
  /\ Goto(t, IF lockFlag.owner = t THEN "radd" ELSE "rload")
  /\ UNCHANGED <<lockFlag, writeCount, held, expected, crashed>>

\* Fault: the owner's ReadLock returns without the fetch_add.
ReadUnderWriteUncounted(t) ==
  /\ crashed = "none"
  /\ pc[t] = "radd"
  /\ held' = [held EXCEPT ![t].r = @ + 1]
  /\ Goto(t, "out")
  /\ UNCHANGED <<lockFlag, writeCount, expected, crashed>>

\* The owner of the write lock adds a read guard unconditionally.
ReadUnderWrite(t) ==
  /\ crashed = "none"
  /\ pc[t] = "radd"
  /\ lockFlag' = [lockFlag EXCEPT !.readers = @ + 1]
  /\ held' = [held EXCEPT ![t].r = @ + 1]
  /\ Goto(t, "out")
  /\ UNCHANGED <<writeCount, expected, crashed>>

\* expected = load() & READ_COUNT_MASK: the owner half is dropped.
ReadLoad(t) ==
  /\ crashed = "none"
  /\ pc[t] = "rload"
  /\ expected' = [expected EXCEPT ![t] = lockFlag.readers]
  /\ Goto(t, "rcas")
  /\ UNCHANGED <<lockFlag, writeCount, held, crashed>>

\* compare_exchange(expected -> expected + 1): it can only succeed on a word
\* without an owner whose count is still the one loaded.
ReadAcquire(t) ==
  /\ crashed = "none"
  /\ pc[t] = "rcas"
  /\ lockFlag = [owner |-> NoThread, readers |-> expected[t]]
  /\ lockFlag' = [owner |-> NoThread, readers |-> expected[t] + 1]
  /\ held' = [held EXCEPT ![t].r = @ + 1]
  /\ Goto(t, "out")
  /\ UNCHANGED <<writeCount, expected, crashed>>

ReadRetry(t) ==
  /\ crashed = "none"
  /\ pc[t] = "rcas"
  /\ lockFlag # [owner |-> NoThread, readers |-> expected[t]]
  /\ Goto(t, "rload")
  /\ UNCHANGED <<lockFlag, writeCount, held, expected, crashed>>

ReadUnlock(t) ==
  /\ crashed = "none"
  /\ pc[t] = "out"
  /\ held[t].r > 0
  /\ IF lockFlag.readers = 0
     THEN Crash("MULTIPLE_UNLOCK")
     ELSE /\ lockFlag' = [lockFlag EXCEPT !.readers = @ - 1]
          /\ held' = [held EXCEPT ![t].r = @ - 1]
          /\ UNCHANGED <<writeCount, pc, expected, crashed>>

-----------------------------------------------------------------------------
(* Ten seconds of failed attempts end the program.  The model has no clock: *)
(* the crash may strike whenever an attempt would fail.                     *)

Waiting(t) ==
  \/ pc[t] = "wcas" /\ lockFlag # EMPTY_FLAG
  \/ pc[t] \in {"rload", "rcas"} /\ lockFlag.owner # NoThread

LockTimeout(t) ==
  /\ crashed = "none"
  /\ Waiting(t)
  /\ Crash("LOCK_TIMEOUT")

\* A crashed program stays crashed.
Halted ==
  /\ crashed # "none"
  /\ UNCHANGED vars

ThreadStep(t) ==
  \/ WriteLock(t)  \/ WriteAcquire(t) \/ WriteEnter(t)
  \/ WriteUnlock(t) \/ WriteLeave(t) \/ WriteRelease(t)
  \/ ReadLock(t) \/ ReadUnderWrite(t) \/ ReadLoad(t)
  \/ ReadAcquire(t) \/ ReadRetry(t) \/ ReadUnlock(t)
  \/ LockTimeout(t)

Next == Halted \/ \E t \in Threads : ThreadStep(t)

Spec == Init /\ [][Next]_vars

-----------------------------------------------------------------------------
(* Correctness *)

\* Every variable stays in the range its C++ type and use give it.
TypeOK ==
  /\ lockFlag \in [owner : Threads \cup {NoThread}, readers : Nat]
  /\ writeCount \in Nat
  /\ held \in [Threads -> [w : 0..MaxNesting, r : 0..MaxNesting]]
  /\ pc \in [Threads -> Places]
  /\ expected \in [Threads -> Nat]
  /\ crashed \in CrashReasons \cup {"none"}

\* While a thread is inside a write guard no other thread is inside any guard
\* of the lock, read or write.
MutualExclusion ==
  \A t, u \in Threads :
    t # u /\ held[t].w > 0 => held[u].w = 0 /\ held[u].r = 0

\* Nested and interleaved guards never run into the two misuse crashes of
\* WriteUnlock and ReadUnlock.
NoMisuseCrash == crashed \in {"none", "LOCK_TIMEOUT"}

ReadGuards ==
  {g \in Threads \X (1..MaxNesting) : g[2] <= held[g[1]].r}

\* The low half of the word is exactly the number of read guards alive, and
\* it never carries into the owner half.
ReadersCounted ==
  /\ lockFlag.readers = Cardinality(ReadGuards)
  /\ lockFlag.readers <= READ_COUNT_MASK

\* A thread that spins (and may die of LOCK_TIMEOUT) waits for a thread that
\* is itself not spinning: the lock alone never deadlocks, not even with
\* itself.
WaitsForRunner ==
  \A t \in Threads :
    Waiting(t) => \E u \in Threads \ {t} :
      /\ ~ Waiting(u)
      /\ \/ held[u].w > 0 \/ held[u].r > 0
         \/ pc[u] \in {"winc", "wdec", "wstore"}

-----------------------------------------------------------------------------
(* What a caller may rely on *)

Abstract == INSTANCE RWLockSpec WITH guards <- held

\* The word-level algorithm implements the abstract reader/writer lock.
ImplementsLock == Abstract!Spec
=============================================================================
