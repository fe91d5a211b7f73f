----------------------------- MODULE LockProofs -----------------------------
(***************************************************************************)
(* Proofs about the lock and its profiler.                                 *)
(*                                                                         *)
(* RWLock, for every finite set of threads and every nesting bound that    *)
(* fits the reader count.  The invariants checked by TLC are not           *)
(* inductive: what ties the word to the guards is Ownership (who the owner *)
(* half names), Depth (what _writeCount counts between two steps of a      *)
(* call) and ReadersAlone; IInv is their conjunction.                      *)
(*                                                                         *)
(* DeadLockProfiler, for all threads, locks and names: the search finds a  *)
(* cycle exactly if there is one (CheckCycleExact), by what every call of  *)
(* Dfs leaves to its caller (Works); ProfilerInv ties the threads' stacks  *)
(* to their guards and to the orders.                                      *)
(***************************************************************************)
EXTENDS RWLock, DeadLockProfiler, TLAPS, FiniteSetTheorems, SequenceTheorems,
        WellFoundedInduction

\* The owner half names exactly the thread inside a write guard, or between
\* two steps of acquiring or releasing its outermost one.
Ownership ==
  \A t \in Threads :
    lockFlag.owner = t <=> \/ held[t].w > 0
                           \/ pc[t] \in {"winc", "wdec", "wstore"}

\* _writeCount is the owner's nesting depth; WriteUnlock has given up the
\* guard one step before it decrements.
Depth ==
  /\ lockFlag.owner = NoThread => writeCount = 0
  /\ \A t \in Threads : lockFlag.owner = t =>
       writeCount = IF pc[t] = "wdec" THEN held[t].w + 1 ELSE held[t].w

\* What a thread holds at each place of the four calls.
PlaceHeld ==
  \A t \in Threads :
    /\ pc[t] \in {"winc", "wcas", "wdec", "wstore"} => held[t].r = 0
    /\ pc[t] \in {"wcas", "wstore", "rload", "rcas"} => held[t].w = 0
    /\ pc[t] \in {"winc", "wcas"} => held[t].w < MaxNesting
    /\ pc[t] = "radd" => held[t].w > 0
    /\ pc[t] \in {"radd", "rload", "rcas"} => held[t].r < MaxNesting

\* A read guard excludes every owner but its own thread.
ReadersAlone ==
  \A t, u \in Threads : held[t].r > 0 /\ lockFlag.owner = u => u = t

Counted ==
  /\ IsFiniteSet(ReadGuards)
  /\ lockFlag.readers = Cardinality(ReadGuards)

IInv ==
  /\ TypeOK
  /\ Ownership
  /\ Depth
  /\ PlaceHeld
  /\ ReadersAlone
  /\ Counted
  /\ NoMisuseCrash

-----------------------------------------------------------------------------
(* The set of read guards *)

\* Acquiring one read guard (ReadLock) makes the set of guards one larger.
LEMMA AddReadGuard ==
  ASSUME TypeOK, NEW t \in Threads, held[t].r < MaxNesting,
         held' = [held EXCEPT ![t].r = @ + 1], IsFiniteSet(ReadGuards)
  PROVE  /\ IsFiniteSet(ReadGuards')
         /\ Cardinality(ReadGuards') = Cardinality(ReadGuards) + 1
<1> DEFINE g == <<t, held[t].r + 1>>
<1>1. held[t].r \in 0..MaxNesting
  BY DEF TypeOK
<1>2. \A u \in Threads : held'[u].r = IF u = t THEN held[t].r + 1 ELSE held[u].r
  BY DEF TypeOK
<1>3. g \notin ReadGuards
  BY <1>1 DEF ReadGuards
<1>4. ReadGuards' = ReadGuards \cup {g}
  <2>1. ReadGuards' = {x \in Threads \X (1..MaxNesting) : x[2] <= held'[x[1]].r}
    BY DEF ReadGuards
  <2>2. ASSUME NEW x \in Threads \X (1..MaxNesting)
        PROVE  x[2] <= held'[x[1]].r <=> x[2] <= held[x[1]].r \/ x = g
    <3>1. PICK u \in Threads, i \in 1..MaxNesting : x = <<u, i>>
      OBVIOUS
    <3>2. held[u].r \in 0..MaxNesting
      BY DEF TypeOK
    <3>3. CASE u = t
      BY <3>1, <3>2, <3>3, <1>1, <1>2, WidthAssumption
    <3>4. CASE u # t
      BY <3>1, <3>2, <3>4, <1>2
    <3> QED BY <3>3, <3>4
  <2>3. g \in Threads \X (1..MaxNesting)
    BY <1>1, WidthAssumption
  <2> QED BY <2>1, <2>2, <2>3 DEF ReadGuards
<1> QED BY <1>3, <1>4, FS_AddElement

\* Releasing one (ReadUnlock) makes it one smaller, and it was not empty.
LEMMA RemoveReadGuard ==
  ASSUME TypeOK, NEW t \in Threads, held[t].r > 0,
         held' = [held EXCEPT ![t].r = @ - 1], IsFiniteSet(ReadGuards)
  PROVE  /\ IsFiniteSet(ReadGuards')
         /\ Cardinality(ReadGuards') = Cardinality(ReadGuards) - 1
<1> DEFINE g == <<t, held[t].r>>
<1>1. held[t].r \in 1..MaxNesting
  BY WidthAssumption DEF TypeOK
<1>2. \A u \in Threads : held'[u].r = IF u = t THEN held[t].r - 1 ELSE held[u].r
  BY DEF TypeOK
<1>3. g \in ReadGuards
  BY <1>1 DEF ReadGuards
<1>4. ReadGuards' = ReadGuards \ {g}
  <2>1. ReadGuards' = {x \in Threads \X (1..MaxNesting) : x[2] <= held'[x[1]].r}
    BY DEF ReadGuards
  <2>2. ASSUME NEW x \in Threads \X (1..MaxNesting)
        PROVE  x[2] <= held'[x[1]].r <=> x[2] <= held[x[1]].r /\ x # g
    <3>1. PICK u \in Threads, i \in 1..MaxNesting : x = <<u, i>>
      OBVIOUS
    <3>2. held[u].r \in 0..MaxNesting
      BY DEF TypeOK
    <3>3. CASE u = t
      BY <3>1, <3>2, <3>3, <1>1, <1>2, WidthAssumption
    <3>4. CASE u # t
      BY <3>1, <3>2, <3>4, <1>2
    <3> QED BY <3>3, <3>4
  <2> QED BY <2>1, <2>2 DEF ReadGuards
<1> QED BY <1>3, <1>4, FS_RemoveElement

\* The reader count is zero exactly when no thread holds a read guard.
LEMMA NoReaders ==
  ASSUME TypeOK, Counted
  PROVE  lockFlag.readers = 0 <=> \A t \in Threads : held[t].r = 0
<1>1. lockFlag.readers = 0 <=> ReadGuards = {}
  BY FS_EmptySet DEF Counted
<1>2. ASSUME ReadGuards = {}, NEW t \in Threads
      PROVE  held[t].r = 0
  <2>1. held[t].r \in 0..MaxNesting
    BY DEF TypeOK
  <2>2. CASE held[t].r > 0
    <3>1. 1 \in 1..MaxNesting
      BY <2>1, <2>2, WidthAssumption
    <3>2. <<t, 1>> \in ReadGuards
      BY <2>1, <2>2, <3>1 DEF ReadGuards
    <3> QED BY <3>2, <1>2
  <2> QED BY <2>1, <2>2
<1>3. ASSUME \A t \in Threads : held[t].r = 0
      PROVE  ReadGuards = {}
  <2>1. ASSUME NEW g \in ReadGuards PROVE FALSE
    <3>1. PICK u \in Threads, i \in 1..MaxNesting : g = <<u, i>> /\ i <= held[u].r
      BY DEF ReadGuards
    <3> QED BY <3>1, <1>3
  <2> QED BY <2>1
<1> QED BY <1>1, <1>2, <1>3

-----------------------------------------------------------------------------
(* IInv is inductive *)

LEMMA InitIInv == Init => IInv
<1> SUFFICES ASSUME Init PROVE IInv
  OBVIOUS
<1> USE DEF Init, EMPTY_FLAG
<1>1. TypeOK
  BY WidthAssumption DEF TypeOK, Places
<1>2. Ownership
  BY ThreadsAssumption DEF Ownership
<1>3. Depth /\ PlaceHeld /\ ReadersAlone /\ NoMisuseCrash
  BY ThreadsAssumption DEF Depth, PlaceHeld, ReadersAlone, NoMisuseCrash
<1>4. Counted
  <2>1. ReadGuards = {}
    BY DEF ReadGuards
  <2> QED BY <2>1, FS_EmptySet DEF Counted
<1> QED BY <1>1, <1>2, <1>3, <1>4 DEF IInv

\* Steps that leave every guard and the reader count alone keep Counted.
LEMMA CountedUnchanged ==
  ASSUME Counted, TypeOK,
         \A t \in Threads : held'[t].r = held[t].r,
         lockFlag'.readers = lockFlag.readers
  PROVE  Counted'
<1>1. ReadGuards' = ReadGuards
  BY DEF ReadGuards
<1> QED BY <1>1 DEF Counted

\* One step of one thread keeps the invariant: one case per step of a call.
LEMMA StepIInv ==
  ASSUME IInv, NEW t \in Threads, ThreadStep(t)
  PROVE  IInv'
<1> USE DEF IInv
<1>0. /\ t # NoThread
      /\ held[t].w \in 0..MaxNesting /\ held[t].r \in 0..MaxNesting
      /\ MaxNesting \in Nat
  BY ThreadsAssumption, WidthAssumption DEF TypeOK
<1>1. CASE WriteLock(t)
  <2> USE <1>1 DEF WriteLock, Goto
  <2>1. TypeOK'
    BY DEF TypeOK, Places
  <2>2. Ownership' /\ Depth' /\ ReadersAlone' /\ NoMisuseCrash'
    BY <1>0 DEF TypeOK, Ownership, Depth, ReadersAlone, NoMisuseCrash
  <2>3. PlaceHeld'
    BY <1>0 DEF TypeOK, PlaceHeld, Ownership
  <2>4. Counted'
    BY CountedUnchanged
  <2> QED BY <2>1, <2>2, <2>3, <2>4
<1>2. CASE WriteAcquire(t)
  <2> USE <1>2 DEF WriteAcquire, Goto, EMPTY_FLAG
  <2>1. TypeOK'
    BY DEF TypeOK, Places
  <2>2. \A u \in Threads : held[u].r = 0
    BY NoReaders
  <2>3. Ownership' /\ PlaceHeld'
    BY <1>0, ThreadsAssumption DEF TypeOK, Ownership, PlaceHeld
  <2>4. Depth'
    BY <1>0 DEF TypeOK, Depth, PlaceHeld
  <2>5. ReadersAlone' /\ NoMisuseCrash'
    BY <2>2 DEF ReadersAlone, NoMisuseCrash
  <2>6. Counted'
    BY CountedUnchanged
  <2> QED BY <2>1, <2>3, <2>4, <2>5, <2>6
<1>3. CASE WriteEnter(t)
  <2> USE <1>3 DEF WriteEnter, Goto
  <2>1. TypeOK'
    BY <1>0 DEF TypeOK, Places, PlaceHeld
  <2>2. Ownership' /\ PlaceHeld'
    BY <1>0 DEF TypeOK, Ownership, PlaceHeld
  <2>3. Depth'
    BY <1>0, ThreadsAssumption DEF TypeOK, Depth, Ownership
  <2>4. ReadersAlone' /\ NoMisuseCrash'
    BY DEF TypeOK, ReadersAlone, NoMisuseCrash
  <2>5. Counted'
    BY CountedUnchanged DEF TypeOK
  <2> QED BY <2>1, <2>2, <2>3, <2>4, <2>5
<1>4. CASE WriteUnlock(t)
  <2>1. lockFlag.owner = t
    BY <1>4 DEF WriteUnlock, Ownership
  <2>2. \A u \in Threads : held[u].r = 0
    <3> SUFFICES ASSUME NEW u \in Threads PROVE held[u].r = 0
      OBVIOUS
    <3>1. held[u].r \in 0..MaxNesting
      BY DEF TypeOK
    <3> QED BY <1>4, <2>1, <3>1 DEF WriteUnlock, ReadersAlone
  <2>3. lockFlag.readers = 0
    BY <2>2, NoReaders
  <2>4. /\ held' = [held EXCEPT ![t].w = @ - 1]
        /\ Goto(t, "wdec")
        /\ UNCHANGED <<lockFlag, writeCount, expected, crashed>>
    BY <1>4, <2>3 DEF WriteUnlock
  <2> USE <1>4, <2>4 DEF WriteUnlock, Goto
  <2>5. TypeOK'
    BY <1>0 DEF TypeOK, Places
  <2>6. Ownership' /\ PlaceHeld'
    BY <1>0, <2>1 DEF TypeOK, Ownership, PlaceHeld
  <2>7. Depth'
    BY <1>0, <2>1 DEF TypeOK, Depth
  <2>8. ReadersAlone' /\ NoMisuseCrash'
    BY DEF TypeOK, ReadersAlone, NoMisuseCrash
  <2>9. Counted'
    BY CountedUnchanged DEF TypeOK
  <2> QED BY <2>5, <2>6, <2>7, <2>8, <2>9
<1>5. CASE WriteLeave(t)
  <2> USE <1>5 DEF WriteLeave, Goto
  <2>1. lockFlag.owner = t /\ writeCount' = held[t].w
    BY <1>0 DEF Ownership, Depth
  <2>2. TypeOK'
    BY <1>0, <2>1 DEF TypeOK, Places
  <2>3. Ownership' /\ PlaceHeld'
    BY <1>0, <2>1 DEF TypeOK, Ownership, PlaceHeld
  <2>4. Depth'
    BY <1>0, <2>1 DEF TypeOK, Depth
  <2>5. ReadersAlone' /\ NoMisuseCrash'
    BY DEF ReadersAlone, NoMisuseCrash
  <2>6. Counted'
    BY CountedUnchanged
  <2> QED BY <2>2, <2>3, <2>4, <2>5, <2>6
<1>6. CASE WriteRelease(t)
  <2> USE <1>6 DEF WriteRelease, Goto, EMPTY_FLAG
  <2>1. lockFlag.owner = t /\ writeCount = 0 /\ held[t].w = 0 /\ held[t].r = 0
    BY <1>0 DEF Ownership, Depth, PlaceHeld
  <2>2. \A u \in Threads : held[u].r = 0
    <3> SUFFICES ASSUME NEW u \in Threads PROVE held[u].r = 0
      OBVIOUS
    <3>1. held[u].r \in 0..MaxNesting
      BY DEF TypeOK
    <3> QED BY <2>1, <3>1 DEF ReadersAlone
  <2>3. lockFlag.readers = 0
    BY <2>2, NoReaders
  <2>4. TypeOK'
    BY DEF TypeOK, Places
  <2>5. Ownership' /\ PlaceHeld'
    BY <1>0, <2>1, ThreadsAssumption DEF TypeOK, Ownership, PlaceHeld
  <2>6. Depth' /\ ReadersAlone' /\ NoMisuseCrash'
    BY <2>1, ThreadsAssumption DEF Depth, ReadersAlone, NoMisuseCrash
  <2>7. Counted'
    BY <2>3, CountedUnchanged
  <2> QED BY <2>4, <2>5, <2>6, <2>7
<1>7. CASE ReadLock(t)
  <2> USE <1>7 DEF ReadLock, Goto
  <2>1. TypeOK'
    BY DEF TypeOK, Places
  <2>2. Ownership' /\ Depth' /\ PlaceHeld'
    BY <1>0 DEF TypeOK, Ownership, Depth, PlaceHeld
  <2>3. ReadersAlone' /\ NoMisuseCrash'
    BY DEF ReadersAlone, NoMisuseCrash
  <2>4. Counted'
    BY CountedUnchanged
  <2> QED BY <2>1, <2>2, <2>3, <2>4
<1>8. CASE ReadUnderWrite(t)
  <2> USE <1>8 DEF ReadUnderWrite, Goto
  <2>1. lockFlag.owner = t /\ held[t].r < MaxNesting
    BY <1>0 DEF Ownership, PlaceHeld
  <2>2. TypeOK'
    BY <1>0, <2>1 DEF TypeOK, Places
  <2>3. Ownership' /\ Depth' /\ PlaceHeld'
    BY <1>0, <2>1 DEF TypeOK, Ownership, Depth, PlaceHeld
  <2>4. ReadersAlone' /\ NoMisuseCrash'
    BY <2>1 DEF TypeOK, ReadersAlone, NoMisuseCrash
  <2>5. Counted'
    BY <2>1, AddReadGuard DEF TypeOK, Counted
  <2> QED BY <2>2, <2>3, <2>4, <2>5
<1>9. CASE ReadLoad(t)
  <2> USE <1>9 DEF ReadLoad, Goto
  <2>1. TypeOK'
    BY DEF TypeOK, Places
  <2>2. Ownership' /\ Depth' /\ PlaceHeld'
    BY <1>0 DEF TypeOK, Ownership, Depth, PlaceHeld
  <2>3. ReadersAlone' /\ NoMisuseCrash'
    BY DEF ReadersAlone, NoMisuseCrash
  <2>4. Counted'
    BY CountedUnchanged
  <2> QED BY <2>1, <2>2, <2>3, <2>4
<1>10. CASE ReadAcquire(t)
  <2> USE <1>10 DEF ReadAcquire, Goto
  <2>1. /\ lockFlag.owner = NoThread /\ lockFlag.readers = expected[t]
        /\ lockFlag'.owner = NoThread /\ lockFlag'.readers = lockFlag.readers + 1
        /\ held[t].r < MaxNesting
    BY DEF PlaceHeld
  <2>2. TypeOK'
    BY <1>0, <2>1 DEF TypeOK, Places
  <2>3. Ownership' /\ Depth' /\ PlaceHeld'
    BY <1>0, <2>1 DEF TypeOK, Ownership, Depth, PlaceHeld
  <2>4. ReadersAlone' /\ NoMisuseCrash'
    BY <2>1, ThreadsAssumption DEF ReadersAlone, NoMisuseCrash
  <2>5. Counted'
    BY <2>1, AddReadGuard DEF Counted
  <2> QED BY <2>2, <2>3, <2>4, <2>5
<1>11. CASE ReadRetry(t)
  <2> USE <1>11 DEF ReadRetry, Goto
  <2>1. TypeOK'
    BY DEF TypeOK, Places
  <2>2. Ownership' /\ Depth' /\ PlaceHeld'
    BY <1>0 DEF TypeOK, Ownership, Depth, PlaceHeld
  <2>3. ReadersAlone' /\ NoMisuseCrash'
    BY DEF ReadersAlone, NoMisuseCrash
  <2>4. Counted'
    BY CountedUnchanged
  <2> QED BY <2>1, <2>2, <2>3, <2>4
<1>12. CASE ReadUnlock(t)
  <2>1. lockFlag.readers # 0
    BY <1>12, NoReaders DEF ReadUnlock
  <2>2. /\ lockFlag' = [lockFlag EXCEPT !.readers = @ - 1]
        /\ held' = [held EXCEPT ![t].r = @ - 1]
        /\ UNCHANGED <<writeCount, pc, expected, crashed>>
    BY <1>12, <2>1 DEF ReadUnlock
  <2> USE <1>12, <2>2 DEF ReadUnlock
  <2>3. TypeOK'
    BY <1>0, <2>1 DEF TypeOK
  <2>4. Ownership' /\ Depth' /\ PlaceHeld'
    BY <1>0 DEF TypeOK, Ownership, Depth, PlaceHeld
  <2>5. ReadersAlone' /\ NoMisuseCrash'
    BY <1>0 DEF TypeOK, ReadersAlone, NoMisuseCrash
  <2>6. Counted'
    BY RemoveReadGuard DEF TypeOK, Counted
  <2> QED BY <2>3, <2>4, <2>5, <2>6
<1>13. CASE LockTimeout(t)
  <2> USE <1>13 DEF LockTimeout, Crash
  <2>1. TypeOK' /\ NoMisuseCrash'
    BY DEF TypeOK, NoMisuseCrash, CrashReasons
  <2>2. Ownership' /\ Depth' /\ PlaceHeld' /\ ReadersAlone'
    BY DEF Ownership, Depth, PlaceHeld, ReadersAlone
  <2>3. Counted'
    BY CountedUnchanged
  <2> QED BY <2>1, <2>2, <2>3
<1> QED
  BY <1>1, <1>2, <1>3, <1>4, <1>5, <1>6, <1>7, <1>8, <1>9, <1>10, <1>11,
     <1>12, <1>13 DEF ThreadStep

LEMMA NextIInv == IInv /\ [Next]_vars => IInv'
<1> SUFFICES ASSUME IInv, [Next]_vars PROVE IInv'
  OBVIOUS
<1>1. CASE UNCHANGED vars
  <2> USE <1>1 DEF vars, IInv
  <2>1. TypeOK' /\ Ownership' /\ Depth' /\ PlaceHeld' /\ ReadersAlone' /\ NoMisuseCrash'
    BY DEF TypeOK, Ownership, Depth, PlaceHeld, ReadersAlone, NoMisuseCrash
  <2>2. Counted'
    BY CountedUnchanged
  <2> QED BY <2>1, <2>2
<1>2. CASE \E t \in Threads : ThreadStep(t)
  BY <1>2, StepIInv
<1> QED BY <1>1, <1>2 DEF Next, Halted

\* The inductive invariant holds of every reachable state of Lock.cpp.
THEOREM Inductive == Spec => []IInv
BY InitIInv, NextIInv, PTL DEF Spec

-----------------------------------------------------------------------------
(* What follows from it *)

\* Lock's variables keep their types: in particular no counter goes negative.
THEOREM TypeCorrect == Spec => []TypeOK
BY Inductive, PTL DEF IInv

\* A write guard of WriteLock excludes every guard of every other thread.
THEOREM Exclusion == Spec => []MutualExclusion
<1>1. IInv => MutualExclusion
  <2> SUFFICES ASSUME IInv, NEW t \in Threads, NEW u \in Threads,
                      t # u, held[t].w > 0
               PROVE  held[u].w = 0 /\ held[u].r = 0
    BY DEF MutualExclusion
  <2>1. lockFlag.owner = t
    BY DEF IInv, Ownership
  <2>2. held[u].w \in 0..MaxNesting /\ held[u].r \in 0..MaxNesting
    BY DEF IInv, TypeOK
  <2>3. ~ held[u].w > 0
    BY <2>1 DEF IInv, Ownership
  <2>4. ~ held[u].r > 0
    BY <2>1 DEF IInv, ReadersAlone
  <2> QED BY <2>2, <2>3, <2>4, WidthAssumption
<1> QED BY <1>1, Inductive, PTL

\* Neither INVALID_UNLOCK_ORDER nor MULTIPLE_UNLOCK is ever reached.
THEOREM MisuseFree == Spec => []NoMisuseCrash
BY Inductive, PTL DEF IInv

\* The reader half of the word counts the read guards and does not overflow
\* as long as the threads times the nesting fit it (WidthAssumption).
THEOREM CountFits == Spec => []ReadersCounted
<1>1. IInv => ReadersCounted
  <2> SUFFICES ASSUME IInv PROVE ReadersCounted
    OBVIOUS
  <2> DEFINE Slots == 1..MaxNesting
             All == Threads \X Slots
  <2>1. MaxNesting \in Nat /\ READ_COUNT_MASK \in Nat
    BY WidthAssumption
  <2>2. IsFiniteSet(Slots) /\ Cardinality(Slots) = MaxNesting
    <3>1. IsFiniteSet(Slots) /\ Cardinality(Slots) = IF 1 > MaxNesting THEN 0 ELSE MaxNesting - 1 + 1
      BY <2>1, FS_Interval
    <3> QED BY <3>1, <2>1
  <2>3. IsFiniteSet(All) /\ Cardinality(All) = Cardinality(Threads) * MaxNesting
    BY <2>2, ThreadsAssumption, FS_Product
  <2>4. ReadGuards \subseteq All
    BY DEF ReadGuards
  <2>5. Cardinality(ReadGuards) <= Cardinality(All)
    BY <2>3, <2>4, FS_Subset
  <2>6. /\ Cardinality(ReadGuards) \in Nat /\ Cardinality(All) \in Nat
        /\ Cardinality(All) <= READ_COUNT_MASK
    BY <2>3, WidthAssumption, FS_CardinalityType DEF IInv, Counted
  <2> QED BY <2>1, <2>5, <2>6 DEF ReadersCounted, IInv, Counted
<1> QED BY <1>1, Inductive, PTL

\* Whoever spins waits for another thread that does not.
THEOREM NoSelfDeadlock == Spec => []WaitsForRunner
<1>1. IInv => WaitsForRunner
  <2> SUFFICES ASSUME IInv, NEW t \in Threads, Waiting(t)
               PROVE  \E u \in Threads \ {t} :
                        /\ ~ Waiting(u)
                        /\ \/ held[u].w > 0 \/ held[u].r > 0
                           \/ pc[u] \in {"winc", "wdec", "wstore"}
    BY DEF WaitsForRunner
  <2>1. lockFlag \in [owner : Threads \cup {NoThread}, readers : Nat]
    BY DEF IInv, TypeOK
  <2>2. /\ pc[t] \in {"wcas", "rload", "rcas"} /\ held[t].w = 0
        /\ pc[t] = "wcas" => held[t].r = 0
        /\ lockFlag.owner # t
    BY DEF Waiting, IInv, PlaceHeld, Ownership
  <2>3. CASE lockFlag.owner # NoThread
    <3> DEFINE u == lockFlag.owner
    <3>1. u \in Threads \ {t}
      BY <2>1, <2>2, <2>3
    <3>2. held[u].w > 0 \/ pc[u] \in {"winc", "wdec", "wstore"}
      BY <3>1 DEF IInv, Ownership
    <3>3. ~ Waiting(u)
      <4>1. held[u].w \in 0..MaxNesting
        BY <3>1 DEF IInv, TypeOK
      <4>2. pc[u] \in {"wcas", "rload", "rcas"} => held[u].w = 0
        BY <3>1 DEF IInv, PlaceHeld
      <4> QED BY <3>2, <4>1, <4>2 DEF Waiting
    <3> QED BY <3>1, <3>2, <3>3
  <2>4. CASE lockFlag.owner = NoThread
    <3>1. pc[t] = "wcas" /\ lockFlag.readers # 0
      BY <2>1, <2>4 DEF Waiting, EMPTY_FLAG
    <3>2. PICK u \in Threads : held[u].r # 0
      BY <3>1, NoReaders DEF IInv
    <3>3. held[u].r > 0 /\ u # t
      <4>1. held[u].r \in 0..MaxNesting
        BY DEF IInv, TypeOK
      <4> QED BY <3>1, <3>2, <4>1, <2>2
    <3>4. ~ Waiting(u)
      BY <2>4, <3>2 DEF Waiting, IInv, PlaceHeld
    <3> QED BY <3>3, <3>4
  <2> QED BY <2>3, <2>4
<1> QED BY <1>1, Inductive, PTL

-----------------------------------------------------------------------------
(* Refinement *)

\* The first state of the word-level lock maps to the abstract first state.
LEMMA InitRefines == Init => Abstract!Init
BY DEF Init, Abstract!Init

\* Every step of Lock.cpp takes or gives back one guard the way the abstract
\* lock allows it, or leaves the guards alone.
LEMMA StepRefines ==
  ASSUME IInv, NEW t \in Threads, ThreadStep(t)
  PROVE  Abstract!Next \/ held' = held
<1> USE DEF IInv
<1>0. \A u \in Threads : held[u].w \in 0..MaxNesting /\ held[u].r \in 0..MaxNesting
  BY DEF TypeOK
<1>1. CASE WriteEnter(t)
  <2>1. lockFlag.owner = t /\ held[t].r = 0 /\ held[t].w < MaxNesting
    BY <1>1 DEF WriteEnter, Ownership, PlaceHeld
  <2>2. \A u \in Threads \ {t} : held[u].w = 0 /\ held[u].r = 0
    BY <1>0, <2>1, WidthAssumption DEF Ownership, ReadersAlone
  <2>3. Abstract!EnterWrite(t)
    BY <1>1, <2>1, <2>2 DEF WriteEnter, Abstract!EnterWrite, Abstract!NobodyBut
  <2> QED BY <2>3 DEF Abstract!Next
<1>2. CASE WriteUnlock(t)
  <2>1. CASE lockFlag.readers = 0
    <3>1. Abstract!LeaveWrite(t)
      BY <1>2, <2>1 DEF WriteUnlock, Abstract!LeaveWrite
    <3> QED BY <3>1 DEF Abstract!Next
  <2>2. CASE lockFlag.readers # 0
    BY <1>2, <2>2 DEF WriteUnlock, Crash
  <2> QED BY <2>1, <2>2
<1>3. CASE ReadUnderWrite(t)
  <2>1. lockFlag.owner = t /\ held[t].r < MaxNesting
    BY <1>3, <1>0, WidthAssumption DEF ReadUnderWrite, Ownership, PlaceHeld
  <2>2. \A u \in Threads \ {t} : held[u].w = 0
    BY <1>0, <2>1, WidthAssumption DEF Ownership
  <2>3. Abstract!EnterRead(t)
    BY <1>3, <2>1, <2>2 DEF ReadUnderWrite, Abstract!EnterRead, Abstract!NoWriterBut
  <2> QED BY <2>3 DEF Abstract!Next
<1>4. CASE ReadAcquire(t)
  <2>1. lockFlag.owner = NoThread /\ held[t].r < MaxNesting
    BY <1>4 DEF ReadAcquire, PlaceHeld
  <2>2. \A u \in Threads \ {t} : held[u].w = 0
    BY <1>0, <2>1, ThreadsAssumption, WidthAssumption DEF Ownership
  <2>3. Abstract!EnterRead(t)
    BY <1>4, <2>1, <2>2 DEF ReadAcquire, Abstract!EnterRead, Abstract!NoWriterBut
  <2> QED BY <2>3 DEF Abstract!Next
<1>5. CASE ReadUnlock(t)
  <2>1. CASE lockFlag.readers # 0
    <3>1. Abstract!LeaveRead(t)
      BY <1>5, <2>1 DEF ReadUnlock, Abstract!LeaveRead
    <3> QED BY <3>1 DEF Abstract!Next
  <2>2. CASE lockFlag.readers = 0
    BY <1>5, <2>2 DEF ReadUnlock, Crash
  <2> QED BY <2>1, <2>2
<1>6. CASE \/ WriteLock(t) \/ WriteAcquire(t) \/ WriteLeave(t) \/ WriteRelease(t)
           \/ ReadLock(t) \/ ReadLoad(t) \/ ReadRetry(t) \/ LockTimeout(t)
  BY <1>6 DEF WriteLock, WriteAcquire, WriteLeave, WriteRelease, ReadLock,
              ReadLoad, ReadRetry, LockTimeout, Crash
<1> QED BY <1>1, <1>2, <1>3, <1>4, <1>5, <1>6 DEF ThreadStep

\* Lock.cpp implements the abstract reader/writer lock.
THEOREM Refinement == Spec => ImplementsLock
<1>1. IInv /\ [Next]_vars => [Abstract!Next]_held
  <2> SUFFICES ASSUME IInv, [Next]_vars PROVE Abstract!Next \/ held' = held
    OBVIOUS
  <2>1. CASE \E t \in Threads : ThreadStep(t)
    BY <2>1, StepRefines
  <2>2. CASE Halted \/ UNCHANGED vars
    BY <2>2 DEF Halted, vars
  <2> QED BY <2>1, <2>2 DEF Next
<1> QED
  BY <1>1, InitRefines, Inductive, PTL DEF Spec, ImplementsLock, Abstract!Spec

-----------------------------------------------------------------------------
(* Numbers and repeated steps *)

\* A set with 0 and every successor of a member, up to n, has all up to n.
LEMMA Induction ==
  ASSUME NEW n \in Nat, NEW T \in SUBSET Nat, 0 \in T,
         \A k \in 1..n : k - 1 \in T => k \in T
  PROVE  \A k \in 0..n : k \in T
<1> DEFINE Less == OpToRel(<, Nat)
           Rest == (0..n) \ T
<1>1. IsWellFoundedOn(Less, Nat)
  BY NatLessThanWellFounded
<1>2. \A m, k \in Nat : m < k => <<m, k>> \in Less
  BY DEF OpToRel
<1> HIDE DEF Less
<1> SUFFICES ASSUME Rest # {} PROVE FALSE
  OBVIOUS
<1>3. Rest \in SUBSET Nat
  OBVIOUS
<1> HIDE DEF Rest
<1>4. PICK k \in Rest : \A m \in Rest : ~ (<<m, k>> \in Less)
  BY <1>1, <1>3, WFMin
<1> USE DEF Rest
<1>5. k \in 1..n /\ k - 1 \in 0..n /\ k - 1 < k
  BY <1>4
<1>6. k - 1 \notin Rest
  <2>1. k - 1 \in Nat /\ k \in Nat
    BY <1>5
  <2>2. <<k - 1, k>> \in Less
    BY <1>2, <1>5, <2>1
  <2> HIDE DEF Rest
  <2> QED BY <1>4, <2>2
<1> QED BY <1>4, <1>5, <1>6

\* f is the repetition of the n steps G from start.
Repeats(f, n, S, start, G) ==
  f \in [0..n -> S] /\ f[0] = start /\ \A k \in 1..n : f[k] = G[k][f[k - 1]]

\* Steps on a set can be repeated.
LEMMA Repeated ==
  ASSUME NEW n \in Nat, NEW S, NEW start \in S, NEW G \in [1..n -> [S -> S]]
  PROVE  \E f : Repeats(f, n, S, start, G)
<1> DEFINE Run(m, f) == f[0] = start /\ \A k \in 1..m : f[k] = G[k][f[k - 1]]
           T == {m \in 0..n : \E f \in [0..m -> S] : Run(m, f)}
<1>1. 0 \in T
  <2> DEFINE f == [k \in 0..0 |-> start]
  <2>1. f \in [0..0 -> S] /\ Run(0, f)
    OBVIOUS
  <2> HIDE DEF f, Run
  <2> QED BY <2>1
<1>2. ASSUME NEW m \in 1..n, m - 1 \in T PROVE m \in T
  <2>1. PICK f \in [0..(m - 1) -> S] : Run(m - 1, f)
    BY <1>2
  <2> DEFINE g == [k \in 0..m |-> IF k = m THEN G[m][f[m - 1]] ELSE f[k]]
  <2>2. \A k \in 0..(m - 1) : k \in 0..m /\ k # m /\ f[k] \in S
    OBVIOUS
  <2>3. G[m][f[m - 1]] \in S
    BY <2>2
  <2>4. g \in [0..m -> S] /\ \A k \in 0..(m - 1) : g[k] = f[k]
    BY <2>2, <2>3
  <2>5. g[m] = G[m][f[m - 1]]
    OBVIOUS
  <2> HIDE DEF g
  <2>6. ASSUME NEW k \in 1..m PROVE g[k] = G[k][g[k - 1]]
    <3>1. k - 1 \in 0..(m - 1) /\ g[k - 1] = f[k - 1]
      BY <2>4
    <3>2. CASE k = m
      BY <2>5, <3>1, <3>2
    <3>3. CASE k \in 1..(m - 1)
      BY <2>1, <2>4, <3>1, <3>3
    <3> QED BY <3>2, <3>3
  <2>7. g[0] = start
    BY <2>1, <2>4
  <2>8. g \in [0..m -> S] /\ Run(m, g)
    BY <2>4, <2>6, <2>7
  <2> HIDE DEF Run
  <2> QED BY <2>8
<1> HIDE DEF T
<1>3. \A k \in 0..n : k \in T
  <2>1. T \in SUBSET Nat
    BY DEF T
  <2> QED BY <1>1, <1>2, <2>1, Induction
<1>4. n \in T
  BY <1>3
<1> QED BY <1>4 DEF T, Repeats

-----------------------------------------------------------------------------
(* The search, call by call *)

Entered(s, here) == [s EXCEPT !.order[here] = s.count, !.count = @ + 1]

Left(s, here) == [s EXCEPT !.finished = @ \cup {here}]

\* What Dfs does with one lock.
LookAt(history, deeper, s, here, there) ==
  IF <<here, there>> \in history THEN Visit(deeper, s, here, there) ELSE s

Deeper(n) == [Searches(n) -> [Ids(n) -> Searches(n)]]

\* A call starts with a number for its lock.
LEMMA EnteredTyped ==
  ASSUME NEW n \in Nat, NEW s \in Searches(n), NEW here \in Ids(n)
  PROVE  LET e == Entered(s, here) IN
         /\ e \in Searches(n)
         /\ e.order = [s.order EXCEPT ![here] = s.count] /\ e.count = s.count + 1
         /\ e.finished = s.finished /\ e.found = s.found
<1>1. PICK o \in [Ids(n) -> Int], c \in Int, f \in SUBSET Ids(n), b \in BOOLEAN :
        s = [order |-> o, count |-> c, finished |-> f, found |-> b]
  BY DEF Searches
<1>2. s.order = o /\ s.count = c /\ s.finished = f /\ s.found = b
  BY <1>1
<1>3. Entered(s, here) = [order |-> [o EXCEPT ![here] = c], count |-> c + 1,
                          finished |-> f, found |-> b]
  <2>1. ASSUME NEW x, NEW y, NEW z, NEW w
        PROVE  Entered([order |-> x, count |-> y, finished |-> z, found |-> w], here)
                 = [order |-> [x EXCEPT ![here] = y], count |-> y + 1,
                    finished |-> z, found |-> w]
    <3> DEFINE R(o1, c1) == [order |-> o1, count |-> c1, finished |-> z, found |-> w]
    <3>1. \A o1, c1, v : [R(o1, c1) EXCEPT !.order = v] = R(v, c1)
      OBVIOUS
    <3>2. \A o1, c1, v : [R(o1, c1) EXCEPT !.count = v] = R(o1, v)
      OBVIOUS
    <3>3. R(x, y).order = x /\ R(x, y).count = y
      OBVIOUS
    <3> HIDE DEF R
    <3>4. Entered(R(x, y), here) = R([x EXCEPT ![here] = y], y + 1)
      <4> DEFINE r == R(x, y)
                 p == [x EXCEPT ![here] = y]
      <4>1. Entered(r, here) = [[r EXCEPT !.order = [r.order EXCEPT ![here] = r.count]]
                                  EXCEPT !.count = r.count + 1]
        BY DEF Entered
      <4>2. [r EXCEPT !.order = p] = R(p, y)
        BY <3>1
      <4>3. [R(p, y) EXCEPT !.count = y + 1] = R(p, y + 1)
        BY <3>2
      <4>4. r.order = x /\ r.count = y
        BY <3>3
      <4> QED BY <4>1, <4>2, <4>3, <4>4
    <3> QED BY <3>4 DEF R
  <2> QED BY <1>1, <2>1
<1>4. c + 1 \in Int /\ [o EXCEPT ![here] = c] \in [Ids(n) -> Int]
  OBVIOUS
<1> QED BY <1>2, <1>3, <1>4 DEF Searches

\* A call ends with its lock finished.
LEMMA LeftTyped ==
  ASSUME NEW n \in Nat, NEW s \in Searches(n), NEW here \in Ids(n)
  PROVE  LET l == Left(s, here) IN
         /\ l \in Searches(n)
         /\ l.order = s.order /\ l.count = s.count /\ l.found = s.found
         /\ l.finished = s.finished \cup {here}
BY DEF Left, Searches

\* A look at a lock leaves a search.
LEMMA LookTyped ==
  ASSUME NEW n \in Nat, NEW history, NEW deeper \in Deeper(n), NEW s \in Searches(n),
         NEW here \in Ids(n), NEW there \in Ids(n)
  PROVE  LookAt(history, deeper, s, here, there) \in Searches(n)
<1>1. deeper[s][there] \in Searches(n)
  BY DEF Deeper
<1>2. ASSUME NEW b \in BOOLEAN PROVE [s EXCEPT !.found = b] \in Searches(n)
  BY DEF Searches
<1>3. (~ (s.order[here] < s.order[there]) /\ there \notin s.finished) \in BOOLEAN
  OBVIOUS
<1> QED BY <1>1, <1>2, <1>3 DEF LookAt, Visit

\* A call looks at the locks one after the other.
LEMMA CallRuns ==
  ASSUME NEW n \in Nat, NEW history, NEW deeper \in Deeper(n), NEW s \in Searches(n),
         NEW here \in Ids(n), ~ s.found, s.order[here] = -1
  PROVE  \E v \in [0..n -> Searches(n)] :
           /\ v[0] = Entered(s, here)
           /\ \A k \in 1..n : v[k] = LookAt(history, deeper, v[k - 1], here, k - 1)
           /\ Call(history, n, deeper, s, here) = Left(v[n], here)
<1> DEFINE G == [k \in 1..n |-> [x \in Searches(n) |-> LookAt(history, deeper, x, here, k - 1)]]
           Looks(v) == [k \in 0..n |-> IF k = 0 THEN Entered(s, here)
                                       ELSE LookAt(history, deeper, v[k - 1], here, k - 1)]
<1>1. \A k \in 1..n : k - 1 \in Ids(n)
  BY DEF Ids
<1>2. G \in [1..n -> [Searches(n) -> Searches(n)]]
  BY <1>1, LookTyped
<1>3. \A k \in 1..n : \A x \in Searches(n) : G[k][x] = LookAt(history, deeper, x, here, k - 1)
  OBVIOUS
<1> HIDE DEF G
<1>4. PICK f \in [0..n -> Searches(n)] :
        f[0] = Entered(s, here) /\ \A k \in 1..n : f[k] = G[k][f[k - 1]]
  <2>1. Entered(s, here) \in Searches(n)
    BY EnteredTyped
  <2>2. PICK f : Repeats(f, n, Searches(n), Entered(s, here), G)
    BY <1>2, <2>1, Repeated
  <2> QED BY <2>2 DEF Repeats
<1>5. \A k \in 1..n : f[k] = LookAt(history, deeper, f[k - 1], here, k - 1)
  <2> SUFFICES ASSUME NEW k \in 1..n PROVE f[k] = LookAt(history, deeper, f[k - 1], here, k - 1)
    OBVIOUS
  <2>1. f[k - 1] \in Searches(n)
    <3>1. k - 1 \in 0..n
      OBVIOUS
    <3> QED BY <3>1
  <2> QED BY <1>3, <1>4, <2>1
<1>6. f = Looks(f)
  <2>1. \A k \in 0..n : f[k] = Looks(f)[k]
    BY <1>4, <1>5
  <2>2. f = [k \in 0..n |-> f[k]]
    OBVIOUS
  <2> QED BY <2>1, <2>2
<1> DEFINE v == CHOOSE v : v = Looks(v)
<1>7. v = Looks(v)
  BY <1>6
<1>8. Call(history, n, deeper, s, here) = Left(v[n], here)
  BY DEF Call, LookAt, Entered, Left
<1> HIDE DEF v
<1>9. v[0] = Entered(s, here)
  BY <1>7
<1>10. \A k \in 1..n : v[k] = LookAt(history, deeper, v[k - 1], here, k - 1)
  <2> SUFFICES ASSUME NEW k \in 1..n PROVE v[k] = LookAt(history, deeper, v[k - 1], here, k - 1)
    OBVIOUS
  <2>1. Looks(v)[k] = LookAt(history, deeper, v[k - 1], here, k - 1)
    OBVIOUS
  <2> HIDE DEF Looks
  <2> QED BY <1>7, <2>1
<1>11. v \in [0..n -> Searches(n)]
  <2> DEFINE T == {k \in 0..n : v[k] \in Searches(n)}
  <2>1. 0 \in T
    <3>1. Entered(s, here) \in Searches(n)
      BY EnteredTyped
    <3> QED BY <1>9, <3>1
  <2>2. ASSUME NEW k \in 1..n, k - 1 \in T PROVE k \in T
    BY <1>1, <1>10, <2>2, LookTyped
  <2>3. T \in SUBSET Nat
    OBVIOUS
  <2> HIDE DEF T
  <2>4. \A k \in 0..n : k \in T
    BY <2>1, <2>2, <2>3, Induction
  <2> USE DEF T
  <2>5. \A k \in 0..n : v[k] \in Searches(n)
    BY <2>4
  <2>6. v = [k \in 0..n |-> v[k]]
    BY <1>7
  <2> QED BY <2>5, <2>6
<1> QED BY <1>8, <1>9, <1>10, <1>11

\* A call leaves a search.
LEMMA CallTyped ==
  ASSUME NEW n \in Nat, NEW history, NEW deeper \in Deeper(n), NEW s \in Searches(n),
         NEW here \in Ids(n)
  PROVE  Call(history, n, deeper, s, here) \in Searches(n)
<1>1. CASE s.found \/ s.order[here] # -1
  BY <1>1 DEF Call
<1>2. CASE ~ s.found /\ s.order[here] = -1
  <2>1. PICK v \in [0..n -> Searches(n)] : Call(history, n, deeper, s, here) = Left(v[n], here)
    BY <1>2, CallRuns
  <2>2. v[n] \in Searches(n)
    <3>1. n \in 0..n
      OBVIOUS
    <3> QED BY <3>1
  <2> QED BY <2>1, <2>2, LeftTyped
<1> QED BY <1>1, <1>2

\* What the calls do at every depth: d[n] is what Dfs does.
Deepens(history, n, d) ==
  /\ d \in [0..n -> Deeper(n)] /\ Dfs(history, n) = d[n]
  /\ \A s \in Searches(n), here \in Ids(n) : d[0][s][here] = s
  /\ \A k \in 1..n : \A s \in Searches(n), here \in Ids(n) :
       d[k][s][here] = Call(history, n, d[k - 1], s, here)

\* Dfs at a depth calls itself at the depth below.
LEMMA DfsRuns ==
  ASSUME NEW n \in Nat, NEW history
  PROVE  \E d : Deepens(history, n, d)
<1> DEFINE Start == [s \in Searches(n) |-> [here \in Ids(n) |-> s]]
           Above(x) == [s \in Searches(n) |-> [here \in Ids(n) |-> Call(history, n, x, s, here)]]
           G == [k \in 1..n |-> [x \in Deeper(n) |-> Above(x)]]
           Runs(d) == [depth \in 0..n |-> [s \in Searches(n) |-> [here \in Ids(n) |->
                         IF depth = 0 THEN s ELSE Call(history, n, d[depth - 1], s, here)]]]
<1>1. Start \in Deeper(n) /\ \A x \in Deeper(n) : Above(x) \in Deeper(n)
  <2>1. Start \in Deeper(n)
    BY DEF Deeper
  <2>2. ASSUME NEW x \in Deeper(n) PROVE Above(x) \in Deeper(n)
    BY CallTyped DEF Deeper
  <2> QED BY <2>1, <2>2
<1>2. Runs(Start)[0] = Start
  OBVIOUS
<1>3. \A d : \A k \in 1..n : Runs(d)[k] = Above(d[k - 1])
  <2> SUFFICES ASSUME NEW d, NEW k \in 1..n PROVE Runs(d)[k] = Above(d[k - 1])
    OBVIOUS
  <2>1. k \in 0..n /\ k # 0
    OBVIOUS
  <2> QED BY <2>1
<1>4. \A d : Runs(d)[0] = Start /\ DOMAIN Runs(d) = 0..n /\ Runs(d) = [k \in 0..n |-> Runs(d)[k]]
  OBVIOUS
<1>5. G \in [1..n -> [Deeper(n) -> Deeper(n)]]
      /\ \A k \in 1..n : \A x \in Deeper(n) : G[k][x] = Above(x)
  <2> HIDE DEF Above
  <2> QED BY <1>1
<1>6. \A x : \A s \in Searches(n), here \in Ids(n) :
         Above(x)[s][here] = Call(history, n, x, s, here)
  OBVIOUS
<1>7. \A s \in Searches(n), here \in Ids(n) : Start[s][here] = s
  OBVIOUS
<1>8. Dfs(history, n) = (CHOOSE d : d = Runs(d))[n]
  BY DEF Dfs
<1> HIDE DEF Start, Above, G, Runs
<1>9. PICK f \in [0..n -> Deeper(n)] :
        f[0] = Start /\ \A k \in 1..n : f[k] = G[k][f[k - 1]]
  <2>1. Start \in Deeper(n) /\ G \in [1..n -> [Deeper(n) -> Deeper(n)]]
    BY <1>1, <1>5
  <2>2. PICK f : Repeats(f, n, Deeper(n), Start, G)
    BY <2>1, Repeated
  <2> QED BY <2>2 DEF Repeats
<1>10. \A k \in 0..n : f[k] = Runs(f)[k]
  <2> SUFFICES ASSUME NEW k \in 0..n PROVE f[k] = Runs(f)[k]
    OBVIOUS
  <2>1. CASE k = 0
    BY <1>4, <1>9, <2>1
  <2>2. CASE k \in 1..n
    <3>1. f[k - 1] \in Deeper(n)
      <4>1. k - 1 \in 0..n
        BY <2>2
      <4> QED BY <4>1
    <3> QED BY <1>3, <1>5, <1>9, <2>2, <3>1
  <2> QED BY <2>1, <2>2
<1>11. f = Runs(f)
  <2>1. f = [k \in 0..n |-> f[k]]
    OBVIOUS
  <2> QED BY <1>4, <1>10, <2>1
<1> DEFINE d == CHOOSE d : d = Runs(d)
<1>12. d = Runs(d)
  BY <1>11
<1>13. Dfs(history, n) = d[n]
  BY <1>8
<1> HIDE DEF d
<1>14. d[0] = Start /\ \A k \in 1..n : d[k] = Above(d[k - 1])
  BY <1>3, <1>4, <1>12
<1>15. d \in [0..n -> Deeper(n)]
  <2> DEFINE T == {k \in 0..n : d[k] \in Deeper(n)}
  <2>1. 0 \in T
    BY <1>1, <1>14
  <2>2. ASSUME NEW k \in 1..n, k - 1 \in T PROVE k \in T
    BY <1>1, <1>14, <2>2
  <2>3. T \in SUBSET Nat
    OBVIOUS
  <2> HIDE DEF T
  <2>4. \A k \in 0..n : k \in T
    BY <2>1, <2>2, <2>3, Induction
  <2> USE DEF T
  <2>5. \A k \in 0..n : d[k] \in Deeper(n)
    BY <2>4
  <2>6. DOMAIN d = 0..n /\ d = [k \in 0..n |-> d[k]]
    <3>1. Runs(d) = [k \in 0..n |-> Runs(d)[k]]
      BY <1>4
    <3> QED BY <1>12, <3>1
  <2> QED BY <2>5, <2>6
<1>16. /\ \A s \in Searches(n), here \in Ids(n) : d[0][s][here] = s
       /\ \A k \in 1..n : \A s \in Searches(n), here \in Ids(n) :
            d[k][s][here] = Call(history, n, d[k - 1], s, here)
  BY <1>6, <1>7, <1>14
<1>17. Deepens(history, n, d)
  BY <1>13, <1>15, <1>16, Zenon DEF Deepens
<1> QED BY <1>17

\* CheckCycle calls Dfs for one lock after the other.
LEMMA CheckRuns ==
  ASSUME NEW n \in Nat, NEW history
  PROVE  \E v : /\ v[0] = Fresh(n)
                /\ \A k \in 1..n : v[k] = Dfs(history, n)[v[k - 1]][k - 1]
                /\ CheckCycle(history, n) = v[n].found
<1> DEFINE D == Dfs(history, n)
           G == [k \in 1..n |-> [x \in Searches(n) |-> D[x][k - 1]]]
           Steps(v) == [k \in 0..n |-> IF k = 0 THEN Fresh(n) ELSE D[v[k - 1]][k - 1]]
<1>0. CheckCycle(history, n) = (CHOOSE v : v = Steps(v))[n].found
  BY DEF CheckCycle
<1>1. D \in Deeper(n)
  <2>1. PICK d : d \in [0..n -> Deeper(n)] /\ D = d[n]
    BY DfsRuns DEF Deepens
  <2>2. n \in 0..n
    OBVIOUS
  <2> QED BY <2>1, <2>2
<1> HIDE DEF D
<1>2. \A k \in 1..n : \A x \in Searches(n) : D[x][k - 1] \in Searches(n)
  BY <1>1 DEF Deeper, Ids
<1>3. G \in [1..n -> [Searches(n) -> Searches(n)]]
  BY <1>2
<1>4. Fresh(n) \in Searches(n)
  BY DEF Fresh, Searches
<1>5. \A k \in 1..n : \A x \in Searches(n) : G[k][x] = D[x][k - 1]
  OBVIOUS
<1> HIDE DEF G
<1>6. PICK f \in [0..n -> Searches(n)] :
        f[0] = Fresh(n) /\ \A k \in 1..n : f[k] = G[k][f[k - 1]]
  <2>1. PICK f : Repeats(f, n, Searches(n), Fresh(n), G)
    BY <1>3, <1>4, Repeated
  <2> QED BY <2>1 DEF Repeats
<1>7. \A k \in 1..n : f[k] = D[f[k - 1]][k - 1]
  <2> SUFFICES ASSUME NEW k \in 1..n PROVE f[k] = D[f[k - 1]][k - 1]
    OBVIOUS
  <2>1. k - 1 \in 0..n
    OBVIOUS
  <2> QED BY <1>5, <1>6, <2>1
<1>8. f = Steps(f)
  <2>1. \A k \in 0..n : f[k] = Steps(f)[k]
    BY <1>6, <1>7
  <2>2. f = [k \in 0..n |-> f[k]]
    OBVIOUS
  <2> QED BY <2>1, <2>2
<1> DEFINE v == CHOOSE v : v = Steps(v)
<1>9. v = Steps(v)
  BY <1>8
<1>10. CheckCycle(history, n) = v[n].found
  BY <1>0
<1> HIDE DEF v
<1>11. \A k \in 0..n : v[k] = Steps(v)[k]
  <2> HIDE DEF Steps
  <2> QED BY <1>9
<1>12. v[0] = Fresh(n) /\ \A k \in 1..n : v[k] = D[v[k - 1]][k - 1]
  BY <1>11
<1> QED BY <1>10, <1>12 DEF D

-----------------------------------------------------------------------------
(* The search finds a cycle exactly if there is one *)

Edges(history, n, i) == {j \in Ids(n) : <<i, j>> \in history}

\* Some locks are each taken before another one of them.
Cycle(history, n) ==
  \E ids \in SUBSET Ids(n) : ids # {} /\ \A i \in ids : \E j \in ids : <<i, j>> \in history

\* The locks whose calls have not returned, and those nobody has looked at.
Open(n, s) == {i \in Ids(n) : s.order[i] # -1 /\ i \notin s.finished}
Unseen(n, s) == {i \in Ids(n) : s.order[i] = -1}

\* Finished locks lead to finished locks only, and there is no cycle of them.
Sound(history, n, s) ==
  /\ s \in Searches(n) /\ s.count \in Nat /\ ~ s.found
  /\ \A i \in Ids(n) : s.order[i] < s.count
  /\ \A i \in s.finished : s.order[i] # -1 /\ Edges(history, n, i) \subseteq s.finished
  /\ \A ids \in SUBSET s.finished :
       ids # {} => \E i \in ids : ids \cap Edges(history, n, i) = {}

\* The calls that have not returned lead to the innermost one, for here.
Path(history, n, s, here) ==
  /\ here \in Open(n, s)
  /\ \A i \in Open(n, s) \ {here} :
       /\ s.order[i] < s.order[here]
       /\ \E j \in Open(n, s) : <<i, j>> \in history /\ s.order[i] < s.order[j]

\* Dfs(here) may be called.
Ready(history, n, s, here) ==
  /\ Sound(history, n, s) /\ s.order[here] = -1
  /\ \/ Open(n, s) = {}
     \/ \E p \in Open(n, s) : Path(history, n, s, p) /\ <<p, here>> \in history

\* r is s gone on, by calls that have returned.
Onward(n, s, r) ==
  /\ Open(n, r) = Open(n, s) /\ \A i \in Open(n, s) : r.order[i] = s.order[i]
  /\ s.finished \subseteq r.finished /\ Unseen(n, r) \subseteq Unseen(n, s)

Result(history, n, s, r) ==
  /\ r \in Searches(n)
  /\ r.found => Cycle(history, n)
  /\ ~ r.found => Sound(history, n, r) /\ Onward(n, s, r)

\* A function does what Dfs should while it need not go deeper than depth.
Works(history, n, deeper, depth) ==
  \A s \in Searches(n), here \in Ids(n) :
    Ready(history, n, s, here) /\ Cardinality(Unseen(n, s)) <= depth =>
      /\ Result(history, n, s, deeper[s][here])
      /\ ~ deeper[s][here].found => here \in deeper[s][here].finished

\* Calls that follow each other go the search on together.
LEMMA OnwardTransitive ==
  ASSUME NEW n, NEW s, NEW r, NEW q, Onward(n, s, r), Onward(n, r, q)
  PROVE  Onward(n, s, q)
BY DEF Onward

\* An open call taken before the innermost one closes a cycle.
LEMMA BackEdge ==
  ASSUME NEW n \in Nat, NEW history, NEW s, Sound(history, n, s),
         NEW here \in Ids(n), NEW there \in Ids(n), Path(history, n, s, here),
         <<here, there>> \in history, there \in Open(n, s), ~ (s.order[here] < s.order[there])
  PROVE  Cycle(history, n)
<1> DEFINE ids == {i \in Open(n, s) : s.order[there] <= s.order[i]}
<1>0. \A i \in Ids(n) : s.order[i] \in Int
  BY DEF Sound, Searches
<1>1. ids \subseteq Ids(n) /\ there \in ids
  BY <1>0 DEF Open
<1>2. ASSUME NEW i \in ids PROVE \E j \in ids : <<i, j>> \in history
  <2>1. CASE i = here
    BY <1>1, <2>1
  <2>2. CASE i # here
    <3>1. PICK j \in Open(n, s) : <<i, j>> \in history /\ s.order[i] < s.order[j]
      BY <2>2 DEF Path
    <3>2. s.order[i] \in Int /\ s.order[j] \in Int /\ s.order[there] \in Int
      BY <1>0, <1>1 DEF Open
    <3>3. s.order[there] <= s.order[j]
      BY <3>1, <3>2
    <3> QED BY <3>1, <3>3
  <2> QED BY <2>1, <2>2
<1> HIDE DEF ids
<1> QED BY <1>1, <1>2 DEF Cycle

\* One look, inside the call for here.
LEMMA LookWorks ==
  ASSUME NEW n \in Nat, NEW history, NEW deeper \in Deeper(n), NEW depth \in Nat,
         Works(history, n, deeper, depth),
         NEW s \in Searches(n), NEW here \in Ids(n), NEW there \in Ids(n),
         s.found => Cycle(history, n),
         ~ s.found => (/\ Sound(history, n, s) /\ Path(history, n, s, here)
                       /\ Cardinality(Unseen(n, s)) <= depth)
  PROVE  LET r == LookAt(history, deeper, s, here, there) IN
         /\ Result(history, n, s, r)
         /\ ~ r.found /\ <<here, there>> \in history => there \in r.finished
<1> DEFINE r == LookAt(history, deeper, s, here, there)
<1> SUFFICES /\ Result(history, n, s, r)
             /\ ~ r.found /\ <<here, there>> \in history => there \in r.finished
  OBVIOUS
<1>0. Onward(n, s, s)
  BY DEF Onward
<1>1. CASE s.found
  BY <1>1 DEF LookAt, Visit, Result
<1>2. CASE ~ s.found /\ <<here, there>> \notin history
  BY <1>0, <1>2 DEF LookAt, Result
<1>3. CASE ~ s.found /\ <<here, there>> \in history /\ s.order[there] = -1
  <2>1. r = deeper[s][there]
    BY <1>3 DEF LookAt, Visit
  <2>2. Ready(history, n, s, there)
    BY <1>3 DEF Ready, Path
  <2> QED BY <1>3, <2>1, <2>2 DEF Works
<1>4. CASE ~ s.found /\ <<here, there>> \in history /\ s.order[there] # -1
  <2> DEFINE bad == ~ (s.order[here] < s.order[there]) /\ there \notin s.finished
  <2>1. r = [s EXCEPT !.found = bad]
    BY <1>4 DEF LookAt, Visit
  <2>2. CASE bad
    <3>1. there \in Open(n, s)
      BY <1>4, <2>2 DEF Open
    <3>2. Cycle(history, n)
      BY <1>4, <2>2, <3>1, BackEdge
    <3>3. [s EXCEPT !.found = TRUE] \in Searches(n) /\ [s EXCEPT !.found = TRUE].found
      BY DEF Searches
    <3>4. r = [s EXCEPT !.found = TRUE]
      BY <2>1, <2>2
    <3> QED BY <3>2, <3>3, <3>4 DEF Result
  <2>3. CASE ~ bad
    <3>1. r = [s EXCEPT !.found = FALSE]
      BY <2>1, <2>3
    <3>2. [s EXCEPT !.found = FALSE] = s
      BY <1>4 DEF Searches
    <3>3. there \in s.finished
      <4>1. there \in Open(n, s) => there = here \/ s.order[there] < s.order[here]
        BY <1>4 DEF Path
      <4>2. s.order[there] \in Int /\ s.order[here] \in Int
        BY DEF Searches
      <4>3. there \notin Open(n, s)
        BY <2>3, <4>1, <4>2 DEF Open
      <4> QED BY <1>4, <4>3 DEF Open
    <3> QED BY <1>0, <1>4, <3>1, <3>2, <3>3 DEF Result
  <2> QED BY <2>2, <2>3
<1> QED BY <1>1, <1>2, <1>3, <1>4

\* The state of the search inside the call for here: everything before it
\* stays, here is the innermost call.
LEMMA EnteredWorks ==
  ASSUME NEW n \in Nat, NEW history, NEW depth \in Nat,
         NEW s \in Searches(n), NEW here \in Ids(n), Ready(history, n, s, here),
         Cardinality(Unseen(n, s)) <= depth + 1
  PROVE  LET e == Entered(s, here) IN
         /\ e \in Searches(n) /\ Sound(history, n, e) /\ Path(history, n, e, here)
         /\ Open(n, e) = Open(n, s) \cup {here} /\ here \notin Open(n, s)
         /\ \A i \in Open(n, s) : e.order[i] = s.order[i]
         /\ e.finished = s.finished /\ Unseen(n, e) \subseteq Unseen(n, s)
         /\ IsFiniteSet(Unseen(n, e)) /\ Cardinality(Unseen(n, e)) <= depth
<1> DEFINE e == Entered(s, here)
<1>1. /\ e \in Searches(n)
      /\ e.order = [s.order EXCEPT ![here] = s.count] /\ e.count = s.count + 1
      /\ e.finished = s.finished /\ e.found = s.found
  BY EnteredTyped
<1> HIDE DEF e
<1>2. /\ s.count \in Nat /\ s.order \in [Ids(n) -> Int] /\ s.order[here] = -1 /\ ~ s.found
      /\ s.finished \subseteq Ids(n) /\ \A i \in Ids(n) : s.order[i] < s.count
  BY DEF Ready, Sound, Searches
<1>3. here \notin s.finished
  BY <1>2 DEF Ready, Sound
<1>4. e.order[here] = s.count /\ \A i \in Ids(n) \ {here} : e.order[i] = s.order[i]
  BY <1>1, <1>2
<1>5. Open(n, e) = Open(n, s) \cup {here} /\ here \notin Open(n, s)
  BY <1>1, <1>2, <1>3, <1>4 DEF Open
<1>6. Unseen(n, e) = Unseen(n, s) \ {here} /\ here \in Unseen(n, s)
  BY <1>2, <1>4 DEF Unseen
<1>7. IsFiniteSet(Unseen(n, s))
  <2>1. IsFiniteSet(Ids(n))
    BY FS_Interval DEF Ids
  <2> QED BY <2>1, FS_Subset DEF Unseen
<1>8. /\ IsFiniteSet(Unseen(n, e))
      /\ Cardinality(Unseen(n, e)) = Cardinality(Unseen(n, s)) - 1
  BY <1>6, <1>7, FS_RemoveElement
<1>9. Cardinality(Unseen(n, e)) <= depth
  BY <1>7, <1>8, FS_CardinalityType
<1>10. Sound(history, n, e)
  <2>1. e.count \in Nat /\ ~ e.found /\ \A i \in Ids(n) : e.order[i] < e.count
    BY <1>1, <1>2, <1>4
  <2>2. \A i \in e.finished : e.order[i] # -1 /\ Edges(history, n, i) \subseteq e.finished
    BY <1>1, <1>2, <1>3, <1>4 DEF Ready, Sound
  <2>3. \A ids \in SUBSET e.finished :
          ids # {} => \E i \in ids : ids \cap Edges(history, n, i) = {}
    BY <1>1 DEF Ready, Sound
  <2> QED BY <1>1, <2>1, <2>2, <2>3 DEF Sound
<1>11. Path(history, n, e, here)
  <2> SUFFICES ASSUME NEW i \in Open(n, s)
               PROVE  /\ e.order[i] < e.order[here]
                      /\ \E j \in Open(n, e) : <<i, j>> \in history /\ e.order[i] < e.order[j]
    BY <1>5 DEF Path
  <2>1. i \in Ids(n) \ {here} /\ \A j \in Open(n, s) : j \in Ids(n) \ {here}
    BY <1>5 DEF Open
  <2>2. e.order[i] < e.order[here]
    BY <1>2, <1>4, <2>1
  <2>3. PICK p \in Open(n, s) : Path(history, n, s, p) /\ <<p, here>> \in history
    BY DEF Ready
  <2>4. CASE i = p
    BY <1>5, <2>2, <2>3, <2>4
  <2>5. CASE i # p
    <3>1. PICK j \in Open(n, s) : <<i, j>> \in history /\ s.order[i] < s.order[j]
      BY <2>3, <2>5 DEF Path
    <3> QED BY <1>4, <1>5, <2>1, <2>2, <3>1
  <2> QED BY <2>2, <2>4, <2>5
<1>12. \A i \in Open(n, s) : e.order[i] = s.order[i]
  BY <1>4, <1>5 DEF Open
<1> QED BY <1>1, <1>5, <1>6, <1>8, <1>9, <1>10, <1>11, <1>12 DEF e

\* A call that looked at everything behind here finishes it.
LEMMA LeftWorks ==
  ASSUME NEW n \in Nat, NEW history, NEW v \in Searches(n), NEW here \in Ids(n),
         Sound(history, n, v), Path(history, n, v, here),
         Edges(history, n, here) \subseteq v.finished
  PROVE  LET l == Left(v, here) IN
         /\ l \in Searches(n) /\ Sound(history, n, l) /\ ~ l.found /\ l.order = v.order
         /\ Open(n, l) = Open(n, v) \ {here}
         /\ l.finished = v.finished \cup {here} /\ Unseen(n, l) = Unseen(n, v)
<1> DEFINE l == Left(v, here)
<1>1. /\ l \in Searches(n)
      /\ l.order = v.order /\ l.count = v.count /\ l.found = v.found
      /\ l.finished = v.finished \cup {here}
  BY LeftTyped
<1> HIDE DEF l
<1>2. here \notin v.finished /\ v.order[here] # -1
  BY DEF Path, Open
<1>3. Open(n, l) = Open(n, v) \ {here} /\ Unseen(n, l) = Unseen(n, v)
  BY <1>1 DEF Open, Unseen
<1>4. ASSUME NEW ids \in SUBSET l.finished, ids # {}
      PROVE  \E i \in ids : ids \cap Edges(history, n, i) = {}
  <2>1. CASE ids \subseteq v.finished
    BY <1>4, <2>1 DEF Sound
  <2>2. CASE ids = {here}
    BY <1>2, <2>2
  <2>3. CASE here \in ids /\ ids # {here}
    <3> DEFINE rest == ids \ {here}
    <3>1. rest \in SUBSET v.finished /\ rest # {}
      BY <1>1, <1>4, <2>3
    <3>2. PICK i \in rest : rest \cap Edges(history, n, i) = {}
      BY <3>1 DEF Sound
    <3>3. Edges(history, n, i) \subseteq v.finished
      BY <3>1 DEF Sound
    <3> QED BY <1>2, <3>2, <3>3
  <2> QED BY <1>1, <1>4, <2>1, <2>2, <2>3
<1>5. Sound(history, n, l)
  <2>1. l.count \in Nat /\ ~ l.found /\ \A i \in Ids(n) : l.order[i] < l.count
    BY <1>1 DEF Sound
  <2>2. \A i \in l.finished : l.order[i] # -1 /\ Edges(history, n, i) \subseteq l.finished
    BY <1>1, <1>2 DEF Sound
  <2> QED BY <1>1, <1>4, <2>1, <2>2 DEF Sound
<1> QED BY <1>1, <1>3, <1>5 DEF l, Sound

\* Calls that have returned leave the calls that have not as they were.
LEMMA PathStays ==
  ASSUME NEW n, NEW history, NEW s, NEW r, NEW here,
         Path(history, n, s, here), Onward(n, s, r)
  PROVE  Path(history, n, r, here)
BY DEF Path, Onward

\* The call for here, if the calls in it do what they should.
LEMMA CallWorks ==
  ASSUME NEW n \in Nat, NEW history, NEW deeper \in Deeper(n), NEW depth \in Nat,
         Works(history, n, deeper, depth),
         NEW s \in Searches(n), NEW here \in Ids(n), Ready(history, n, s, here),
         Cardinality(Unseen(n, s)) <= depth + 1
  PROVE  LET r == Call(history, n, deeper, s, here) IN
         /\ Result(history, n, s, r)
         /\ ~ r.found => here \in r.finished
<1> DEFINE r == Call(history, n, deeper, s, here)
           e == Entered(s, here)
<1>1. ~ s.found /\ s.order[here] = -1
  BY DEF Ready, Sound
<1>2. PICK v \in [0..n -> Searches(n)] :
           /\ v[0] = e
           /\ \A k \in 1..n : v[k] = LookAt(history, deeper, v[k - 1], here, k - 1)
           /\ r = Left(v[n], here)
  BY <1>1, CallRuns
<1>3. /\ e \in Searches(n) /\ Sound(history, n, e) /\ Path(history, n, e, here)
      /\ Open(n, e) = Open(n, s) \cup {here} /\ here \notin Open(n, s)
      /\ \A i \in Open(n, s) : e.order[i] = s.order[i]
      /\ e.finished = s.finished /\ Unseen(n, e) \subseteq Unseen(n, s)
      /\ IsFiniteSet(Unseen(n, e)) /\ Cardinality(Unseen(n, e)) <= depth
  BY EnteredWorks
<1> HIDE DEF e, r
<1> DEFINE Loop(k) ==
             /\ v[k].found => Cycle(history, n)
             /\ ~ v[k].found =>
                  /\ Sound(history, n, v[k]) /\ Onward(n, e, v[k])
                  /\ \A j \in Ids(n) : j < k /\ <<here, j>> \in history => j \in v[k].finished
           T == {k \in 0..n : Loop(k)}
<1>4. 0 \in T
  <2>1. Onward(n, e, e)
    BY DEF Onward
  <2>2. \A j \in Ids(n) : ~ (j < 0)
    BY DEF Ids
  <2> QED BY <1>2, <1>3, <2>1, <2>2 DEF Sound
<1>5. ASSUME NEW k \in 1..n, k - 1 \in T PROVE k \in T
  <2> DEFINE p == v[k - 1]
             q == v[k]
  <2>0. k - 1 \in Ids(n) /\ k - 1 \in 0..n /\ k \in 0..n
    BY DEF Ids
  <2>1. p \in Searches(n) /\ q = LookAt(history, deeper, p, here, k - 1) /\ Loop(k - 1)
    BY <1>2, <1>5, <2>0
  <2>2. ~ p.found => Path(history, n, p, here) /\ Cardinality(Unseen(n, p)) <= depth
    <3> SUFFICES ASSUME ~ p.found
                 PROVE  Path(history, n, p, here) /\ Cardinality(Unseen(n, p)) <= depth
      OBVIOUS
    <3>1. Onward(n, e, p)
      BY <2>1
    <3>2. Path(history, n, p, here)
      BY <1>3, <3>1, PathStays
    <3>3. Unseen(n, p) \subseteq Unseen(n, e)
      BY <3>1 DEF Onward
    <3>4. /\ Cardinality(Unseen(n, p)) <= Cardinality(Unseen(n, e))
          /\ IsFiniteSet(Unseen(n, p))
      BY <1>3, <3>3, FS_Subset
    <3>5. Cardinality(Unseen(n, p)) \in Nat /\ Cardinality(Unseen(n, e)) \in Nat
      BY <1>3, <3>4, FS_CardinalityType
    <3> QED BY <1>3, <3>2, <3>4, <3>5
  <2>3. /\ Result(history, n, p, q)
        /\ ~ q.found /\ <<here, k - 1>> \in history => k - 1 \in q.finished
    <3>1. p.found => Cycle(history, n)
      BY <2>1
    <3>2. ~ p.found => Sound(history, n, p) /\ Path(history, n, p, here)
                         /\ Cardinality(Unseen(n, p)) <= depth
      BY <2>1, <2>2
    <3> HIDE DEF p, q
    <3> QED BY <2>0, <2>1, <3>1, <3>2, LookWorks
  <2>4. p.found => q.found
    BY <2>1 DEF LookAt, Visit
  <2>5. q.found => Cycle(history, n)
    BY <2>3 DEF Result
  <2>6. ASSUME ~ q.found
        PROVE  /\ Sound(history, n, q) /\ Onward(n, e, q)
               /\ \A j \in Ids(n) : j < k /\ <<here, j>> \in history => j \in q.finished
    <3>1. ~ p.found /\ Sound(history, n, q) /\ Onward(n, p, q) /\ Onward(n, e, p)
      BY <2>1, <2>3, <2>4, <2>6 DEF Result
    <3>2. Onward(n, e, q)
      BY <3>1, OnwardTransitive
    <3>3. p.finished \subseteq q.finished
      BY <3>1 DEF Onward
    <3>4. \A j \in Ids(n) : j < k - 1 /\ <<here, j>> \in history => j \in p.finished
      BY <2>1, <3>1
    <3>5. \A j \in Ids(n) : j < k => j < k - 1 \/ j = k - 1
      BY DEF Ids
    <3> HIDE DEF p, q
    <3> QED BY <2>3, <2>6, <3>1, <3>2, <3>3, <3>4, <3>5
  <2> QED BY <2>0, <2>5, <2>6
<1>6. Loop(n)
  <2>1. T \in SUBSET Nat
    OBVIOUS
  <2> HIDE DEF T
  <2>2. n \in T
    BY <1>4, <1>5, <2>1, Induction
  <2> QED BY <2>2 DEF T
<1> DEFINE w == v[n]
<1>7. w \in Searches(n) /\ r = Left(w, here) /\ r.found = w.found /\ r \in Searches(n)
      /\ here \in r.finished
  <2>1. w \in Searches(n) /\ r = Left(w, here)
    BY <1>2
  <2> HIDE DEF w
  <2>2. /\ Left(w, here) \in Searches(n) /\ Left(w, here).found = w.found
        /\ Left(w, here).finished = w.finished \cup {here}
    BY <2>1, LeftTyped
  <2> QED BY <2>1, <2>2
<1>8. ASSUME ~ w.found PROVE Sound(history, n, r) /\ Onward(n, s, r)
  <2>1. /\ Sound(history, n, w) /\ Onward(n, e, w)
        /\ Edges(history, n, here) \subseteq w.finished
    <3>1. \A j \in Ids(n) : j < n
      BY DEF Ids
    <3> QED BY <1>6, <1>8, <3>1 DEF Edges
  <2>2. Path(history, n, w, here)
    BY <1>3, <2>1, PathStays
  <2> HIDE DEF w, Loop
  <2>3. /\ Sound(history, n, r) /\ r.order = w.order
        /\ Open(n, r) = Open(n, w) \ {here}
        /\ r.finished = w.finished \cup {here} /\ Unseen(n, r) = Unseen(n, w)
    BY <1>7, <2>1, <2>2, LeftWorks
  <2> QED BY <1>3, <2>1, <2>3 DEF Onward
<1>9. w.found => Cycle(history, n)
  BY <1>6
<1> HIDE DEF w, Loop
<1> QED BY <1>7, <1>8, <1>9 DEF r, Result

\* No more locks are left to discover than there are.
LEMMA UnseenCounted ==
  ASSUME NEW n \in Nat, NEW s
  PROVE  /\ IsFiniteSet(Unseen(n, s)) /\ Cardinality(Unseen(n, s)) \in Nat
         /\ Cardinality(Unseen(n, s)) <= n
<1>1. IsFiniteSet(Ids(n)) /\ Cardinality(Ids(n)) = n
  BY FS_Interval DEF Ids
<1>2. Unseen(n, s) \subseteq Ids(n)
  BY DEF Unseen
<1> QED BY <1>1, <1>2, FS_Subset, FS_CardinalityType

\* The search of the code does what it should from every lock.
LEMMA DfsWorks ==
  ASSUME NEW n \in Nat, NEW history
  PROVE  /\ Dfs(history, n) \in Deeper(n)
         /\ Works(history, n, Dfs(history, n), n)
         /\ \A s \in Searches(n), here \in Ids(n) :
              s.found \/ s.order[here] # -1 => Dfs(history, n)[s][here] = s
<1>0. PICK d : Deepens(history, n, d)
  BY DfsRuns
<1>1. /\ d \in [0..n -> Deeper(n)] /\ Dfs(history, n) = d[n]
      /\ \A s \in Searches(n), here \in Ids(n) : d[0][s][here] = s
      /\ \A k \in 1..n : \A s \in Searches(n), here \in Ids(n) :
           d[k][s][here] = Call(history, n, d[k - 1], s, here)
  BY <1>0, Zenon DEF Deepens
<1> DEFINE T == {k \in 0..n : Works(history, n, d[k], k)}
<1>2. 0 \in T
  <2> SUFFICES ASSUME NEW s \in Searches(n), NEW here \in Ids(n), Ready(history, n, s, here),
                      Cardinality(Unseen(n, s)) <= 0
               PROVE  FALSE
    BY DEF Works
  <2>1. here \in Unseen(n, s)
    BY DEF Ready, Unseen
  <2>2. Cardinality(Unseen(n, s)) = 0
    BY UnseenCounted
  <2> QED BY <2>1, <2>2, UnseenCounted, FS_EmptySet
<1>3. ASSUME NEW k \in 1..n, k - 1 \in T PROVE k \in T
  <2>1. k - 1 \in Nat /\ d[k - 1] \in Deeper(n) /\ Works(history, n, d[k - 1], k - 1)
    BY <1>1, <1>3
  <2>2. ASSUME NEW s \in Searches(n), NEW here \in Ids(n), Ready(history, n, s, here),
               Cardinality(Unseen(n, s)) <= k
        PROVE  /\ Result(history, n, s, d[k][s][here])
               /\ ~ d[k][s][here].found => here \in d[k][s][here].finished
    <3>1. Cardinality(Unseen(n, s)) <= (k - 1) + 1
      BY <2>2
    <3>2. d[k][s][here] = Call(history, n, d[k - 1], s, here)
      BY <1>1
    <3> QED BY <2>1, <2>2, <3>1, <3>2, CallWorks
  <2>3. Works(history, n, d[k], k)
    BY <2>2 DEF Works
  <2> QED BY <2>3
<1>4. Works(history, n, d[n], n)
  <2>1. T \in SUBSET Nat
    OBVIOUS
  <2> HIDE DEF T
  <2>0. \A k \in 0..n : k \in T
    BY <1>2, <1>3, <2>1, Induction
  <2>2. n \in T
    BY <2>0
  <2> QED BY <2>2 DEF T
<1>5. ASSUME NEW s \in Searches(n), NEW here \in Ids(n), s.found \/ s.order[here] # -1
      PROVE  d[n][s][here] = s
  <2>1. n \in 1..n
    BY DEF Ids
  <2>2. d[n][s][here] = Call(history, n, d[n - 1], s, here)
    BY <1>1, <2>1
  <2> QED BY <1>5, <2>2 DEF Call
<1> QED BY <1>1, <1>4, <1>5

\* CheckCycle finds a cycle exactly if some locks are each taken before
\* another one of them.
THEOREM CheckCycleExact ==
  ASSUME NEW n \in Nat, NEW history
  PROVE  CheckCycle(history, n) <=> Cycle(history, n)
<1> DEFINE D == Dfs(history, n)
<1>1. PICK v : /\ v[0] = Fresh(n)
               /\ \A k \in 1..n : v[k] = D[v[k - 1]][k - 1]
               /\ CheckCycle(history, n) = v[n].found
  BY CheckRuns
<1>2. /\ D \in Deeper(n) /\ Works(history, n, D, n)
      /\ \A s \in Searches(n), here \in Ids(n) :
           s.found \/ s.order[here] # -1 => D[s][here] = s
  BY DfsWorks
<1> HIDE DEF D
<1> DEFINE Loop(k) ==
             /\ v[k] \in Searches(n)
             /\ v[k].found => Cycle(history, n)
             /\ ~ v[k].found =>
                  /\ Sound(history, n, v[k]) /\ Open(n, v[k]) = {}
                  /\ \A j \in Ids(n) : j < k => j \in v[k].finished
           T == {k \in 0..n : Loop(k)}
<1>3. 0 \in T
  <2>1. Fresh(n) \in Searches(n) /\ ~ Fresh(n).found
    BY DEF Fresh, Searches
  <2>2. Sound(history, n, Fresh(n)) /\ Open(n, Fresh(n)) = {}
    BY <2>1 DEF Sound, Open, Fresh
  <2>3. \A j \in Ids(n) : ~ (j < 0)
    BY DEF Ids
  <2> QED BY <1>1, <2>1, <2>2, <2>3
<1>4. ASSUME NEW k \in 1..n, k - 1 \in T PROVE k \in T
  <2> DEFINE p == v[k - 1]
             q == v[k]
             here == k - 1
  <2>1. here \in Ids(n) /\ here \in 0..n /\ k \in 0..n
        /\ \A j \in Ids(n) : j < k => j < here \/ j = here
    BY DEF Ids
  <2>2. q = D[p][here] /\ Loop(here)
    BY <1>1, <1>4
  <2>3. p \in Searches(n)
    BY <2>2
  <2> HIDE DEF p, q, here
  <2>4. q \in Searches(n)
    BY <1>2, <2>1, <2>2, <2>3 DEF Deeper
  <2>5. /\ p.found => Cycle(history, n)
        /\ ~ p.found => /\ Sound(history, n, p) /\ Open(n, p) = {}
                        /\ \A j \in Ids(n) : j < here => j \in p.finished
    BY <2>2 DEF p, here
  <2>6. /\ q.found => Cycle(history, n)
        /\ ~ q.found => /\ Sound(history, n, q) /\ Open(n, q) = {}
                        /\ \A j \in Ids(n) : j < k => j \in q.finished
    <3>1. CASE p.found
      BY <1>2, <2>1, <2>2, <2>3, <2>5, <3>1
    <3>2. CASE ~ p.found /\ p.order[here] # -1
      <4>1. q = p
        BY <1>2, <2>1, <2>2, <2>3, <3>2
      <4>2. here \in p.finished
        BY <2>1, <2>5, <3>2 DEF Open
      <4> QED BY <2>1, <2>5, <3>2, <4>1, <4>2
    <3>3. CASE ~ p.found /\ p.order[here] = -1
      <4>1. Ready(history, n, p, here)
        BY <2>5, <3>3 DEF Ready
      <4>2. Cardinality(Unseen(n, p)) <= n
        BY UnseenCounted
      <4>3. Result(history, n, p, q) /\ (~ q.found => here \in q.finished)
        BY <1>2, <2>1, <2>2, <2>3, <4>1, <4>2 DEF Works
      <4> QED BY <2>1, <2>5, <3>3, <4>3 DEF Result, Onward
    <3> QED BY <3>1, <3>2, <3>3
  <2>7. Loop(k)
    BY <2>4, <2>6 DEF q
  <2> QED BY <2>1, <2>7
<1>5. Loop(n)
  <2>1. T \in SUBSET Nat
    OBVIOUS
  <2> HIDE DEF T
  <2>0. \A k \in 0..n : k \in T
    BY <1>3, <1>4, <2>1, Induction
  <2>2. n \in T
    BY <2>0
  <2> QED BY <2>2 DEF T
<1>6. ASSUME ~ v[n].found PROVE ~ Cycle(history, n)
  <2>1. Sound(history, n, v[n]) /\ Ids(n) \subseteq v[n].finished
    <3>1. \A j \in Ids(n) : j < n
      BY DEF Ids
    <3> QED BY <1>5, <1>6, <3>1
  <2>2. \A ids \in SUBSET Ids(n) : ids # {} => \E i \in ids : ids \cap Edges(history, n, i) = {}
    BY <2>1 DEF Sound
  <2> SUFFICES ASSUME Cycle(history, n) PROVE FALSE
    OBVIOUS
  <2>9. PICK ids \in SUBSET Ids(n) : ids # {} /\ \A i \in ids : \E j \in ids : <<i, j>> \in history
    BY DEF Cycle
  <2>8. ids \in SUBSET Ids(n) /\ ids # {}
    BY <2>9
  <2>3. PICK i \in ids : ids \cap Edges(history, n, i) = {}
    BY <2>2, <2>8
  <2>4. PICK j \in ids : <<i, j>> \in history
    BY <2>3, <2>9
  <2> QED BY <2>3, <2>4 DEF Edges
<1>7. v[n].found \in BOOLEAN /\ (v[n].found => Cycle(history, n))
  BY <1>5 DEF Searches
<1> HIDE DEF Loop
<1>8. v[n].found <=> Cycle(history, n)
  BY <1>6, <1>7
<1> QED BY <1>1, <1>8

-----------------------------------------------------------------------------
(* The alarm: invariant *)

\* Every name has a number of its own, below the number of names.
Table(table) ==
  /\ IsFiniteSet(DOMAIN table)
  /\ \A x \in DOMAIN table : table[x] \in Ids(Cardinality(DOMAIN table))
  /\ \A x, y \in DOMAIN table : table[x] = table[y] => x = y

Modes == {"read", "write"}
Guard == [lock : Locks, mode : Modes]

ProfilerTypeOK ==
  /\ stack \in [Callers -> Seq(Nat)]
  /\ guards \in [Callers -> Seq(Guard)]
  /\ waiting \in [Callers -> Seq(Guard)] /\ \A t \in Callers : Len(waiting[t]) <= 1
  /\ crash \in {"none", "DEADLOCK_DETECTED"}

Numbered(table, id, g) == NameOf[g.lock] \in DOMAIN table /\ id = table[NameOf[g.lock]]

\* A thread's stack s has the numbers of the guards it entered and of the one
\* it waits for.
Matches(table, s, g, w) ==
  /\ Len(s) = Len(g) + Len(w)
  /\ \A i \in 1..Len(g) : Numbered(table, s[i], g[i])
  /\ \A i \in 1..Len(w) : Numbered(table, s[Len(g) + i], w[i])

\* Locks of different names that follow each other in a stack are an order.
Ordered(history, s) ==
  \A i \in 1..(Len(s) - 1) : s[i] # s[i + 1] => <<s[i], s[i + 1]>> \in history

LockCount == Cardinality(DOMAIN nameToId)

OrdersNumbered == lockHistory \subseteq Ids(LockCount) \X Ids(LockCount)
StacksMatch == \A t \in Callers : Matches(nameToId, stack[t], guards[t], waiting[t])
StacksOrdered == \A t \in Callers : Ordered(lockHistory, stack[t])
CrashIfCycle == crash # "none" <=> Cycle(lockHistory, LockCount)

ProfilerInv ==
  /\ ProfilerTypeOK /\ Table(nameToId) /\ OrdersNumbered
  /\ StacksMatch /\ StacksOrdered /\ CrashIfCycle

-----------------------------------------------------------------------------

\* Orders among the locks there are make no cycle with locks to come.
LEMMA CycleBelow ==
  ASSUME NEW n \in Nat, NEW m \in Nat, n <= m, NEW history, history \subseteq Ids(n) \X Ids(n)
  PROVE  Cycle(history, m) <=> Cycle(history, n)
<1>1. Ids(n) \subseteq Ids(m)
  BY DEF Ids
<1>2. ASSUME Cycle(history, m) PROVE Cycle(history, n)
  <2>1. PICK ids \in SUBSET Ids(m) :
             ids # {} /\ \A i \in ids : \E j \in ids : <<i, j>> \in history
    BY <1>2 DEF Cycle
  <2>2. ids \in SUBSET Ids(n)
    BY <2>1
  <2> QED BY <2>1, <2>2 DEF Cycle
<1>3. ASSUME Cycle(history, n) PROVE Cycle(history, m)
  BY <1>1, <1>3 DEF Cycle
<1> QED BY <1>2, <1>3

\* A name gets the number it had or the next one.
LEMMA TableGrows ==
  ASSUME Table(nameToId), NEW x
  PROVE  LET table == WithId(x) IN
         /\ Table(table) /\ DOMAIN table = DOMAIN nameToId \cup {x}
         /\ \A y \in DOMAIN nameToId : table[y] = nameToId[y]
         /\ table[x] = IdOf(x)
         /\ LockCount \in Nat /\ Cardinality(DOMAIN table) \in Nat
         /\ LockCount <= Cardinality(DOMAIN table)
         /\ IdOf(x) \in Ids(Cardinality(DOMAIN table))
<1> DEFINE table == WithId(x)
           D == DOMAIN nameToId
<1>1. DOMAIN table = D \cup {x} /\ table[x] = IdOf(x) /\ \A y \in D : table[y] = nameToId[y]
  BY DEF WithId, IdOf
<1>2. LockCount \in Nat /\ LockCount = Cardinality(D) /\ IsFiniteSet(D)
  BY FS_CardinalityType DEF LockCount, Table
<1>3. /\ IsFiniteSet(DOMAIN table)
      /\ Cardinality(DOMAIN table) = IF x \in D THEN LockCount ELSE LockCount + 1
  BY <1>1, <1>2, FS_AddElement
<1>4. IdOf(x) = IF x \in D THEN nameToId[x] ELSE LockCount
  BY DEF IdOf, LockCount
<1>5. \A y \in D : nameToId[y] \in Ids(LockCount)
  BY DEF Table, LockCount
<1> HIDE DEF table, D
<1>6. \A y \in DOMAIN table : table[y] \in Ids(Cardinality(DOMAIN table))
  BY <1>1, <1>2, <1>3, <1>4, <1>5 DEF Ids
<1>7. \A y, z \in DOMAIN table : table[y] = table[z] => y = z
  <2>1. \A y, z \in D : nameToId[y] = nameToId[z] => y = z
    BY DEF Table, D
  <2>2. LockCount \notin Ids(LockCount)
    BY <1>2 DEF Ids
  <2> QED BY <1>1, <1>4, <1>5, <2>1, <2>2
<1>8. Table(table)
  BY <1>3, <1>6, <1>7 DEF Table
<1>9. LockCount <= Cardinality(DOMAIN table) /\ Cardinality(DOMAIN table) \in Nat
  BY <1>2, <1>3
<1>10. IdOf(x) \in Ids(Cardinality(DOMAIN table))
  BY <1>1, <1>6
<1> QED BY <1>1, <1>2, <1>8, <1>9, <1>10 DEF table, D

\* A stack keeps its meaning when a name gets a number.
LEMMA MatchesMore ==
  ASSUME NEW table, NEW more, DOMAIN table \subseteq DOMAIN more,
         \A y \in DOMAIN table : more[y] = table[y],
         NEW s, NEW g, NEW w, Matches(table, s, g, w)
  PROVE  Matches(more, s, g, w)
BY DEF Matches, Numbered

\* PushLock's Append: the stack has the guard the thread is to wait for.
LEMMA MatchesPush ==
  ASSUME NEW table, NEW s \in Seq(Nat), NEW g \in Seq(Guard), NEW x \in Guard, NEW id \in Nat,
         Matches(table, s, g, <<>>), Numbered(table, id, x)
  PROVE  Matches(table, Append(s, id), g, <<x>>)
<1>1. Len(s) = Len(g) /\ Len(s) \in Nat /\ Len(g) \in Nat
  BY DEF Matches
<1>2. \A i \in 1..Len(g) : Append(s, id)[i] = s[i]
  BY <1>1
<1>3. Append(s, id)[Len(g) + 1] = id /\ Len(Append(s, id)) = Len(g) + 1
  BY <1>1
<1>4. Len(<<x>>) = 1 /\ <<x>>[1] = x
  OBVIOUS
<1>5. \A i \in 1..Len(g) : Numbered(table, Append(s, id)[i], g[i])
  BY <1>2 DEF Matches
<1>6. \A i \in 1..1 : i = 1
  OBVIOUS
<1> QED BY <1>3, <1>4, <1>5, <1>6 DEF Matches

\* A sequence that is not empty, and what it is without its last element.
LEMMA NotEmpty ==
  ASSUME NEW S, NEW s \in Seq(S), s # <<>>
  PROVE  /\ Len(s) \in Nat \ {0} /\ s[1] \in S
         /\ Front(s) \in Seq(S) /\ Len(Front(s)) = Len(s) - 1
         /\ \A i \in 1..(Len(s) - 1) : Front(s)[i] = s[i]
<1>1. Len(s) \in Nat \ {0}
  BY EmptySeq
<1>2. \A i \in 1..Len(s) : s[i] \in S
  BY ElementOfSeq
<1>3. 1 \in Int /\ Len(s) - 1 \in Int /\ \A i \in 1..(Len(s) - 1) : s[i] \in S
  BY <1>1, <1>2
<1> DEFINE n == Len(s) - 1
<1>4. /\ SubSeq(s, 1, n) \in Seq(S)
      /\ Len(SubSeq(s, 1, n)) = IF 1 <= n THEN n - 1 + 1 ELSE 0
      /\ \A i \in 1..(n - 1 + 1) : SubSeq(s, 1, n)[i] = s[1 + i - 1]
  BY <1>3, SubSeqProperties
<1> HIDE DEF n
<1>5. n \in Nat /\ n = Len(s) - 1 /\ Front(s) = SubSeq(s, 1, n)
  BY <1>1 DEF n, Front
<1>6. Len(SubSeq(s, 1, n)) = n
  BY <1>4, <1>5
<1>7. \A i \in 1..n : i \in 1..(n - 1 + 1) /\ s[1 + i - 1] = s[i]
  BY <1>5
<1>8. \A i \in 1..n : SubSeq(s, 1, n)[i] = s[i]
  BY <1>4, <1>7
<1>9. s[1] \in S
  BY <1>1, <1>2
<1> QED BY <1>1, <1>4, <1>5, <1>6, <1>8, <1>9

\* A guard is entered: the stack has it already.
LEMMA MatchesEnter ==
  ASSUME NEW table, NEW s \in Seq(Nat), NEW g \in Seq(Guard), NEW w \in Seq(Guard),
         Len(w) = 1, Matches(table, s, g, w)
  PROVE  Matches(table, s, Append(g, w[1]), <<>>)
<1> DEFINE x == w[1]
<1>0. 1 \in 1..Len(w)
  OBVIOUS
<1>1. x \in Guard
  BY <1>0, ElementOfSeq
<1>8. Len(g) \in Nat /\ 1 \in 1..1
  OBVIOUS
<1> HIDE DEF x
<1>2. Len(s) = Len(g) + 1 /\ Numbered(table, s[Len(g) + 1], x)
  BY <1>8 DEF Matches, x
<1>3. Len(Append(g, x)) = Len(g) + 1 /\ Append(g, x)[Len(g) + 1] = x
      /\ \A i \in 1..Len(g) : Append(g, x)[i] = g[i]
  BY <1>1, <1>8
<1>4. \A i \in 1..(Len(g) + 1) : i \in 1..Len(g) \/ i = Len(g) + 1
  BY <1>8
<1>5. \A i \in 1..Len(g) : Numbered(table, s[i], g[i])
  BY DEF Matches
<1>6. \A i \in 1..(Len(g) + 1) : Numbered(table, s[i], Append(g, x)[i])
  BY <1>2, <1>3, <1>4, <1>5
<1>7. Len(<<>>) = 0
  OBVIOUS
<1> QED BY <1>1, <1>8, <1>2, <1>3, <1>6, <1>7 DEF Matches, x

\* The last entry of a stack is of the guard that ends, so no test of PopLock fails.
LEMMA MatchesLeave ==
  ASSUME NEW table, NEW s \in Seq(Nat), NEW g \in Seq(Guard), g # <<>>,
         Matches(table, s, g, <<>>)
  PROVE  /\ s # <<>> /\ Front(s) \in Seq(Nat) /\ Front(g) \in Seq(Guard)
         /\ Numbered(table, Last(s), Last(g)) /\ Matches(table, Front(s), Front(g), <<>>)
<1>1. Len(s) = Len(g) /\ Len(g) \in Nat /\ Len(g) # 0
  BY DEF Matches
<1>2. s # <<>> /\ Numbered(table, Last(s), Last(g))
  BY <1>1 DEF Matches, Last
<1>3. /\ Front(s) \in Seq(Nat) /\ Len(Front(s)) = Len(s) - 1
      /\ \A i \in 1..(Len(s) - 1) : Front(s)[i] = s[i]
  BY <1>2, NotEmpty
<1>4. /\ Front(g) \in Seq(Guard) /\ Len(Front(g)) = Len(g) - 1
      /\ \A i \in 1..(Len(g) - 1) : Front(g)[i] = g[i]
  BY NotEmpty
<1>5. \A i \in 1..(Len(g) - 1) : i \in 1..Len(g) /\ Numbered(table, s[i], g[i])
  BY <1>1 DEF Matches
<1>6. \A i \in 1..Len(Front(g)) : Numbered(table, Front(s)[i], Front(g)[i])
  BY <1>1, <1>3, <1>4, <1>5
<1>7. Len(<<>>) = 0
  OBVIOUS
<1> QED BY <1>1, <1>2, <1>3, <1>4, <1>6, <1>7 DEF Matches

\* A new order is one of locks that have numbers.
LEMMA OrdersGrow ==
  ASSUME NEW history, NEW n \in Nat, NEW m \in Nat, n <= m, history \subseteq Ids(n) \X Ids(n),
         NEW p \in Ids(m), NEW id \in Ids(m)
  PROVE  history \cup {<<q, id>> : q \in {p} \ {id}} \subseteq Ids(m) \X Ids(m)
BY DEF Ids

\* A lock taken behind another one is an order.
LEMMA OrderedPush ==
  ASSUME NEW history, NEW more, history \subseteq more, NEW s \in Seq(Nat), NEW id \in Nat,
         Ordered(history, s), s = <<>> \/ Last(s) = id \/ <<Last(s), id>> \in more
  PROVE  Ordered(more, Append(s, id))
<1> SUFFICES ASSUME NEW i \in 1..Len(s), Append(s, id)[i] # Append(s, id)[i + 1]
             PROVE  <<Append(s, id)[i], Append(s, id)[i + 1]>> \in more
  BY DEF Ordered
<1>1. CASE i = Len(s)
  BY <1>1 DEF Last
<1>2. CASE i \in 1..(Len(s) - 1)
  <2>1. Append(s, id)[i] = s[i] /\ Append(s, id)[i + 1] = s[i + 1]
    BY <1>2
  <2> QED BY <1>2, <2>1 DEF Ordered
<1>3. i = Len(s) \/ i \in 1..(Len(s) - 1)
  OBVIOUS
<1> QED BY <1>1, <1>2, <1>3

\* A guard that ends leaves the orders of those around it.
LEMMA OrderedFront ==
  ASSUME NEW history, NEW s \in Seq(Nat), s # <<>>, Ordered(history, s)
  PROVE  Ordered(history, Front(s))
<1>1. Len(s) \in Nat \ {0}
  BY NotEmpty
<1>2. /\ Front(s) \in Seq(Nat) /\ Len(Front(s)) = Len(s) - 1
      /\ \A i \in 1..(Len(s) - 1) : Front(s)[i] = s[i]
  BY NotEmpty
<1>3. \A i \in 1..(Len(s) - 2) : i \in 1..(Len(s) - 1) /\ i + 1 \in 1..(Len(s) - 1)
  BY <1>1
<1>4. \A i \in 1..(Len(s) - 1) : s[i] # s[i + 1] => <<s[i], s[i + 1]>> \in history
  BY DEF Ordered
<1>5. Len(Front(s)) - 1 = Len(s) - 2
  BY <1>1, <1>2
<1> SUFFICES ASSUME NEW i \in 1..(Len(s) - 2), Front(s)[i] # Front(s)[i + 1]
             PROVE  <<Front(s)[i], Front(s)[i + 1]>> \in history
  BY <1>5 DEF Ordered
<1>6. Front(s)[i] = s[i] /\ Front(s)[i + 1] = s[i + 1] /\ i \in 1..(Len(s) - 1)
  BY <1>2, <1>3
<1> QED BY <1>4, <1>6

\* ProfilerInv holds before any lock was taken.
LEMMA ProfilerInitially ==
  ASSUME ProfilerAssumption, ProfilerInit
  PROVE  ProfilerInv
<1>1. ProfilerTypeOK
  BY DEF ProfilerInit, ProfilerTypeOK
<1>2. DOMAIN nameToId = {} /\ LockCount = 0
  BY FS_EmptySet DEF ProfilerInit, LockCount
<1>3. Table(nameToId)
  BY <1>2, FS_EmptySet DEF Table
<1>4. OrdersNumbered
  BY DEF OrdersNumbered, ProfilerInit
<1>5. StacksMatch /\ StacksOrdered
  BY DEF StacksMatch, StacksOrdered, ProfilerInit, Matches, Ordered
<1>6. ~ Cycle(lockHistory, LockCount)
  <2>1. \A i, j : <<i, j>> \notin lockHistory
    BY DEF ProfilerInit
  <2> QED BY <2>1 DEF Cycle
<1>7. CrashIfCycle
  BY <1>6 DEF CrashIfCycle, ProfilerInit
<1> QED BY <1>1, <1>3, <1>4, <1>5, <1>7 DEF ProfilerInv

\* What PushLock leaves: the table has the name, the orders are those there
\* were and the one behind the last guard.
LEMMA PushKeeps ==
  ASSUME ProfilerAssumption, ProfilerInv, NEW t \in Callers, NEW l \in Locks,
         NEW mode \in Modes, PushLock(t, l, mode)
  PROVE  ProfilerInv'
<1> DEFINE x == NameOf[l]
           id == IdOf(x)
           m == Cardinality(DOMAIN nameToId')
           g == [lock |-> l, mode |-> mode]
<1>1. /\ nameToId' = WithId(x) /\ lockHistory' = lockHistory \cup NewOrder(t, id)
      /\ stack' = [stack EXCEPT ![t] = Append(@, id)]
      /\ waiting' = [waiting EXCEPT ![t] = <<g>>] /\ guards' = guards
      /\ crash' = IF lockHistory' # lockHistory /\ CheckCycle(lockHistory', m)
                  THEN "DEADLOCK_DETECTED" ELSE "none"
      /\ crash = "none" /\ waiting[t] = <<>>
  BY DEF PushLock, Running
<1>2. /\ Table(nameToId') /\ DOMAIN nameToId' = DOMAIN nameToId \cup {x}
      /\ \A y \in DOMAIN nameToId : nameToId'[y] = nameToId[y]
      /\ nameToId'[x] = id /\ LockCount \in Nat /\ m \in Nat /\ LockCount <= m /\ id \in Ids(m)
  BY <1>1, TableGrows DEF ProfilerInv
<1>3. id \in Nat /\ g \in Guard /\ LockCount' = m
  BY <1>2 DEF Ids, Guard, LockCount
<1>4. stack[t] \in Seq(Nat) /\ guards[t] \in Seq(Guard) /\ stack'[t] = Append(stack[t], id)
      /\ waiting'[t] = <<g>>
  BY <1>1 DEF ProfilerInv, ProfilerTypeOK
<1> HIDE DEF m, id, g, x
<1>5. ProfilerTypeOK'
  <2>1. stack' \in [Callers -> Seq(Nat)] /\ guards' \in [Callers -> Seq(Guard)]
        /\ waiting' \in [Callers -> Seq(Guard)]
    BY <1>1, <1>3 DEF ProfilerInv, ProfilerTypeOK
  <2>2. ASSUME NEW u \in Callers PROVE Len(waiting'[u]) <= 1
    <3>1. CASE u = t
      <4>1. Len(<<g>>) = 1
        OBVIOUS
      <4>2. Len(waiting'[u]) = 1
        BY <1>4, <3>1, <4>1
      <4> QED BY <4>2
    <3>2. CASE u # t
      BY <1>1, <3>2 DEF ProfilerInv, ProfilerTypeOK
    <3> QED BY <3>1, <3>2
  <2> QED BY <1>1, <2>1, <2>2 DEF ProfilerTypeOK
<1>6. stack[t] # <<>> => Last(stack[t]) \in Ids(m)
  <2> SUFFICES ASSUME stack[t] # <<>> PROVE Last(stack[t]) \in Ids(m)
    OBVIOUS
  <2>1. Matches(nameToId, stack[t], guards[t], <<>>)
    BY <1>1 DEF ProfilerInv, StacksMatch
  <2>2. Len(<<>>) = 0 /\ Len(stack[t]) \in Nat \ {0} /\ Len(guards[t]) \in Nat
    BY <1>4
  <2>3. Numbered(nameToId, Last(stack[t]), guards[t][Len(guards[t])])
    BY <2>1, <2>2 DEF Matches, Last
  <2>4. Last(stack[t]) \in Ids(LockCount)
    BY <2>3 DEF Numbered, ProfilerInv, Table, LockCount
  <2> QED BY <1>2, <2>4 DEF Ids
<1>7. OrdersNumbered'
  <2>1. lockHistory' \subseteq Ids(m) \X Ids(m)
    <3>1. CASE stack[t] = <<>>
      BY <1>1, <1>2, <3>1 DEF NewOrder, ProfilerInv, OrdersNumbered, Ids
    <3>2. CASE stack[t] # <<>>
      <4>1. NewOrder(t, id) = {<<q, id>> : q \in {Last(stack[t])} \ {id}}
        BY <3>2 DEF NewOrder
      <4>2. lockHistory \subseteq Ids(LockCount) \X Ids(LockCount)
        BY DEF ProfilerInv, OrdersNumbered
      <4> QED BY <1>1, <1>2, <1>6, <3>2, <4>1, <4>2, OrdersGrow
    <3> QED BY <3>1, <3>2
  <2> QED BY <1>3, <2>1 DEF OrdersNumbered
<1>8. StacksMatch'
  <2> SUFFICES ASSUME NEW u \in Callers
               PROVE  Matches(nameToId', stack'[u], guards'[u], waiting'[u])
    BY DEF StacksMatch
  <2>1. \A y \in DOMAIN nameToId : nameToId'[y] = nameToId[y]
    BY <1>2
  <2>2. Matches(nameToId, stack[u], guards[u], waiting[u])
    BY DEF ProfilerInv, StacksMatch
  <2>3. Matches(nameToId', stack[u], guards[u], waiting[u])
    BY <1>2, <2>2, MatchesMore
  <2>4. CASE u = t
    <3>1. Numbered(nameToId', id, g)
      BY <1>2 DEF Numbered, g, x
    <3>2. Matches(nameToId', stack[t], guards[t], <<>>)
      BY <1>1, <2>3, <2>4
    <3> QED BY <1>1, <1>3, <1>4, <2>4, <3>1, <3>2, MatchesPush
  <2>5. CASE u # t
    <3>1. stack'[u] = stack[u] /\ waiting'[u] = waiting[u] /\ guards'[u] = guards[u]
      BY <1>1, <2>5 DEF ProfilerInv, ProfilerTypeOK
    <3> QED BY <2>3, <3>1
  <2> QED BY <2>4, <2>5
<1>9. StacksOrdered'
  <2> SUFFICES ASSUME NEW u \in Callers PROVE Ordered(lockHistory', stack'[u])
    BY DEF StacksOrdered
  <2>1. Ordered(lockHistory, stack[u]) /\ lockHistory \subseteq lockHistory'
    BY <1>1 DEF ProfilerInv, StacksOrdered
  <2>2. CASE u = t
    <3>1. stack[t] = <<>> \/ Last(stack[t]) = id \/ <<Last(stack[t]), id>> \in lockHistory'
      BY <1>1 DEF NewOrder
    <3> QED BY <1>3, <1>4, <2>1, <2>2, <3>1, OrderedPush
  <2>3. CASE u # t
    <3>1. stack'[u] = stack[u]
      BY <1>1, <2>3 DEF ProfilerInv, ProfilerTypeOK
    <3> QED BY <2>1, <3>1 DEF Ordered
  <2> QED BY <2>2, <2>3
<1>10. CrashIfCycle'
  <2>1. ~ Cycle(lockHistory, LockCount)
    BY <1>1 DEF ProfilerInv, CrashIfCycle
  <2>2. ~ Cycle(lockHistory, m)
    BY <1>2, <2>1, CycleBelow DEF ProfilerInv, OrdersNumbered
  <2>3. CheckCycle(lockHistory', m) <=> Cycle(lockHistory', m)
    BY <1>2, CheckCycleExact
  <2>4. CASE lockHistory' = lockHistory
    <3>1. crash' = "none" /\ ~ Cycle(lockHistory', m)
      BY <1>1, <2>2, <2>4
    <3> QED BY <1>3, <3>1 DEF CrashIfCycle
  <2>5. CASE lockHistory' # lockHistory
    <3>1. crash' # "none" <=> Cycle(lockHistory', m)
      BY <1>1, <2>3, <2>5
    <3> QED BY <1>3, <3>1 DEF CrashIfCycle
  <2> QED BY <2>4, <2>5
<1> QED BY <1>2, <1>5, <1>7, <1>8, <1>9, <1>10 DEF ProfilerInv

\* Entering a guard changes neither stacks nor orders.
LEMMA AcquireKeeps ==
  ASSUME ProfilerInv, NEW t \in Callers, Acquire(t)
  PROVE  ProfilerInv'
<1> DEFINE x == waiting[t][1]
<1>1. /\ guards' = [guards EXCEPT ![t] = Append(@, x)] /\ waiting' = [waiting EXCEPT ![t] = <<>>]
      /\ UNCHANGED <<nameToId, lockHistory, stack, crash>> /\ waiting[t] # <<>>
  BY DEF Acquire
<1>2. /\ stack[t] \in Seq(Nat) /\ guards[t] \in Seq(Guard) /\ waiting[t] \in Seq(Guard)
      /\ Len(waiting[t]) <= 1 /\ guards'[t] = Append(guards[t], x) /\ waiting'[t] = <<>>
  BY <1>1 DEF ProfilerInv, ProfilerTypeOK
<1>3. x \in Guard /\ Len(waiting[t]) = 1
  <2>1. Len(waiting[t]) = 1
    <3>1. Len(waiting[t]) \in Nat \ {0}
      BY <1>1, <1>2, EmptySeq
    <3>2. \A k \in Nat \ {0} : k <= 1 => k = 1
      OBVIOUS
    <3>3. Len(waiting[t]) <= 1
      BY <1>2
    <3> QED BY ONLY <3>1, <3>2, <3>3
  <2> QED BY <1>1, <1>2, <2>1, NotEmpty
<1> HIDE DEF x
<1>4. ProfilerTypeOK'
  <2>1. guards' \in [Callers -> Seq(Guard)] /\ waiting' \in [Callers -> Seq(Guard)]
    BY <1>1, <1>3 DEF ProfilerInv, ProfilerTypeOK
  <2>2. \A u \in Callers : Len(waiting'[u]) <= 1
    BY <1>1 DEF ProfilerInv, ProfilerTypeOK
  <2> QED BY <1>1, <2>1, <2>2 DEF ProfilerInv, ProfilerTypeOK
<1>5. StacksMatch'
  <2> SUFFICES ASSUME NEW u \in Callers
               PROVE  Matches(nameToId', stack'[u], guards'[u], waiting'[u])
    BY DEF StacksMatch
  <2>1. Matches(nameToId, stack[u], guards[u], waiting[u])
    BY DEF ProfilerInv, StacksMatch
  <2>2. CASE u = t
    <3>1. Matches(nameToId, stack[t], Append(guards[t], x), <<>>)
      BY <1>2, <1>3, <2>1, <2>2, MatchesEnter DEF x
    <3> QED BY <1>1, <1>2, <2>2, <3>1
  <2>3. CASE u # t
    <3>1. guards'[u] = guards[u] /\ waiting'[u] = waiting[u]
      BY <1>1, <2>3 DEF ProfilerInv, ProfilerTypeOK
    <3> QED BY <1>1, <2>1, <3>1
  <2> QED BY <2>2, <2>3
<1>6. Table(nameToId') /\ OrdersNumbered' /\ StacksOrdered' /\ CrashIfCycle'
  BY <1>1 DEF ProfilerInv, OrdersNumbered, StacksOrdered, CrashIfCycle, LockCount
<1> QED BY <1>4, <1>5, <1>6 DEF ProfilerInv

\* PopLock takes the guard's own number from the stack.
LEMMA PopKeeps ==
  ASSUME ProfilerInv, NEW t \in Callers, PopLock(t)
  PROVE  ProfilerInv'
<1>1. /\ guards' = [guards EXCEPT ![t] = Front(@)] /\ guards[t] # <<>>
      /\ stack' = [stack EXCEPT ![t] = IF @ = <<>> THEN @ ELSE Front(@)]
      /\ UNCHANGED <<nameToId, lockHistory, waiting>> /\ crash = "none" /\ waiting[t] = <<>>
  BY DEF PopLock, Running
<1>2. /\ stack[t] \in Seq(Nat) /\ guards[t] \in Seq(Guard) /\ waiting[t] = <<>>
      /\ Matches(nameToId, stack[t], guards[t], <<>>) /\ Ordered(lockHistory, stack[t])
  <2>1. Matches(nameToId, stack[t], guards[t], waiting[t])
    BY DEF ProfilerInv, StacksMatch
  <2> QED BY <1>1, <2>1 DEF ProfilerInv, ProfilerTypeOK, StacksOrdered
<1>3. /\ stack[t] # <<>> /\ Front(stack[t]) \in Seq(Nat) /\ Front(guards[t]) \in Seq(Guard)
      /\ Numbered(nameToId, Last(stack[t]), Last(guards[t]))
      /\ Matches(nameToId, Front(stack[t]), Front(guards[t]), <<>>)
  BY <1>1, <1>2, MatchesLeave
<1>4. Ordered(lockHistory, Front(stack[t]))
  BY <1>2, <1>3, OrderedFront
<1>5. stack' = [stack EXCEPT ![t] = Front(stack[t])]
      /\ stack'[t] = Front(stack[t]) /\ guards'[t] = Front(guards[t])
  BY <1>1, <1>3 DEF ProfilerInv, ProfilerTypeOK
<1>6. crash' = "none"
  <2>1. Last(stack[t]) = nameToId[NameOf[Last(guards[t]).lock]]
    BY <1>3 DEF Numbered
  <2> QED BY <1>3, <2>1 DEF PopLock
<1>7. ProfilerTypeOK'
  <2>1. guards' \in [Callers -> Seq(Guard)] /\ stack' \in [Callers -> Seq(Nat)]
    BY <1>1, <1>3, <1>5 DEF ProfilerInv, ProfilerTypeOK
  <2> QED BY <1>1, <1>6, <2>1 DEF ProfilerInv, ProfilerTypeOK
<1>8. \A u \in Callers \ {t} : stack'[u] = stack[u] /\ guards'[u] = guards[u]
  BY <1>1, <1>5 DEF ProfilerInv, ProfilerTypeOK
<1>9. StacksMatch'
  <2> SUFFICES ASSUME NEW u \in Callers
               PROVE  Matches(nameToId', stack'[u], guards'[u], waiting'[u])
    BY DEF StacksMatch
  <2>1. CASE u = t
    BY <1>1, <1>2, <1>3, <1>5, <2>1
  <2>2. CASE u # t
    BY <1>1, <1>8, <2>2 DEF ProfilerInv, StacksMatch
  <2> QED BY <2>1, <2>2
<1>10. StacksOrdered'
  <2> SUFFICES ASSUME NEW u \in Callers PROVE Ordered(lockHistory', stack'[u])
    BY DEF StacksOrdered
  <2>1. CASE u = t
    BY <1>1, <1>4, <1>5, <2>1
  <2>2. CASE u # t
    BY <1>1, <1>8, <2>2 DEF ProfilerInv, StacksOrdered
  <2> QED BY <2>1, <2>2
<1>11. Table(nameToId') /\ OrdersNumbered' /\ CrashIfCycle'
  BY <1>1, <1>6 DEF ProfilerInv, OrdersNumbered, CrashIfCycle, LockCount
<1> QED BY <1>7, <1>9, <1>10, <1>11 DEF ProfilerInv

\* ProfilerInv is inductive.
LEMMA ProfilerStep ==
  ASSUME ProfilerAssumption, ProfilerInv, [ProfilerNext]_profilerVars
  PROVE  ProfilerInv'
<1>1. ASSUME NEW t \in Callers, NEW l \in Locks, PushLock(t, l, "write") PROVE ProfilerInv'
  BY <1>1, PushKeeps DEF Modes
<1>2. ASSUME NEW t \in Callers, NEW l \in Shared, PushLock(t, l, "read") PROVE ProfilerInv'
  BY <1>2, PushKeeps DEF Modes, ProfilerAssumption
<1>3. ASSUME NEW t \in Callers, Acquire(t) PROVE ProfilerInv'
  BY <1>3, AcquireKeeps
<1>4. ASSUME NEW t \in Callers, PopLock(t) PROVE ProfilerInv'
  BY <1>4, PopKeeps
<1>5. CASE UNCHANGED profilerVars
  BY <1>5 DEF profilerVars, ProfilerInv, ProfilerTypeOK, OrdersNumbered, StacksMatch,
              StacksOrdered, CrashIfCycle, LockCount
<1> QED BY <1>1, <1>2, <1>3, <1>4, <1>5 DEF ProfilerNext

\* ProfilerInv holds always.
THEOREM ProfilerInvariance == ProfilerSpec => []ProfilerInv
<1>1. ProfilerInit => ProfilerInv
  BY ProfilerAssumption, ProfilerInitially
<1>2. ProfilerInv /\ [ProfilerNext]_profilerVars => ProfilerInv'
  BY ProfilerAssumption, ProfilerStep
<1> QED BY <1>1, <1>2, PTL DEF ProfilerSpec

\* AlarmExact, of DeadLockProfiler: the server stops exactly when the orders
\* seen so far contradict each other.
THEOREM AlarmIsExact == ProfilerSpec => []AlarmExact
<1>1. ProfilerInv => AlarmExact
  BY DEF ProfilerInv, CrashIfCycle, AlarmExact, Cyclic, Cycle, LockCount
<1> QED BY <1>1, ProfilerInvariance, PTL

-----------------------------------------------------------------------------
(* Threads that wait for each other wait for locks of one name *)

\* The locks that the orders lead to from a.
Behind(history, n, a) ==
  {x \in Ids(n) : \A X \in SUBSET Ids(n) :
     a \in X /\ (\A i \in X : Edges(history, n, i) \subseteq X) => x \in X}

\* A lock is behind itself.
LEMMA BehindItself ==
  ASSUME NEW history, NEW n, NEW a \in Ids(n)
  PROVE  a \in Behind(history, n, a)
BY DEF Behind

\* What is taken behind a lock behind a is behind a.
LEMMA BehindClosed ==
  ASSUME NEW history, NEW n, NEW a, NEW x \in Behind(history, n, a)
  PROVE  Edges(history, n, x) \subseteq Behind(history, n, a)
BY DEF Behind, Edges

\* Whatever has a and all that is taken behind its members has all behind a.
LEMMA BehindLeast ==
  ASSUME NEW history, NEW n, NEW a, NEW X \in SUBSET Ids(n),
         a \in X, \A i \in X : Edges(history, n, i) \subseteq X
  PROVE  Behind(history, n, a) \subseteq X
BY DEF Behind

\* What is behind a lock behind a is behind a.
LEMMA BehindTransitive ==
  ASSUME NEW history, NEW n, NEW a, NEW b \in Behind(history, n, a)
  PROVE  Behind(history, n, b) \subseteq Behind(history, n, a)
<1>1. Behind(history, n, a) \in SUBSET Ids(n)
  BY DEF Behind
<1>2. \A i \in Behind(history, n, a) : Edges(history, n, i) \subseteq Behind(history, n, a)
  BY BehindClosed
<1> QED BY <1>1, <1>2, BehindLeast

\* The way to another lock starts with an order.
LEMMA BehindStarts ==
  ASSUME NEW history, NEW n, NEW a \in Ids(n), NEW x \in Behind(history, n, a), x # a
  PROVE  \E j \in Edges(history, n, a) : x \in Behind(history, n, j)
<1> DEFINE X == {a} \cup {y \in Ids(n) : \E j \in Edges(history, n, a) :
                              y \in Behind(history, n, j)}
<1>1. X \in SUBSET Ids(n) /\ a \in X
  OBVIOUS
<1>2. ASSUME NEW i \in X, NEW y \in Edges(history, n, i) PROVE y \in X
  <2>1. y \in Ids(n)
    BY DEF Edges
  <2>2. CASE i = a
    BY <1>2, <2>1, <2>2, BehindItself
  <2>3. CASE i # a
    <3>1. PICK j \in Edges(history, n, a) : i \in Behind(history, n, j)
      BY <2>3
    <3>2. y \in Behind(history, n, j)
      BY <1>2, <3>1, BehindClosed
    <3> QED BY <2>1, <3>2
  <2> QED BY <2>2, <2>3
<1>3. \A i \in X : Edges(history, n, i) \subseteq X
  BY <1>2
<1> HIDE DEF X
<1>4. x \in X
  BY <1>1, <1>3, BehindLeast
<1> QED BY <1>4 DEF X

\* Two locks that the orders lead to from each other are in a cycle.
LEMMA BehindEachOther ==
  ASSUME NEW history, NEW n, NEW a \in Ids(n), NEW b \in Ids(n), a # b,
         b \in Behind(history, n, a), a \in Behind(history, n, b)
  PROVE  Cycle(history, n)
<1> DEFINE ids == {i \in Behind(history, n, a) : a \in Behind(history, n, i)}
<1>1. ids \subseteq Ids(n) /\ a \in ids
  BY BehindItself DEF Behind
<1>2. ASSUME NEW i \in ids PROVE \E j \in ids : <<i, j>> \in history
  <2>1. \E j \in Edges(history, n, i) : a \in Behind(history, n, j)
    <3>1. CASE i # a
      BY <1>1, <3>1, BehindStarts
    <3>2. CASE i = a
      <4>1. PICK j \in Edges(history, n, a) : b \in Behind(history, n, j)
        BY BehindStarts
      <4>2. a \in Behind(history, n, j)
        BY <4>1, BehindTransitive
      <4> QED BY <3>2, <4>1, <4>2
    <3> QED BY <3>1, <3>2
  <2>2. PICK j \in Edges(history, n, i) : a \in Behind(history, n, j)
    BY <2>1
  <2>3. j \in Behind(history, n, a)
    BY <2>2, BehindClosed
  <2> QED BY <2>2, <2>3 DEF Edges
<1> HIDE DEF ids
<1> QED BY <1>1, <1>2 DEF Cycle

\* The orders lead along a stack.
LEMMA StackLeads ==
  ASSUME NEW history, NEW n, NEW s \in Seq(Ids(n)), Ordered(history, s),
         NEW i \in 1..Len(s)
  PROVE  s[Len(s)] \in Behind(history, n, s[i])
<1> DEFINE m == Len(s) - i
           T == {k \in 0..m : s[i + k] \in Behind(history, n, s[i])}
<1>1. Len(s) \in Nat /\ i \in Nat /\ m \in Nat /\ i + m = Len(s) /\ T \in SUBSET Nat
  OBVIOUS
<1>2. \A k \in 1..Len(s) : s[k] \in Ids(n)
  BY ElementOfSeq
<1>3. 0 \in T
  <2>1. i + 0 = i /\ 0 \in 0..m
    BY <1>1
  <2> QED BY <1>2, <2>1, BehindItself
<1>4. ASSUME NEW k \in 1..m, k - 1 \in T PROVE k \in T
  <2> DEFINE p == i + (k - 1)
  <2>1. /\ p \in 1..(Len(s) - 1) /\ p + 1 = i + k /\ p + 1 \in 1..Len(s) /\ k \in 0..m
    BY <1>1
  <2>2. s[p] \in Behind(history, n, s[i])
    BY <1>4
  <2> HIDE DEF p
  <2>3. CASE s[p] = s[p + 1]
    BY <2>1, <2>2, <2>3
  <2>4. CASE s[p] # s[p + 1]
    <3>1. s[p + 1] \in Edges(history, n, s[p])
      BY <1>2, <2>1, <2>4 DEF Ordered, Edges
    <3>2. s[p + 1] \in Behind(history, n, s[i])
      BY <2>2, <3>1, BehindClosed
    <3> QED BY <2>1, <3>2
  <2> QED BY <2>3, <2>4
<1> HIDE DEF T, m
<1>5. \A k \in 0..m : k \in T
  BY <1>1, <1>3, <1>4, Induction
<1>6. m \in T
  BY <1>1, <1>5
<1> QED BY <1>1, <1>6 DEF T

\* The number of the lock that t waits for.
Wanted(t) == nameToId[NameOf[waiting[t][1].lock]]

\* A waiting thread's stack ends with the lock it waits for.
LEMMA WantedLast ==
  ASSUME ProfilerInv, NEW t \in Callers, waiting[t] # <<>>
  PROVE  /\ stack[t] \in Seq(Ids(LockCount)) /\ Len(stack[t]) \in Nat \ {0}
         /\ Len(stack[t]) = Len(guards[t]) + 1 /\ Len(guards[t]) \in Nat
         /\ Wanted(t) = stack[t][Len(stack[t])] /\ Wanted(t) \in Ids(LockCount)
         /\ NameOf[waiting[t][1].lock] \in DOMAIN nameToId
<1>1. /\ stack[t] \in Seq(Nat) /\ guards[t] \in Seq(Guard) /\ waiting[t] \in Seq(Guard)
      /\ Len(waiting[t]) <= 1 /\ Matches(nameToId, stack[t], guards[t], waiting[t])
  BY DEF ProfilerInv, ProfilerTypeOK, StacksMatch
<1>2. Len(waiting[t]) \in Nat \ {0} /\ \A k \in Nat \ {0} : k <= 1 => k = 1
  BY <1>1, EmptySeq
<1>3. Len(waiting[t]) = 1
  BY <1>1, <1>2
<1>4. Len(guards[t]) \in Nat /\ Len(stack[t]) = Len(guards[t]) + 1
  BY <1>1, <1>3 DEF Matches
<1>5. Numbered(nameToId, stack[t][Len(guards[t]) + 1], waiting[t][1])
  BY <1>1, <1>3 DEF Matches
<1>6. /\ NameOf[waiting[t][1].lock] \in DOMAIN nameToId
      /\ Wanted(t) = stack[t][Len(stack[t])]
  BY <1>4, <1>5 DEF Numbered, Wanted
<1>7. \A x \in DOMAIN nameToId : nameToId[x] \in Ids(LockCount)
  BY DEF ProfilerInv, Table, LockCount
<1>8. ASSUME NEW i \in 1..Len(stack[t]) PROVE stack[t][i] \in Ids(LockCount)
  <2>1. CASE i \in 1..Len(guards[t])
    BY <1>1, <1>7, <2>1 DEF Matches, Numbered
  <2>2. CASE i = Len(guards[t]) + 1
    BY <1>5, <1>7, <2>2 DEF Numbered
  <2> QED BY <1>4, <2>1, <2>2
<1>9. stack[t] \in Seq(Ids(LockCount))
  <2>1. \A S, q : q \in Seq(Nat) /\ (\A i \in 1..Len(q) : q[i] \in S) => q \in Seq(S)
    OBVIOUS
  <2> QED BY <1>1, <1>8, <2>1
<1> QED BY <1>4, <1>6, <1>7, <1>9 DEF Wanted

\* From the lock that t waits for the orders lead to the one that a thread
\* in its way waits for.
LEMMA BlockedLeads ==
  ASSUME ProfilerInv, NEW t \in Callers, NEW u \in BlockedBy(t), waiting[u] # <<>>
  PROVE  Wanted(u) \in Behind(lockHistory, LockCount, Wanted(t))
<1>1. waiting[t] # <<>> /\ u \in Callers
  BY DEF BlockedBy
<1>2. PICK i \in DOMAIN guards[u] : guards[u][i].lock = waiting[t][1].lock
  BY <1>1 DEF BlockedBy, Holds
<1>3. /\ guards[u] \in Seq(Guard) /\ Matches(nameToId, stack[u], guards[u], waiting[u])
      /\ Ordered(lockHistory, stack[u])
  BY <1>1 DEF ProfilerInv, ProfilerTypeOK, StacksMatch, StacksOrdered
<1>4. i \in 1..Len(guards[u])
  BY <1>2, <1>3
<1>5. stack[u][i] = Wanted(t)
  BY <1>2, <1>3, <1>4 DEF Matches, Numbered, Wanted
<1>6. /\ stack[u] \in Seq(Ids(LockCount)) /\ i \in 1..Len(stack[u])
      /\ Wanted(u) = stack[u][Len(stack[u])]
  BY <1>1, <1>4, WantedLast
<1> QED BY <1>3, <1>5, <1>6, StackLeads

\* DeadlocksShareName, of DeadLockProfiler: while there was no alarm, threads
\* that wait for each other in a circle all wait for locks of one name.
THEOREM DeadlocksHaveOneName == ProfilerSpec => []DeadlocksShareName
<1> DEFINE blocked == {t \in Callers : BlockedBy(t) # {}}
           Closed(set) == \A t \in set : BlockedBy(t) \cap blocked \subseteq set
           WaitsFor(t, u) == \A set \in SUBSET blocked : t \in set /\ Closed(set) => u \in set
<1>1. ASSUME ProfilerInv, NEW t \in blocked, NEW u \in blocked, WaitsFor(t, u)
      PROVE  Wanted(u) \in Behind(lockHistory, LockCount, Wanted(t))
  <2> DEFINE set == {v \in blocked : Wanted(v) \in Behind(lockHistory, LockCount, Wanted(t))}
  <2>1. \A v \in blocked : v \in Callers /\ waiting[v] # <<>>
    BY DEF BlockedBy
  <2>2. t \in set
    BY <1>1, <2>1, WantedLast, BehindItself
  <2>3. ASSUME NEW v \in set, NEW w \in BlockedBy(v) \cap blocked PROVE w \in set
    <3>1. Wanted(w) \in Behind(lockHistory, LockCount, Wanted(v))
      BY <1>1, <2>1, <2>3, BlockedLeads
    <3>2. Wanted(w) \in Behind(lockHistory, LockCount, Wanted(t))
      BY <3>1, BehindTransitive
    <3> QED BY <3>2
  <2> QED BY <1>1, <2>2, <2>3
<1>2. ASSUME ProfilerInv, crash = "none", NEW t \in blocked, NEW u \in blocked,
             WaitsFor(t, u), WaitsFor(u, t)
      PROVE  NameOf[waiting[t][1].lock] = NameOf[waiting[u][1].lock]
  <2>1. /\ Wanted(u) \in Behind(lockHistory, LockCount, Wanted(t))
        /\ Wanted(t) \in Behind(lockHistory, LockCount, Wanted(u))
    BY <1>1, <1>2
  <2>2. /\ Wanted(t) \in Ids(LockCount) /\ NameOf[waiting[t][1].lock] \in DOMAIN nameToId
        /\ Wanted(u) \in Ids(LockCount) /\ NameOf[waiting[u][1].lock] \in DOMAIN nameToId
    <3>1. \A v \in blocked : v \in Callers /\ waiting[v] # <<>>
      BY DEF BlockedBy
    <3> HIDE DEF blocked
    <3> QED BY <1>2, <3>1, WantedLast
  <2>3. ~ Cycle(lockHistory, LockCount)
    BY <1>2 DEF ProfilerInv, CrashIfCycle
  <2>4. Wanted(t) = Wanted(u)
    BY <2>1, <2>2, <2>3, BehindEachOther
  <2> QED BY <1>2, <2>2, <2>4 DEF Wanted, ProfilerInv, Table
<1>3. ProfilerInv => DeadlocksShareName
  <2> HIDE DEF blocked, WaitsFor
  <2>1. ProfilerInv /\ crash = "none" =>
          \A t, u \in blocked :
            WaitsFor(t, u) /\ WaitsFor(u, t) =>
              NameOf[waiting[t][1].lock] = NameOf[waiting[u][1].lock]
    BY <1>2
  <2> QED BY <2>1, Zenon DEF DeadlocksShareName, blocked, WaitsFor, Closed
<1> QED BY <1>3, ProfilerInvariance, PTL
=============================================================================
