------------------------------ MODULE RoomTick ------------------------------
(***************************************************************************)
(* One room while it is played: the main thread's ticks, the queue of      *)
(* physics jobs and the one thread that runs them, players who enter, and  *)
(* the snapshots and rewind scenes a shot is judged with.                  *)
(*                                                                         *)
(* Four kinds of threads meet here.  TCP handlers enter players, one UDP   *)
(* handler at a time processes inputs (UdpService shows there is one), the *)
(* main thread ticks, the physics thread runs jobs.  The room's lock is    *)
(* taken by Enter, AddSnapshot, FindSnapshot and BuildRewindScene only:    *)
(* every read of _players and every use of a found snapshot is outside.    *)
(*                                                                         *)
(* Players are objects, numbered as they are made; 0 stands for the actors *)
(* the room makes itself, which live as long as it does.  The room is not  *)
(* full (Lobby shows what its limit allows).  Positions, rays and          *)
(* velocities are left out: a ray hits anything its scene holds, or        *)
(* nothing.  What undefined behaviour may destroy is named by `failure',   *)
(* where the model stops; the same step may as well go unnoticed.          *)
(***************************************************************************)
EXTENDS Naturals, Sequences, SequencesExt, FiniteSets

CONSTANTS
  Users,
  MaxObjects,   \* bound: Player objects made
  MaxTicks,     \* bound: calls of Room::Update that do something
  MaxShots,     \* bound: inputs with the fire key
  Window        \* how long a snapshot is kept (0.5 s), in steps of the clock

ASSUME RoomAssumption == {MaxObjects, MaxTicks, MaxShots, Window} \subseteq Nat

VARIABLES
  queue,        \* _physicsQueue
  physics,      \* the physics thread: "idle", or "moving" the players
  controllers,  \* actors whose _controller is set
  manager,      \* _pxControllerManager is set
  simulating,   \* between simulate and fetchResults
  isReady,      \* _isReady
  players,      \* _players: user to Player object
  index,        \* _playerIndex of each Player object
  made,         \* Player objects made so far
  entering,     \* the user and object inside Enter, which holds the write lock
  clock, ticks, \* server time as the main thread advances it; ticks done
  tick,         \* where the main thread is in Update, and what it captured
  snapshots,    \* _snapshotBuffer
  fire,         \* the UDP handler inside ProcessFire
  firing,       \* objects with _isFireInProgress
  rewind,       \* what is in the rewind scenes, each at a player's index
  shots,        \* shots tried
  failure,      \* what has destroyed the server, or "none"
  late,         \* history: objects whose Enter overlapped or followed isReady
  reentered,    \* history: a user has entered twice
  missed        \* history: times of each object's missed shots since the scene
                \* of its index was cleared

roomVars == <<isReady, players, index, made, entering, late, reentered>>
physicsVars == <<physics, controllers, manager, simulating>>
tickVars == <<clock, ticks, tick>>
fireVars == <<firing, rewind, shots, missed>>
vars == <<queue, physicsVars, roomVars, tickVars, snapshots, fire, fireVars, failure>>

Objects == 1..MaxObjects
Actors == 0..MaxObjects
Times == 0..MaxTicks

Job(kind) == [kind |-> kind, who |-> 0]

Create(n) == [kind |-> "create", who |-> n]

NoTick == [pc |-> "idle", time |-> 0, seen |-> {}]
NoFire ==
  [pc |-> "idle", who |-> 0, time |-> 0, entities |-> {}, moved |-> FALSE]

\* Room::Init has pushed these jobs by the time the room can be found, and
\* between them one that adds the floor and touches nothing modelled here.
Init ==
  /\ queue = <<Job("manager"), Job("bot")>>
  /\ physics = "idle" /\ controllers = {} /\ manager = FALSE /\ simulating = FALSE
  /\ isReady = FALSE /\ players = [u \in Users |-> 0] /\ made = 0
  /\ index = [n \in Objects |-> 0]
  /\ entering = {} /\ late = {} /\ reentered = FALSE
  /\ clock = 0 /\ ticks = 0 /\ tick = NoTick
  /\ snapshots = <<>>
  /\ fire = NoFire /\ firing = {} /\ shots = 0
  /\ rewind = {} /\ missed = [n \in Objects |-> {}]
  /\ failure = "none"

Running == failure = "none"

\* A Player lives as long as a handler or _players refers to it.
Alive(n) ==
  \/ n \in {0, fire.who}
  \/ \E u \in Users : players[u] = n \/ <<u, n>> \in entering

Present == {u \in Users : players[u] # 0}

InRoom == {players[u] : u \in Present}

\* The write lock is held across the steps of Enter only.
LockFree == entering = {}

\* The tick or the physics thread is in a loop over _players.
Iterating == physics = "moving" \/ tick.pc \in {"capture", "sync"}

\* What a changing map may catch a handler or a queued spawn at.  Any handler
\* that makes or enters a room lists the users of all, and any that looks for
\* its user's room looks into all.  Once a user is here, C_ENTER_GAME may
\* multicast, and so may the spawn one has asked for, even before SetIsReady.
HandlerReads ==
  {"list changed"} \cup {"multicast changed" : u \in Present}

Fail(why) ==
  /\ failure' = why
  /\ UNCHANGED <<queue, physicsVars, roomVars, tickVars, snapshots, fire, fireVars>>

-----------------------------------------------------------------------------
(* Room::Enter, on the thread of the user's TCP handler *)

\* Fault: nobody asks for the player's controller.
EnterWithoutController(u) ==
  /\ Running /\ LockFree /\ made < MaxObjects
  /\ made' = made + 1
  /\ entering' = {<<u, made'>>}
  /\ late' = IF isReady THEN late \cup {made'} ELSE late
  /\ UNCHANGED <<queue, isReady, players, index, reentered, physicsVars, tickVars,
                 snapshots, fire, fireVars, failure>>

\* WRITE_LOCK and Player::Init: the job that makes the controller is queued.
EnterInit(u) ==
  /\ Running /\ LockFree /\ made < MaxObjects
  /\ made' = made + 1
  /\ entering' = {<<u, made'>>}
  /\ queue' = Append(queue, Create(made'))
  /\ late' = IF isReady THEN late \cup {made'} ELSE late
  /\ UNCHANGED <<isReady, players, index, reentered, physicsVars, tickVars,
                 snapshots, fire, fireVars, failure>>

\* The index is the size of _players before the insertion, which lets an
\* earlier Player of the user go.
EnterInsert(u, n) ==
  /\ Running /\ <<u, n>> \in entering
  /\ index' = [index EXCEPT ![n] = Cardinality(Present)]
  /\ players' = [players EXCEPT ![u] = n]
  /\ entering' = {}
  /\ late' = IF isReady THEN late \cup {n} ELSE late
  /\ reentered' = (reentered \/ players[u] # 0)
  /\ UNCHANGED <<queue, isReady, made, physicsVars, tickVars, snapshots, fire,
                 fireVars>>
  /\ \/ UNCHANGED failure
     \/ Iterating /\ failure' = "players changed"
     \/ failure' \in HandlerReads

\* Handle_C_SPAWN_ACTOR of a user the room knows.
SetIsReady(u) ==
  /\ Running /\ players[u] # 0
  /\ isReady' = TRUE
  /\ UNCHANGED <<queue, players, index, made, entering, late, reentered,
                 physicsVars, tickVars, snapshots, fire, fireVars, failure>>

-----------------------------------------------------------------------------
(* Room::Update, on the main thread *)

Goto(pc) == tick' = [tick EXCEPT !.pc = pc]

TickUnchanged ==
  UNCHANGED <<physicsVars, roomVars, clock, ticks, fire, fireVars, failure>>

\* The main loop may catch up: two ticks at one time.
TickBegin ==
  /\ Running /\ tick.pc = "idle" /\ ticks < MaxTicks
  /\ isReady
  /\ ticks' = ticks + 1
  /\ \E passed \in {0, 1} : clock' = clock + passed
  /\ tick' = [pc |-> "capture", time |-> clock', seen |-> {0} \cup InRoom]
  /\ UNCHANGED <<queue, physicsVars, roomVars, snapshots, fire, fireVars, failure>>

\* Fault: everything is kept.
ExpireNothing(buffer, time) == buffer

\* remove_if: what is older than half a second goes, the others move up.
Expire(buffer, time) ==
  LET kept[n \in 0..Len(buffer)] ==
        IF n = 0 THEN <<>>
        ELSE IF buffer[n].time + Window >= time THEN Append(kept[n - 1], buffer[n])
        ELSE kept[n - 1]
  IN  kept[Len(buffer)]

\* upper_bound and insert: behind everything that is not later.
InsertSorted(buffer, snapshot) ==
  LET upTo == {i \in DOMAIN buffer : buffer[i].time <= snapshot.time}
      at == IF upTo = {} THEN 1 ELSE 1 + CHOOSE i \in upTo : \A j \in upTo : j <= i
  IN  InsertAt(buffer, at, snapshot)

\* AddSnapshot, under the write lock.  A pointer FindSnapshot has handed out
\* may not outlive the insertion.
AddSnapshot ==
  /\ Running /\ tick.pc = "capture" /\ LockFree
  /\ snapshots' = Expire(
       InsertSorted(snapshots, [time |-> tick.time, entities |-> tick.seen]), tick.time)
  /\ fire' = [fire EXCEPT !.moved = (fire.pc # "idle")]
  /\ Goto("simulate")
  /\ UNCHANGED <<queue, physicsVars, roomVars, clock, ticks, fireVars, failure>>

PushJob(pc, kind, next) ==
  /\ Running /\ tick.pc = pc
  /\ queue' = Append(queue, Job(kind))
  /\ Goto(next)
  /\ UNCHANGED snapshots
  /\ TickUnchanged

PushSimulate == PushJob("simulate", "simulate", "fetch")

PushFetch == PushJob("fetch", "fetch", "move")

\* Two pushes in one step: the one job another thread could put between them
\* makes a player's controller, which moveBots does not look at.
PushMoves ==
  /\ Running /\ tick.pc = "move"
  /\ queue' = queue \o <<Job("moveBots"), Job("movePlayers")>>
  /\ Goto("sync")
  /\ UNCHANGED snapshots
  /\ TickUnchanged

\* MulticastSyncActor has read every player.
TickEnd ==
  /\ Running /\ tick.pc = "sync"
  /\ tick' = NoTick
  /\ UNCHANGED <<queue, snapshots>>
  /\ TickUnchanged

Tick ==
  \/ TickBegin \/ AddSnapshot
  \/ PushSimulate \/ PushFetch \/ PushMoves
  \/ TickEnd

-----------------------------------------------------------------------------
(* PhysicsWorker::TryExecute: the physics thread pops a job and runs it *)

\* Fault: the newest job is run first.
NextNewest == Len(queue)

\* LockQueue::TryPop takes the oldest.
NextOldest == 1

PopJob(kind) ==
  /\ Running /\ physics = "idle"
  /\ queue # <<>>
  /\ queue[NextOldest].kind = kind
  /\ queue' = RemoveAt(queue, NextOldest)

PhysicsUnchanged ==
  UNCHANGED <<roomVars, tickVars, snapshots, fire, fireVars>>

RunManager ==
  /\ PopJob("manager")
  /\ manager' = TRUE
  /\ UNCHANGED <<physics, controllers, simulating, failure>>
  /\ PhysicsUnchanged

MakeController(n) ==
  /\ IF manager /\ Alive(n)
     THEN controllers' = controllers \cup {n} /\ UNCHANGED failure
     ELSE /\ failure' = IF manager THEN "freed player" ELSE "null manager"
          /\ UNCHANGED controllers
  /\ UNCHANGED <<physics, manager, simulating>>
  /\ PhysicsUnchanged

RunCreateBot == PopJob("bot") /\ MakeController(0)

RunCreatePlayer ==
  /\ PopJob("create") /\ MakeController(queue[NextOldest].who)

RunSimulate ==
  /\ PopJob("simulate")
  /\ simulating' = TRUE
  /\ UNCHANGED <<physics, controllers, manager, failure>>
  /\ PhysicsUnchanged

RunFetch ==
  /\ PopJob("fetch")
  /\ simulating' = FALSE
  /\ UNCHANGED <<physics, controllers, manager, failure>>
  /\ PhysicsUnchanged

RunMoveBots ==
  /\ PopJob("moveBots")
  /\ failure' = IF 0 \in controllers THEN "none" ELSE "null controller"
  /\ UNCHANGED physicsVars
  /\ PhysicsUnchanged

RunMovePlayers ==
  /\ PopJob("movePlayers")
  /\ physics' = "moving"
  /\ UNCHANGED <<controllers, manager, simulating, failure>>
  /\ PhysicsUnchanged

\* Player::Update of everyone: _controller->move.
MovedPlayers ==
  /\ Running /\ physics = "moving"
  /\ IF InRoom \subseteq controllers
     THEN UNCHANGED failure
     ELSE failure' = "null controller"
  /\ physics' = "idle"
  /\ UNCHANGED <<queue, controllers, manager, simulating>>
  /\ PhysicsUnchanged

Physics ==
  \/ RunManager \/ RunCreateBot \/ RunCreatePlayer
  \/ RunSimulate \/ RunFetch \/ RunMoveBots \/ RunMovePlayers \/ MovedPlayers

-----------------------------------------------------------------------------
(* Player::ProcessFire, in the UDP handler *)

FireUnchanged == UNCHANGED <<queue, physicsVars, roomVars, tickVars, snapshots>>

\* The handler returns, and with it its reference to the player.
Done(n) ==
  /\ firing' = firing \ {n}
  /\ fire' = NoFire

\* lower_bound: the first snapshot that is not earlier than the shot.
FirstFrom(time) ==
  CHOOSE i \in DOMAIN snapshots :
    /\ snapshots[i].time >= time
    /\ \A j \in 1..(i - 1) : snapshots[j].time < time

\* FindSnapshot under the read lock.  The buffer's front and back are read
\* even if there is none.
Fire(u, time) ==
  /\ Running /\ fire.pc = "idle" /\ shots < MaxShots /\ LockFree
  /\ players[u] # 0 /\ players[u] \notin firing
  /\ shots' = shots + 1
  /\ UNCHANGED <<rewind, missed>>
  /\ FireUnchanged
  /\ IF snapshots = <<>>
     THEN failure' = "no snapshot" /\ UNCHANGED <<fire, firing>>
     ELSE /\ UNCHANGED failure
          /\ IF \A i \in DOMAIN snapshots : snapshots[i].time < time
             THEN Done(players[u])
             ELSE LET found == snapshots[FirstFrom(time)]
                  IN  /\ firing' = firing \cup {players[u]}
                      /\ fire' = [NoFire EXCEPT !.pc = "found", !.who = players[u],
                           !.time = found.time, !.entities = found.entities]

Lost == fire.moved /\ Fail("snapshot moved")

Look ==
  /\ Running /\ fire.pc = "found"
  /\ \/ Lost
     \/ /\ fire.who \notin fire.entities
        /\ Done(fire.who)
        /\ UNCHANGED <<rewind, shots, missed, failure>>
        /\ FireUnchanged

\* The index of the player that shoots.
Slot == index[fire.who]

Entities ==
  {[slot |-> Slot, time |-> fire.time, who |-> n] : n \in fire.entities}

\* BuildRewindScene, under the write lock, adds to what the scene holds.
BuildRewindScene ==
  /\ Running /\ fire.pc = "found" /\ LockFree
  /\ fire.who \in fire.entities
  /\ rewind' = rewind \cup Entities
  /\ fire' = [fire EXCEPT !.pc = "built"]
  /\ UNCHANGED <<firing, shots, missed, failure>>
  /\ FireUnchanged

\* The camera's ray meets nothing: "No Target", and the scene stays as it is.
NoTarget ==
  /\ Running /\ fire.pc = "built"
  /\ missed' = [missed EXCEPT ![fire.who] = @ \cup {fire.time}]
  /\ Done(fire.who)
  /\ UNCHANGED <<rewind, shots, failure>>
  /\ FireUnchanged

\* Fault: a shot that hits leaves the scene as it is too.
ClearNothing(slot) == UNCHANGED rewind

ClearRewindScene(slot) == rewind' = {e \in rewind : e.slot # slot}

\* The camera's ray hits.  The muzzle's ray is cast from the shooter's
\* position in the snapshot and the scene is cleared.  If the muzzle has a
\* target, the hit is sent to the session found for the user, if there is one
\* (Lobby), and the target is looked into through its entity's raw pointer.
Shoot ==
  /\ Running /\ fire.pc = "built"
  /\ \/ Lost
     \/ /\ ClearRewindScene(Slot)
        /\ missed' = [n \in Objects |-> IF index[n] = Slot THEN {} ELSE missed[n]]
        /\ Done(fire.who)
        /\ UNCHANGED shots
        /\ FireUnchanged
        /\ \/ UNCHANGED failure
           \/ failure' = "null session"
           \/ \E target \in rewind :
                /\ target.slot = Slot /\ ~ Alive(target.who)
                /\ failure' = "freed target"

FireStep == Look \/ BuildRewindScene \/ NoTarget \/ Shoot

-----------------------------------------------------------------------------
Next ==
  \/ \E u \in Users : EnterInit(u) \/ SetIsReady(u)
  \/ \E u \in Users, n \in Objects : EnterInsert(u, n)
  \/ Tick
  \/ Physics
  \/ \E u \in Users, time \in Times : Fire(u, time)
  \/ FireStep

Spec == Init /\ [][Next]_vars

-----------------------------------------------------------------------------
(* Correctness *)

Kinds ==
  {"manager", "bot", "simulate", "fetch", "moveBots", "movePlayers"}

Jobs == [kind : Kinds, who : {0}] \cup [kind : {"create"}, who : Objects]

Failures ==
  {"none", "null manager", "null controller", "players changed", "list changed",
   "multicast changed", "freed player", "no snapshot", "snapshot moved",
   "null session", "freed target"}

\* Every place holds what it should; a job that makes a controller names its
\* player.  (Of the snapshots speaks SnapshotsUsable.)
TypeOK ==
  /\ queue \in Seq(Jobs)
  /\ physics \in {"idle", "moving"}
  /\ controllers \subseteq Actors
  /\ {manager, simulating, isReady, reentered} \subseteq BOOLEAN
  /\ players \in [Users -> Actors] /\ made \in Actors
  /\ index \in [Objects -> Nat]
  /\ entering \subseteq Users \X Objects
  /\ ticks \in Times /\ clock \in 0..ticks
  /\ tick.pc \in {"idle", "capture", "simulate", "fetch", "move", "sync"}
  /\ fire.pc \in {"idle", "found", "built"} /\ fire.who \in Actors
  /\ firing \subseteq Objects /\ late \subseteq Objects
  /\ shots \in 0..MaxShots
  /\ failure \in Failures

\* What entering can do to the threads that play is known.  While nobody enters
\* a room that is ready, no job meets a missing controller and neither the tick
\* nor the physics thread a changing map; while nobody enters twice, no job
\* meets a freed player; the controller manager is never missing.  A handler
\* that looks a user up or lists them may meet a changing map at any entry; one
\* that multicasts, and a queued spawn, at any but the first.
EntriesExplained ==
  /\ failure # "null manager"
  /\ failure \in {"null controller", "players changed"} => late # {}
  /\ failure = "multicast changed" => made > 1
  /\ failure = "freed player" => reentered

\* What can destroy the room is known: entries, as above, and for a shot as for
\* a job a player who enters twice.  (A handler's look at the users, a shot
\* before the first snapshot, a tick in the middle of a shot, and a hit after
\* the user's UDP session was removed need no such help.)
FailureExplained ==
  /\ EntriesExplained
  /\ failure = "freed target" => reentered

\* Physics jobs keep their order against each other and against players who
\* enter: nobody is moved, and only a late player's controller is made,
\* between simulate and fetchResults.
PhysicsOrdered ==
  [][simulating => /\ physics' = "idle"
                   /\ controllers' \ controllers \subseteq late]_vars

\* Rewinding may search the buffer: it is ordered by time, holds nothing
\* older than the window, and never runs empty once a tick has filled it.
SnapshotsUsable ==
  /\ \A i, j \in DOMAIN snapshots :
       i <= j => /\ snapshots[i].time <= snapshots[j].time
                 /\ snapshots[j].time <= snapshots[i].time + Window
  /\ snapshots = <<>> => ticks = 0 \/ (ticks = 1 /\ tick.pc = "capture")

\* When a ray is cast, what it may hit was in the snapshot of the shot; or stood
\* there at the time of a miss since the scene was last cleared, which was the
\* same player's unless a user has entered twice and two players share an index.
RewindExplained ==
  fire.pc = "built" =>
    \A e \in rewind : e.slot = Slot =>
      \/ e.time = fire.time
      \/ \E n \in Objects : /\ e.time \in missed[n] /\ index[n] = Slot
                            /\ n = fire.who \/ reentered
=============================================================================
