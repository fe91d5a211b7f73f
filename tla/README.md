# Jam server: a verification project in TLA+

The Jam server (`src/`) is a Windows game-server prototype in C++: `ServerCore`
is an IOCP network core with job queues, locks, sessions and buffers;
`GameServer` is a shooter on top of it, with users, rooms, a tick and physics.
This project models the parts whose correctness depends on the order in which
threads, completions and packets happen, checks them with TLC on small
instances, and proves the central ones with TLAPS for every size.

Contents: [the system](#the-system) ·
[modules and code](#modules-and-the-code-they-model) ·
[runs](#what-the-runs-check) · [bounds](#the-bounds) ·
[fairness](#fairness) · [proofs](#what-is-proved) · [findings](#findings) ·
[limits](#what-is-not-modelled) · [what is left](#what-is-left)

## The system

Threads: the main thread ticks the rooms; network workers loop over
`IocpCore::Dispatch`, `ThreadManager::DistributeReservedJob` and
`DoGlobalQueueWork`; one physics thread runs the physics jobs of the rooms. Any
network worker dequeues any completion, so the handlers of different clients,
the sends and receives of one session, and the jobs of a room all interleave.
Nothing is persisted: there are no crashes to recover from, only sessions that
end.

| Component | State | Operations | Hard because | What makes it correct | Model |
|---|---|---|---|---|---|
| `Lock` | one atomic word (owner id, reader count), `_writeCount` | WriteLock/Unlock, ReadLock/Unlock, re-entrant, with CRASH on misuse or timeout | compare-and-swap races, nesting, write-then-read | exclusion, no crash on disciplined use, no self-deadlock | `RWLock`, `RWLockSpec` |
| `DeadLockProfiler` (debug builds) | names, the graph of orders, each thread's stack | PushLock, PopLock, CheckCycle | discovery order and finish flags across roots and threads | an alarm exactly when the orders have a cycle; no undetected circle of waiting threads | `DeadLockProfiler` |
| `JobQueue`, `GlobalQueue` | `_jobCount`, `_jobs`, the global queue, `LCurrentJobQueue`, `LEndTime` | Push, Execute, hand-over at the end of a slice | counter changed apart from the list; executors change | one executor, FIFO, no job lost or stranded | `JobQueue`, `SerialQueue` |
| `JobTimer` | the heap, `_distributing` | Reserve, Distribute | a flag instead of a lock; firing runs whole queues inside the call; owners expire | each item fired or dropped once, in due order, eventually | `JobTimer` |
| `TcpSession`, `IocpCore` | `_connected`, `_sendQueue`, `_sendRegistered`, one event per kind, the service's set | Send, Disconnect, ProcessConnect/Recv/Send/Disconnect, RegisterX | token passed between threads, failing calls, late completions | order, one user of each event, no lost wake-up, one release | `TcpSession` |
| `SendBuffer`, chunks, pool | `_usedSize`, `_open`, the pool, the thread's chunk, reference counts | Open, Close, Push, Pop, send and drop | a chunk is reused when its last reference goes, on any thread; one buffer goes to many sessions and carries the number of the last | bytes stay while referenced, chunks are conserved, a packet under way is pending under its number | `SendBuffer` |
| `RecvBuffer`, packet parsing | read and write positions, `processLen` | OnWrite, IsParsingPacket, OnRead, Clean | partial packets at both ends | packets whole, once, in order; always room | `RecvBuffer`, `PacketPipe`, `Fifo` |
| `UdpSession` | `_sendSeq`, `_pendingAckMap`, `_receiveHistory`, `_latestSeq` | SendReliable, CheckAndRecordReceiveHistory, GenerateAckBitfield, HandleAck | loss, repetition, reordering, 16-bit wrap-around | each number once, no false acknowledgement, exact pending set | `UdpSession` |
| `UdpReceiver`, UDP half of `Service` | `_remoteAddr`, the one receive event, `_udpSessions`, `_pendingUdpSessions` | Dispatch, FindOrCreateUdpSession, RegisterRecv, ReleaseUdpSession | one unlocked address for all threads; disconnect against dispatch | right session, always one listener, one release | `UdpService` |
| `SessionManager`, handlers, `RoomManager`, `Room` membership | bundles per user id, rooms, players, indices | Add, Remove, Multicast, lookups; login, create, enter, handshake, spawn, tick | references taken before the lock, `operator[]` that inserts, logins again | clients can be found, no dead ones listed, distinct indices for who entered once, capacity | `Lobby` |
| `Room` tick, physics queue, players, shots | physics jobs, controllers, snapshots, rewind scenes | Update, PushToPhysics, AddSnapshot, FindSnapshot, ProcessFire | four kinds of threads and one lock that few of them take; pointers past an unlock | what can destroy a room is known; nobody moves while the scene simulates; rewinding hits what stood there | `RoomTick` |
| `Listener`, `Memory`, sockets, clock, compression, generated code | see `PROJECT.json` | | | | — |

How they interact. A completion becomes `Session::Dispatch` or
`UdpReceiver::Dispatch`; these call `OnRecv`, which calls a packet handler,
which changes users, rooms and sessions directly or pushes a job to the room's
`JobQueue`. Rooms send by `Session::Send`, one buffer to many sessions; every
shared structure is guarded by a `Lock` (`WRITE_LOCK`/`READ_LOCK`) *where it is
guarded at all*. `PROJECT.json` lists all components with their files and the
hazards of the code at their lines, each with the properties that watch it or
the reason why none does.

The modules compose in two ways. By contract: `RWLock` implements the atomic
guards of `RWLockSpec`, and that is why the others may take a body under
`WRITE_LOCK` as one step; `JobQueue` implements `SerialQueue`, and that is why
`Lobby` may run the queued spawn as one step; `TcpSession` shows that a session
has one receive and one send under way and keeps their order, which is what
`RecvBuffer` and `SendBuffer` take for granted; `UdpService` shows that UDP
handlers run one at a time, which `Lobby` and `RoomTick` use. By extension:
`JobTimer` runs on top of the whole `JobQueue`, and `PacketPipe` joins
`SendBuffer` and `RecvBuffer` and shows that together they are a `Fifo`.

## Modules and the code they model

`PROJECT.json` maps every definition to its lines. What follows is the
correspondence a reader needs first. In each module, operators marked `Fault`
describe a plausible bug and are used by no specification; they stand next to
the definition they alter and show that the properties can fail.

**RWLockSpec / RWLock** (`ServerCore/Lock.cpp`). The specification has the
guards a thread holds and four atomic actions. `RWLock` has the word
`lockFlag` and one action per load, store or compare-and-swap, with a `pc`
per thread; `_writeCount` is not atomic, so it is read and written in steps of
its own. A compare-and-swap fails exactly when the word has changed. The spin
counter is abstracted: a spinning thread may time out and CRASH whenever the
lock is not free for it. Guards are scoped objects, so releases are last in,
first out.

**DeadLockProfiler** (`DeadLockProfiler.cpp`, the calls in `Lock.cpp`). A guard
tells the profiler its name *before* it waits; `nameToId`, `lockHistory` and the
thread's `stack` are the code's, and `Dfs` is its search, with discovery order,
finish flags and ascending sets, restarted from every lock. It is written as a
function of the depth of the calls, of what the search has done and of the lock,
so that it can be proved about; `_parent`, which only the printout reads, is
left out. The locks below are
`RWLockSpec`'s. Names are those of classes: two rooms' locks share one. The
profiler exists in debug builds only.

**SerialQueue / JobQueue** (`JobQueue.cpp`, `GlobalQueue.cpp`,
`ThreadManager.cpp`). `SerialQueue`: each queue runs its jobs one at a time in
the order they were linked. `JobQueue`: `Push` counts (`fetch_add`), links
under the queue's lock, and starts, offers or leaves; `Execute` pops all, runs
one by one, subtracts, and ends or hands over by the clock. A job may push to
its own or another queue, so `push` and `exec` of one thread nest. The slice is
nondeterministic: at every test of the clock it may have ended.

**JobTimer** (`JobTimer.cpp`, `ThreadManager.cpp`). `Reserve` reads the clock
before the lock and adds the item under it; `Distribute` tries the flag, takes
everything due under the lock, and fires item by item outside it. Firing is a
`Push`, and the first one may run the queue on the spot, so `dist` nests `push`
and `exec`. Items of one time leave the heap in any order. A queue whose last
reference is gone `Expire`s, and its items are dropped. (No code of the server
calls `DoTimer` yet; the module says what it may rely on.)

**TcpSession** (`Session.cpp:29-312`). One session, any threads. `kernel` is
the set of operations outstanding; a completion with bytes, without bytes or
with an error is dispatched by any idle thread. Each WSA call may succeed or fail
with an error that disconnects or with one `HandleError` only logs. `owned`
holds the events whose `owner` keeps the session alive. `wire` is history.

**SendBuffer** (`SendBuffer.cpp`, `ClientPacketHandler.h:169-184`, `Room.cpp:155`,
and the sends of `Session.cpp`). A byte of a chunk is the number of the buffer that
wrote it last; `holders` are the references of a buffer (the thread that made
it, the TCP queue, each UDP session's pending map), and the chunk goes back to
the pool in the very step in which its last buffer and its thread let it go.
The kernel reads a buffer between the call and the completion, at any time
(`TcpRead`, `UdpRead`); a WSASend that fails with an error `HandleError` only
logs drops the whole batch, and the session goes on (`SendFails`).

`SendReliable` is five steps of its thread: the load of `_sendSeq++`, its store,
the number written into the shared buffer, the entry in `_pendingAckMap` (which
overwrites one under the same number), and the send, for which no reference is
kept. `HandleAck` erases any entry the client names, got or not. `taken`, `twice`,
`got` and `astray` are history: numbers taken, taken by two threads, read by the
kernel, and read in another packet's place or acknowledged without having been
read; `restamped` marks a datagram whose buffer was numbered for another session
while it was on its way.

**RecvBuffer** (`RecvBuffer.cpp`, `Session.cpp:212-284` with `IsParsingPacket`). The
stream is a sequence of packets with start and size; a cell of the buffer holds
the stream position of its byte, so what `OnRecv` is given can be compared with
the packet it should be. `Clean` is the code's: it moves the rest only when
the space behind it is *large*.

**PacketPipe / Fifo**. `PacketPipe` feeds the bytes `SendBuffer`'s kernel read to
`RecvBuffer`, and states that the packets under way are a queue (`Fifo`) of two
parts: what waits for the kernel, of which a failed WSASend may lose a head, and
what the kernel has taken, of which nothing is lost. The
receiver begins when the senders are done: TCP keeps the stream, so whatever it
could have received earlier it can receive then, and the product of the two
state spaces is avoided.

**UdpSession** (`Session.cpp:333-515`, `ClientPacketHandler.h:96-123`). A
sender of any number of threads, a network, and a receiver with the same code.
`wire` and `acks` are sets that only grow, and a step may take any member any
number of times: that is loss, repetition and reordering. `Increment` reads
and writes `_sendSeq` in two steps, as the unlocked `_sendSeq++` may;
`raced` remembers that two threads were between them. The sizes (65536, 1024,
32) are constants with the relation the properties need.

**UdpService** (`UdpReceiver.cpp`, `Service.cpp:86-141`, `Session.cpp:325-412`,
`GameUdpSession.cpp`). `receive` is the one receive and `remoteAddr` the member
the kernel writes; a thread that dequeued a completion reads it, finds or
creates the session under the service's lock, runs the handler and registers
the next receive. Any idle thread may start a disconnect. A datagram is one
packet. A handshake may name any user id and may come again, to a session that
has one already: `Handle_C_HANDSHAKE` sets the id and adds to the bundle of the
new one, and `Remove` clears the bundle of the id the session has *then*,
whoever is in it, so `bundles` and `id` are kept by user id.

**Lobby** (`SessionManager.cpp`, `UserManager.cpp`, `RoomManager.h/.cpp`,
`Room.cpp:134-291`, `ClientPacketHandler.cpp`). Each client is the thread of
its own handlers, UDP handlers are serialised by the single receive, and the
tick, the spawn job and completions run beside them. `map[key]` inserts what it
does not find (`WithKey`), whether or not the caller wanted it. A reference taken
before the lock is remembered with its holder; when the entry is erased in
between, the holder is `dangling`. A client may log in again and shake hands as
often as it likes, under each id it was given, and come back with a new UDP
session. Where the program would dereference null or
run past an array, `failure` names it and the model stops.

**RoomTick** (`Room.cpp`, `PhysicsManager.cpp`, `PhysicsWorker`, `Player.cpp`).
One room, its physics queue and the one thread that runs it, the main thread's
ticks, TCP handlers that enter and UDP handlers that shoot. `Enter` holds the
write lock across its steps; the loops over `_players` and every use of a found
snapshot are outside any lock, and the model says so: `Iterating` (the tick and
the physics thread), `HandlerReads` (handlers that list or look up users,
multicasts and the queued spawn, which need no tick and no readiness), `moved`.
Rewind scenes are kept by `_playerIndex`, as the code keeps them: two players
who share an index share a scene. Players are numbered objects; an object dies
when nobody refers to it, and physics jobs and snapshots hold raw pointers. What
undefined behaviour may destroy is named by `failure`; the same step may as well
go unnoticed.

## What the runs check

Deadlock is checked where the system never stops (`rwlock`); elsewhere
`CHECK_DEADLOCK FALSE`, because the bounded sends, jobs, datagrams or logins run
out, or the modelled program has stopped.

| Run | Instance | Distinct states | Shows |
|---|---|---|---|
| `rwlock` | 3 threads, nesting 2, reader mask 6 | 63,792 | no misuse crash, every spinner waits for a runner, and the refinement of `RWLockSpec` |
| `deadlock_profiler` | 3 threads, 4 locks in 3 classes (two objects in one, with shared readers), depth 2 | 725,588 | an alarm exactly when the recorded orders have a cycle; threads that wait in a circle without one all wait for locks of one name |
| `jobqueue` | 2 workers + main, 2 queues, 4 jobs | 66,468 | one token per queue, no counted queue forgotten, and the refinement of `SerialQueue` |
| `timed_jobs` | 2 workers, 1 queue, 3 jobs, 2 timers, 2 points in time | 36,299 | each timed job in one place, fired in due order, fired or dropped in the end; every linked job runs |
| `tcp_session` | 3 threads, 3 sends, 2 receives | 240,499 | one user of each event, a receive always armed, one release, order on the wire, session pinned; accepted buffers leave; a lost session is reclaimed |
| `packet_pipe` | 2 threads, 2 UDP peers, packets of 1, 2 or 4 bytes, chunks of 3, 3 buffers, 3 numbers, receive buffer of 5 | 1.07 million | bytes stay while referenced, chunks conserved, numbers as pending but for the races named, always room, and the refinement of `Fifo` |
| `udp_session` | 2 threads, 20 numbers, window 4, bitfield 2, 5 sends | 125,118 | each number recorded once and, in the first window, always; no false acknowledgement; exact pending set |
| `udp_window` | the same | violation | the window never slides, see Findings |
| `udp_service` | 3 threads, 2 clients, 3 sessions, 2 user ids, 4 datagrams | 199,444 | packets reach the session of their sender, one listener, released sessions listed only as explained |
| `lobby` | 2 clients, 3 logins, 1 room of 2 | 2.49 million | clients stay findable, dead bundles only as explained, an index shared only by who entered twice, compatible removals |
| `lobby_capacity` | 2 clients, 3 logins, 1 room of 1 | violation | a full room admits one more, see Findings |
| `room_tick` | 2 users, 3 player objects, 2 ticks, 2 shots, window 0 | 5.51 million | what can destroy a room, snapshots ordered and fresh, what a rewound ray may hit, no move during a simulation |

`lobby` has a CONSTRAINT: exploration stops at two logins that read
the same `userId` (`UserManager.cpp:10`, unlocked). From there two clients
share an id and no statement by id means anything; the states up to and
including the race are checked. Rooms keep their players whatever becomes of the
sessions, so a room with a second player is followed only while every client is
connected by TCP and has not shaken hands: neither bears on the indices, and one
player is enough for what the directory of sessions does to a room. `packet_pipe`
explores two families of behaviours, one beside the other: packets of all sizes
with at most one number given out, acknowledged when it was got, and numbers
given by two threads, for two peers, to two small packets that TCP does not get,
of which at most one goes astray.

Properties about losses name their exceptions where the code has them.
`EverySendLeaves` (like the proved `NoStall`, `RecvArmed`) excludes sessions on
which WSASend or WSARecv failed with an error that `HandleError` only logs;
`PendingExact`, `FreshRecorded` and `NoFalseAck` speak of the first window,
since bits of the history are never cleared; the proved `NumbersDistinct`
excludes the race on `_sendSeq`. `NumberExplained` excepts a buffer numbered again for another
session while on its way, a number two threads took in that race, one that
another packet's datagram carried (its acknowledgement erases the wrong entry),
and one the client acknowledged without having got it. (`UdpSession::Update`,
which would send again and number again, has no caller.) `ImplementsFifo` lets a
WSASend that fails lose what it was given. `ListedAlive` excepts sessions that
shook hands under another id later, which stay in the bundle of the first, and
handshakes handled while the session disconnects. `FailureExplained` names
players who enter a room that is ready (a missing controller, a map that changes
under the tick or the physics thread), any second entry (a map that changes under
a multicast or a queued spawn, ready or not) and users who enter twice (freed
players); a handler that lists or looks up users while any player enters, a shot
before the first snapshot, a tick in the middle of a shot, and a hit whose
shooter has no UDP session need no explanation and are claimed of nobody.
`RewindExplained` excepts the scenes that misses left behind: of the same player,
or after a second entry of a player with the same index. `IndicesDistinct`
excepts users who entered twice, `NoDeadSession` sessions closed in the middle of
a login or with an earlier id.
These exceptions are the behaviours of the code a maintainer should know of;
each is a hazard in `PROJECT.json`. `AlwaysRoom` has a premise of another kind:
no receive brings more than the buffer less one packet and `BufferSize` bytes.
A receive asks for all free space, so a peer that sends faster than the server
parses can exceed it and is then disconnected.

## The bounds

*rwlock*: three threads give an owner, a reader and a spinner at once; nesting
two reaches re-entrance and reads under writes; the mask is the smallest the
assumption allows, so a count too many would overflow. *deadlock_profiler*:
three classes are the longest cycle three threads can close, two objects of one
class show what shared names hide, depth two is what an order needs. *jobqueue*:
two queues let a job push elsewhere, two workers race for the global queue, and
four jobs refill a queue during a batch, at its end and after its hand-over.
*timed_jobs*: two workers contend for the flag, two timers at two times have an
order, three pushes refill the queue that a fired item runs. *tcp_session*: one
thread sends, one handles the completion, one disconnects; three sends leave one
queued behind one on the wire and one in the event. *packet_pipe*: chunks of
three hold two of the smaller packets and not the largest, so a thread changes
chunks, a pooled chunk is written again and a packet is too long; four chunks
are more than two threads and three buffers can pin; a WSASend may fail at any
time; two threads race for a number of one peer, two peers number one buffer
again, three numbers do both; five bytes of receive buffer with packets of up to
two leave partial packets at both ends. *udp_session*: five sends are one more
than the window, so the boundary is crossed; 20 numbers satisfy `4 * WindowSize
+ 1 < SeqMod`, as 65536 and 1024 do. *udp_service*: three threads are a
dispatcher, a disconnector and a second one; three sessions for two clients let
a client come back, and four datagrams under two user ids are a handshake, one
under another id, and one after the disconnect. *lobby*: two clients and three
logins reach a client that logs in again beside another. In a room of two the
strict test is met by a third player, and a user enters again before and behind
another. *lobby_capacity*: a room for one is crossed by two. *room_tick*: three
objects for two users let one user enter twice beside another, two ticks put a
second simulation behind a first and expire a snapshot (window 0 keeps those of
the current time only, and ticks may share a time), two shots of one player are
a miss and the shot after it.

## Fairness

`JobTimer!FairTimerSpec`: the clock ticks; weak fairness of each thread inside
Push, Execute, Reserve or Distribute (threads are scheduled, jobs return);
strong fairness of each worker's turn at Distribute and of its visits to the
global queue. The latter assumes that completions keep a worker's loop turning
inside its slice: the slice is set before a wait of up to 10 ms on the
completion port and is itself 10 ms (`ThreadManager.cpp:53`, `Game.cpp:85-100`),
so a server that receives nothing may never serve the global queue.
`EveryJobRuns` is a statement about a server with traffic.

`TcpSession!FairSpec`: weak fairness of each thread inside a call, of the
dispatch of a send's completion and of a disconnect's. Windows completes those
operations; the completion of a *receive* is not fair, a peer may be silent.

## What is proved

Each `*Proofs` module has an inductive invariant, the lemmas of its steps, one
step per action, and the theorems, for every value of the constants the named
assumptions allow. TLC checked each invariant first. Some properties that runs
no longer repeat are proved here (`MutualExclusion`, `ReadersCounted`,
`CountExact`, `NoStall`, `NeverEmptySend`, `NumbersDistinct`, `CrashExplained`,
`ReleaseFinds`, and the type invariants).

**LockProofs**, about `RWLock` (assumes `ThreadsAssumption`, `WidthAssumption`:
finitely many threads whose nested guards fit the reader half).
`MutualExclusion` alone is not inductive: `IInv` adds who owns the word while
write guards or the steps around them exist (`Ownership`), that `_writeCount` is
the owner's depth (`Depth`), that readers exclude other threads' ownership
(`ReadersAlone`), and that the word's low half counts the guards (`Counted`).
From it follow `TypeCorrect`, `Exclusion`, `MisuseFree`, `CountFits`,
`NoSelfDeadlock`, and `Refinement`: the word-level algorithm implements
`RWLockSpec`.

**LockProofs**, about `DeadLockProfiler` (assumes `ProfilerAssumption`). First
the search, for every graph of orders: a call of `Dfs` that returns leaves its
lock finished, the finished locks closed under the orders and free of cycles
(`Sound`), and the calls around it as they were (`Onward`); the calls that have
not returned lead to the innermost one (`Path`), so an order back to one of them
closes a cycle (`BackEdge`). By induction on how deep the search may still go
(`Works`), which the locks not yet discovered bound, `CheckCycleExact`: the
search finds a cycle exactly if there is one. The induction is over sets of
numbers (`Induction`, from the well-foundedness of the numbers), and values of
recursive functions come from `Repeated`. Then the state: `ProfilerInv` says
that every name has its own number (`Table`), that a stack has the numbers of
its thread's guards and of the one it waits for (`StacksMatch`), that what
follows in a stack is an order (`StacksOrdered`), and `CrashIfCycle`. From it
`AlarmIsExact`, and `DeadlocksHaveOneName`: from the lock a thread waits for,
the orders lead along the stack of whoever is in its way (`StackLeads`), so a
circle through two names would be a cycle (`BehindEachOther`).

**JobQueueProofs.** `OneToken` needs that the executor's queue is counted and
that a starter's job is linked, so `IInv` is the shape of the records
(`Shape`), the exact account of every count (`Counts`), the exclusion of
starters, executors and offers (`Exclusive`, `NoDuplicates`) and
`NeverStranded`. Theorems: `TypeCorrect`, `SingleExecutor`, `NoLostQueue`,
`CountIsExact`, and `Refinement`: `JobQueue` implements `SerialQueue`. The
mapping shows what the unique executor has popped in front of what is linked
(`View`); with `BatchIdle` (no batch between two rounds) `Link` is a `Submit`,
`Run` a `Start`, `Return` a `Finish`, and every other step shows nothing.

**TcpSessionProofs.** The two events are shared by a token and by the kernel;
`OneSender` needs who may hold the token at each place (`InvToken`), that
whoever is about to send finds something (`InvQueue`), that a session begins
(`InvFresh`) and ends (`InvEnd`) once, what a failed call leaves behind
(`InvFailed`), and which owner pointers are set (`InvPinned`). The order on the
wire is a second invariant (`InvWire`): what has been sent, what the event holds
and what is queued are ascending, one behind the other. Theorems: `TypeCorrect`,
`SendEventOwned`, `RecvEventOwned`, `KernelPins`, `StreamInOrder`,
`SendsSomething`, `QueueServed`, `KeepsListening`, `ReleasedOnce`.

**JobTimer, in the same module.** A second invariant (`TimerInv`) says that the
flag makes one distributor (`InvDistribute`), that what it holds is in the order
of its times (`InvDue`), and that each number given out is in exactly one of
five places: a thread that reserves, the heap, a distributor's hand, fired,
dropped (`InvNumbers`, `InvPlaces`). Theorems: `NoTimerLost`, `DueOrder`, and
`TimerKeepsQueue`: every step of the timer is one of `JobQueue` or leaves the
queues alone, so `TimedJobsSerial`: with timers too, `SerialQueue` is
implemented.

**PacketPipeProofs** (assumes `SendBufferAssumption`, `BufferAssumption` and
`PipeAssumption`: sizes that fit a chunk are sizes of packets), in three parts.
The sending half is ownership of chunks: a
chunk is the current one of one thread, or popped by one, or kept by live
buffers, or in the pool once (`InvCurrent`, `InvPopped`, `InvPool`, `InvKept`);
the buffers of a chunk lie one behind the other below its used part
(`InvArea`, `InvChunk`), each written by its own number (`InvBytes`); what a
thread holds at each step is `InvMaker` and `InvHolders`. The numbers are an
invariant of their own on top of it (`UdpInv`): an entry keeps its buffer, one for
each peer (`InvPending`); a buffer is put down and sent once for each peer
(`InvOnce`); a number was taken, by two buffers only if two threads took it, and
nobody got it before unless in another's place (`InvNumbers`); and what a thread
has done of `SendReliable` (`InvPosted`). `NumberExplained` alone is not
inductive, because an entry is erased by a number while the datagram is known by
its buffer. Theorems: `TypeCorrect`, `BytesStay`, `NoChunkLost`, `NoOtherCrash`,
`NumbersOnTheWay`.

In the receiving half, packets tile the stream
(`InvStream`), the parser stands at the next packet (`InvCursor`), the cells
between the positions hold the last bytes that arrived (`InvContents`), and
under `AlwaysRoom`'s premise the read position returns to the front
(`InvRoom`). Theorems: `RecvTypeCorrect`, `PacketsInOrder` (whatever the
receives are cut into), `RoomForEveryReceive`.

The pipe joins them: its steps are steps of the halves (`PipeSends`,
`PipeReceives`), so both invariants hold of it. A buffer is given to the TCP
session once and stays held until the kernel has read it (`InvTcp`), so by
`BytesStay` the bytes of each packet on the wire are one buffer's (`InvWire`).
With that, Send appends to what waits, TcpRead takes its head, a failed WSASend
loses a head of it, OnRecv takes the head of what is on the way, and nothing else
shows: `PacketsGetThrough`, the refinement of `Fifo`.

**UdpSessionProofs** (assumes `UdpAssumption`). `RecordedAtMostOnce` holds
without bound on the numbers: a number is recorded only when its bit is new
(`RecordedInv`). The sender's half (`SenderInv`) holds until the numbers wrap,
so `DistinctNumbers` assumes `MaxSends + 1 < SeqMod`. The receiver's half
(`ReceiverInv`) holds in the first window, where numbers have distinct bits
(`BitInjective`): `FreshIsRecorded`, `AcksAreTrue`, `PendingIsExact`.

**UdpServiceProofs** (assumes `ServiceAssumption`). `RightSession` is about a
member no lock protects; what protects it is `OneListener`, with the sender's
address followed from the kernel to the thread (`ReceiverInv`). The sessions'
half is that a leaving session has one thread and is still registered
(`LeavingInv`), and that it is removed under the id it has, so that the bundle of
that id has it no longer when it is released, unless it shook hands meanwhile
(`RemovedInv`). Theorems: `TypeCorrect`,
`PacketsReachTheirSession`, `ListensUntilFailure`, `ListedUntilReleased`,
`ReleaseNeverAsserts`.

**LobbyProofs** (assumes `LobbyAssumption`). The directory takes references
before its lock, so the invariant (`LobbyInv`) follows a session from the step
that reads its id to the one that inserts or erases: it is in the bundle of its
id from Add to Remove (`InvAdded`), no bundle has it afterwards but under an
earlier id (`InvClosed`), a reference is one into the map or is `dangling`
(`InvReferences`, `InvDangling`), all because an id belongs to one client
(`InvIds`, `InvSessions`). Past a race of two logins only the types and
`InvReferences` are claimed. `InvRooms` counts: indices are below the number of
a room's players, and two who share one are not both once-entered (`Indexed`).
Theorems: `FoundUntilClosed`, `RemovedForGood`, `RemovalsSafe`, `OwnIndex`.

**RoomTickProofs** (assumes `RoomAssumption`). Everything rests on the order of
the physics queue: controllers of players who were in time are made before
anything of a tick (`InvReady`, `InvEarly`), each simulate is fetched before the
next move (`InvFetched`), and every actor has its controller or a job that will
make it (`InvControlled`). A changing map under the tick or the physics thread
needs a late entry, because both begin when the room is ready. Theorems:
`TypeCorrect`, `OnlyEntriesDestroy` (the part of `FailureExplained` about
entering), `PhysicsKeepsOrder`, `RewindOnlyMisses` (from `InvRewind` and a third
invariant, `Indexed`: players of a room nobody entered twice have different
indices). A second invariant (`Snap`) is about the snapshots: they are in order
and not of the future, so a new one is inserted last (`InsertedLast`), survives
the expiry that follows (`ExpireKeeps`), and whatever a snapshot, a shot or a
scene names has been made (`InvBuffer`, `InvSeen`). From it `BufferUsable` and
`FailuresKnown`. The expiry is a recursive function, and the one induction about
it is written with a least counterexample (`LeastNumber`, from the
well-foundedness of the numbers).

Model-checked only. Liveness (`EveryJobRuns`, `TimersFire`, `EverySendLeaves`,
`Reclaimed`) and whatever needs ENABLED, which the prover does not support.
Every other property the passing runs check is a theorem.

## Findings

* **The receive window never slides** (`Session.cpp:491`, run `udp_window`).
  The number just above a full window is inside the window by line 488 and its
  bit is still set from the number one window earlier, so it is refused as a
  duplicate: after 1024 recorded numbers, all are.
* **A full room admits one more** (`Room.cpp:138`, run `lobby_capacity`). The
  test is `>`; the extra player's index is past the arrays sized by
  `MAX_PLAYERS_PER_ROOM`.

Lesser observations, most of them hazards in `PROJECT.json`: a refused duplicate
is still handled; `GetRoomByRoomId` inserts null rooms (`RoomManager.h:18`); the
tick iterates maps others change; one `_sendEvent` of a UDP session serves all
its sends without a token (`Session.cpp:378`); the packets of one datagram are
all parsed, but `OnRecv` is given the first one's address each time
(`UdpReceiver.cpp:141`); a shot before the first tick reads an empty buffer; a
shot that misses leaves its rewind scene behind; the profiler raises its alarm
for a thread that takes A, B and A again, which no deadlock needs and `Lock`'s
re-entrance allows (`Lock.cpp:14` and its comment).

## What is not modelled

The map of `PROJECT.json` names about a tenth of the repository's implementation
lines. Two thirds of them (`Protocol.pb.*`, `Struct.pb.*`, `Enum.pb.*`) are
generated by protoc and hold no logic of this program; of the hand-written third
the following is left out.

* `Listener`: a fixed pool of accept events, each re-armed by its own
  completion. What can go wrong is one line (`Listener.cpp:92`), which a model
  would restate; it is a hazard with that note.
* `Memory`: allocators over an interlocked list of the operating system;
  `BufferReader`/`BufferWriter`: no caller.
* Sockets, addresses, clock, log, singletons, type lists, command-line tools:
  wrappers and set-up without state a property is about.
* Floating-point motion, physics shapes and the compression of transforms.
  `RoomTick` lets a ray hit anything its scene holds, or nothing.
* The parsing of a UDP datagram into packets, and unreliable UDP sends.
* The operating system beyond which calls complete and how. Undefined behaviour
  inside a container (two threads in one `unordered_map`) has no list of
  outcomes: `RoomTick` names the step, other modules list it as a hazard.
* `UdpSession::Update` (retransmission), `JobQueue::ClearJobs`,
  `JobTimer::Clear`, `Room::Leave`, `RoomManager::RemoveRoom`,
  `RegisterConnect`, `GameContextManager`: no caller in the server. A second
  physics worker, and with it the stealing of slots: the server starts one.

## What is left

In the order of use: a `Listener` that runs out of accept events once a policy
for re-arming exists; `UdpSession::Update` once something calls it, since
retransmission meets the numbers written into shared buffers.
