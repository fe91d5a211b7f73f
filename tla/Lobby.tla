------------------------------- MODULE Lobby --------------------------------
(***************************************************************************)
(* The game server's directory of users, sessions and rooms: UserManager,  *)
(* SessionManager, RoomManager, the players of a Room and the packet       *)
(* handlers that use them.  A client has one TCP session, whose handlers   *)
(* run one after another on some network thread, and one UDP session; the  *)
(* handlers of all UDP sessions run one after another.  Handlers of        *)
(* different clients, the completion of a disconnect, the queued spawn of  *)
(* a room and the tick of the main thread interleave.                      *)
(*                                                                         *)
(* A pointer that is null when it is dereferenced, an index past the end   *)
(* of an array, or a reference into a map whose entry is gone stops the    *)
(* server: `failure' names it.  Clients follow the protocol: they know     *)
(* their user id from S_LOGIN and shake hands with it, as often as they    *)
(* like; a client whose UDP session is gone gets another one.              *)
(***************************************************************************)
EXTENDS Naturals, FiniteSets

CONSTANTS
  Clients,
  NoClient,     \* a null session pointer
  NoRoom,       \* a null room pointer
  MaxLogins,    \* bound: user ids handed out
  MaxRooms,     \* bound: room ids
  MaxPlayers    \* MAX_PLAYERS_PER_ROOM

ASSUME LobbyAssumption ==
  /\ NoClient \notin Clients
  /\ {MaxLogins, MaxRooms, MaxPlayers} \subseteq Nat

Users == 1..MaxLogins
RoomIds == 1..MaxRooms

VARIABLES
  nextUserId,   \* the static counter of UserManager::Login
  nextRoomId,   \* IdManager's counter of rooms
  tcp,          \* TCP session of each client: "open", "closing", "closed"
  udp,          \* UDP session of each client: "absent", "open", "closing"
  id, udpId,    \* their Session::_id
  bundles,      \* SessionManager::_sessionMap: user id to its two sessions
  rooms,        \* RoomManager::_rooms: room id to its players and _isReady
  spawns,       \* rooms with a queued MulticastSpawnActor
  pc, arg,      \* handler of each TCP session, and its user or room
  gone, udpGone, \* id under which Remove looks up each TCP and UDP session
  dangling,     \* holders of a reference to a bundle that has been erased
  udpPc,        \* the handler of the UDP receiver: "idle", or the client whose
                \* session it is adding
  failure,      \* why the server stopped, or "none"
  raced,        \* history: two handlers have been inside `userId++' at once
  cut,          \* history: sessions closed in the middle of their login
  reentered     \* history: who has entered which room while being in it

vars == <<nextUserId, nextRoomId, tcp, udp, id, udpId, bundles, rooms, spawns,
          pc, arg, gone, udpGone, udpPc, dangling, failure, raced, cut, reentered>>

\* Abbreviations for what a step leaves alone.
sessionVars == <<tcp, udp, id, udpId, gone, udpGone, cut>>
handlerVars == <<pc, arg, udpPc>>
bundleVars == <<bundles, dangling>>
roomVars == <<rooms, nextRoomId, reentered>>

Init ==
  /\ nextUserId = 1 /\ nextRoomId = 1
  /\ tcp = [c \in Clients |-> "open"] /\ udp = [c \in Clients |-> "absent"]
  /\ id = [c \in Clients |-> 0] /\ udpId = [c \in Clients |-> 0]
  /\ bundles = [u \in {} |-> NoClient]
  /\ rooms = [r \in {} |-> NoRoom]
  /\ spawns = {}
  /\ pc = [c \in Clients |-> "idle"] /\ arg = [c \in Clients |-> 0]
  /\ udpPc = NoClient
  /\ failure = "none"
  /\ gone = [c \in Clients |-> 0] /\ udpGone = [c \in Clients |-> 0]
  /\ dangling = {}
  /\ raced = FALSE /\ cut = {} /\ reentered = {}

Running == failure = "none"

Goto(c, place) == pc' = [pc EXCEPT ![c] = place]

\* f with key k, bound to v if it was absent: what operator[] does to a map.
WithKey(f, k, v) == [x \in DOMAIN f \cup {k} |-> IF x \in DOMAIN f THEN f[x] ELSE v]
Without(f, k) == [x \in DOMAIN f \ {k} |-> f[x]]

EmptyBundle == [tcp |-> NoClient, udp |-> NoClient]

\* Handlers start on an open session that is not in a handler already.
Idle(c) == Running /\ tcp[c] = "open" /\ pc[c] = "idle"

-----------------------------------------------------------------------------
(* SessionManager *)

\* The reference `_sessionMap[id]' is taken before the lock.
Touch(u) == bundles' = WithKey(bundles, u, EmptyBundle) /\ UNCHANGED dangling

\* What GetSessionByUserId leaves behind for users it does not know.
TouchAll(us) ==
  /\ UNCHANGED dangling
  /\ bundles' = [u \in DOMAIN bundles \cup us |->
                  IF u \in DOMAIN bundles THEN bundles[u] ELSE EmptyBundle]

\* Who holds a reference to the bundle of u between taking it and the lock:
\* the logins, the handshake, and the removals of both kinds of session.
Holders(u) ==
  {<<c, "login">> : c \in {d \in Clients : pc[d] = "put" /\ id[d] = u}}
  \cup {<<c, "handshake">> : c \in {d \in Clients : udpPc = d /\ udpId[d] = u}}
  \cup {<<c, "tcp">> : c \in {d \in Clients : tcp[d] = "closing" /\ gone[d] = u}}
  \cup {<<c, "udp">> : c \in {d \in Clients : udp[d] = "closing" /\ udpGone[d] = u}}

\* Fault: Add makes a new bundle.
PutNew(holder, u, kind, c) ==
  IF holder \in dangling
  THEN failure' = "dangling bundle" /\ UNCHANGED bundleVars
  ELSE /\ bundles' = [bundles EXCEPT ![u] = [EmptyBundle EXCEPT ![kind] = c]]
       /\ UNCHANGED <<dangling, failure>>

\* Add, under the lock, through the reference of holder.
Put(holder, u, kind, c) ==
  IF holder \in dangling
  THEN failure' = "dangling bundle" /\ UNCHANGED bundleVars
  ELSE bundles' = [bundles EXCEPT ![u][kind] = c] /\ UNCHANGED <<dangling, failure>>

\* Fault: the test for an empty bundle comes before the session is cleared.
TakeEarly(holder, u, kind) ==
  IF holder \in dangling
  THEN failure' = "dangling bundle" /\ UNCHANGED bundleVars
  ELSE /\ bundles' = IF bundles[u] = EmptyBundle THEN Without(bundles, u) ELSE bundles
       /\ dangling' = IF bundles[u] = EmptyBundle THEN dangling \cup (Holders(u) \ {holder})
                      ELSE dangling
       /\ UNCHANGED failure

\* Fault: the bundle goes with either session.
TakeBoth(holder, u, kind) ==
  IF holder \in dangling
  THEN failure' = "dangling bundle" /\ UNCHANGED bundleVars
  ELSE /\ bundles' = Without(bundles, u)
       /\ dangling' = dangling \cup (Holders(u) \ {holder})
       /\ UNCHANGED failure

\* Remove, under the lock, through the reference of holder: a bundle with no
\* session left is erased.
Take(holder, u, kind) ==
  LET b == [bundles[u] EXCEPT ![kind] = NoClient]
  IN  IF holder \in dangling
      THEN failure' = "dangling bundle" /\ UNCHANGED bundleVars
      ELSE /\ bundles' = IF b = EmptyBundle THEN Without(bundles, u)
                         ELSE [bundles EXCEPT ![u] = b]
           /\ dangling' = IF b = EmptyBundle THEN dangling \cup (Holders(u) \ {holder})
                          ELSE dangling
           /\ UNCHANGED failure

\* Multicast to every TCP session dereferences them all.
MulticastFails == \E u \in DOMAIN bundles : bundles[u].tcp = NoClient

-----------------------------------------------------------------------------
(* Handle_C_LOGIN *)

\* The load of `userId++' in UserManager::Login.
Login(c) ==
  /\ Idle(c)
  /\ nextUserId <= MaxLogins
  /\ arg' = [arg EXCEPT ![c] = nextUserId]
  /\ raced' = (raced \/ \E d \in Clients : pc[d] = "login")
  /\ Goto(c, "login")
  /\ UNCHANGED <<nextUserId, sessionVars, bundleVars, roomVars, spawns, udpPc, failure>>

\* The store, and SetId.
SetId(c) ==
  /\ Running
  /\ pc[c] = "login"
  /\ nextUserId' = arg[c] + 1
  /\ id' = [id EXCEPT ![c] = arg[c]]
  /\ arg' = [arg EXCEPT ![c] = 0]
  /\ Goto(c, "add")
  /\ UNCHANGED <<tcp, udp, udpId, gone, udpGone, cut, bundleVars, roomVars, spawns, udpPc, failure, raced>>

AddTouch(c) ==
  /\ Running
  /\ pc[c] = "add"
  /\ Touch(id[c])
  /\ Goto(c, "put")
  /\ UNCHANGED <<nextUserId, sessionVars, roomVars, spawns, arg, udpPc, failure, raced>>

\* Then S_LOGIN tells the client its id.
AddPut(c) ==
  /\ Running
  /\ pc[c] = "put"
  /\ Put(<<c, "login">>, id[c], "tcp", c)
  /\ Goto(c, "idle")
  /\ UNCHANGED <<nextUserId, sessionVars, roomVars, spawns, arg, udpPc, raced>>

-----------------------------------------------------------------------------
(* Handle_C_CREATE_ROOM and Handle_C_ENTER_ROOM *)

NewRoom == [players |-> [u \in {} |-> 0], ready |-> FALSE]

\* IdManager hands out the next id; AddRoom's insert keeps what is there.
CreateRoom(c) ==
  /\ Idle(c)
  /\ id[c] # 0
  /\ nextRoomId <= MaxRooms
  /\ nextRoomId' = nextRoomId + 1
  /\ rooms' = WithKey(rooms, nextRoomId, NewRoom)
  /\ arg' = [arg EXCEPT ![c] = nextRoomId]
  /\ Goto(c, "enter")
  /\ UNCHANGED <<nextUserId, sessionVars, bundleVars, reentered, spawns, udpPc,
                 failure, raced>>

\* GetRoomByRoomId finds the room.
EnterRoom(c) ==
  /\ Idle(c)
  /\ id[c] # 0
  /\ \E r \in DOMAIN rooms : rooms[r] # NoRoom /\ arg' = [arg EXCEPT ![c] = r]
  /\ Goto(c, "enter")
  /\ UNCHANGED <<nextUserId, sessionVars, bundleVars, roomVars, spawns, udpPc, failure, raced>>

\* GetRoomByRoomId does not: operator[] inserts a null room, the handler
\* prints that it cannot find the room and returns.
EnterUnknownRoom(c) ==
  /\ Idle(c)
  /\ id[c] # 0
  /\ \E r \in RoomIds \ DOMAIN rooms : rooms' = WithKey(rooms, r, NoRoom)
  /\ UNCHANGED <<nextUserId, sessionVars, bundleVars, nextRoomId, reentered, spawns,
                 handlerVars, failure, raced>>

Members(r) == DOMAIN rooms[r].players

\* SetPlayerIndex(_players.size()), before the player is added.
Index(r) == Cardinality(Members(r))

Full(r) == Cardinality(Members(r)) > MaxPlayers

\* Fault: the index is the user's old one.
AdmitSame(r, u) ==
  rooms' = [rooms EXCEPT ![r].players = WithKey(@, u, 0)]

Admit(r, u) ==
  rooms' = [rooms EXCEPT ![r].players =
             [x \in DOMAIN @ \cup {u} |-> IF x = u THEN Index(r) ELSE @[x]]]

\* Room::Enter, under the room's lock; its result is not looked at.  The
\* color is read at the player's index, past the end for one too large.  A new
\* room that AddRoom did not insert is entered too, and then forgotten.
Enter(c) ==
  /\ Running
  /\ pc[c] = "enter"
  /\ IF rooms[arg[c]] = NoRoom \/ Full(arg[c])
     THEN UNCHANGED <<rooms, reentered, failure>>
     ELSE /\ Admit(arg[c], id[c])
          /\ reentered' = IF id[c] \in Members(arg[c]) THEN reentered \cup {<<arg[c], id[c]>>}
                          ELSE reentered
          /\ \/ UNCHANGED failure
             \/ Index(arg[c]) >= MaxPlayers /\ failure' = "index out of bounds"
  /\ arg' = [arg EXCEPT ![c] = 0]
  /\ Goto(c, "reply")
  /\ UNCHANGED <<nextUserId, sessionVars, bundleVars, nextRoomId, spawns, udpPc, raced>>

\* The reply, GetRoomList over all rooms, and its multicast to all users.
Reply(c) ==
  /\ Running
  /\ pc[c] = "reply"
  /\ failure' = IF \E r \in DOMAIN rooms : rooms[r] = NoRoom THEN "null room"
                ELSE IF MulticastFails THEN "null session" ELSE failure
  /\ Goto(c, "idle")
  /\ UNCHANGED <<nextUserId, sessionVars, bundleVars, roomVars, spawns, arg, udpPc, raced>>

-----------------------------------------------------------------------------
(* Handle_C_ENTER_GAME, Handle_C_HANDSHAKE, Handle_C_SPAWN_ACTOR *)

\* What GetRoomByUserId may find: a room the user is in, nothing, or a null
\* room met on the way, in the order of the hash map.
RoomsOf(u) == {r \in DOMAIN rooms : rooms[r] # NoRoom /\ u \in Members(r)}
MeetsNullRoom == \E r \in DOMAIN rooms : rooms[r] = NoRoom

\* GetRoomByUserId, and Room::Multicast to the TCP sessions of the room.
EnterGame(c) ==
  /\ Idle(c)
  /\ id[c] # 0
  /\ \/ MeetsNullRoom /\ failure' = "null room" /\ UNCHANGED bundleVars
     \/ \E r \in RoomsOf(id[c]) : TouchAll(Members(r)) /\ UNCHANGED failure
  /\ UNCHANGED <<nextUserId, sessionVars, roomVars, spawns, handlerVars, raced>>

\* A datagram with the client's own user id: SetId, reference, then Add.  It
\* comes to the client's UDP session, closing or not, or makes a new one; the
\* client may have logged in again since the last.
Handshake(c) ==
  /\ Running
  /\ udpPc = NoClient
  /\ id[c] # 0 /\ pc[c] \notin {"add", "put"} /\ c \notin cut
  /\ udp' = [udp EXCEPT ![c] = IF @ = "absent" THEN "open" ELSE @]
  /\ udpId' = [udpId EXCEPT ![c] = id[c]]
  /\ Touch(id[c])
  /\ udpPc' = c
  /\ UNCHANGED <<nextUserId, tcp, id, gone, udpGone, cut, roomVars, spawns, pc, arg,
                 failure, raced>>

HandshakePut ==
  /\ Running
  /\ udpPc # NoClient
  /\ Put(<<udpPc, "handshake">>, udpId[udpPc], "udp", udpPc)
  /\ udpPc' = NoClient
  /\ UNCHANGED <<nextUserId, sessionVars, roomVars, spawns, pc, arg, raced>>

\* DoAsync(MulticastSpawnActor) and SetIsReady on the user's room.
SpawnActor(c) ==
  /\ Running
  /\ udpPc = NoClient
  /\ udp[c] # "absent"
  /\ \/ /\ MeetsNullRoom \/ RoomsOf(udpId[c]) = {}
        /\ failure' = "null room"
        /\ UNCHANGED <<rooms, spawns>>
     \/ \E r \in RoomsOf(udpId[c]) :
          /\ spawns' = spawns \cup {r}
          /\ rooms' = [rooms EXCEPT ![r].ready = TRUE]
          /\ UNCHANGED failure
  /\ UNCHANGED <<nextUserId, sessionVars, bundleVars, nextRoomId, reentered,
                 handlerVars, raced>>

\* The queued job dereferences the UDP session of every player of the room.
SpawnJob ==
  /\ Running
  /\ \E r \in spawns :
       /\ spawns' = spawns \ {r}
       /\ TouchAll(Members(r))
       /\ failure' = IF \E u \in Members(r) : bundles'[u].udp = NoClient
                     THEN "null session" ELSE failure
  /\ UNCHANGED <<nextUserId, sessionVars, roomVars, handlerVars, raced>>

-----------------------------------------------------------------------------
(* The main thread's tick: RoomManager::Update, Room::MulticastSyncActor *)

ReadyMembers == UNION {Members(r) : r \in {q \in DOMAIN rooms : rooms[q] # NoRoom /\ rooms[q].ready}}

Tick ==
  /\ Running
  /\ IF MeetsNullRoom THEN failure' = "null room" /\ UNCHANGED bundleVars
     ELSE TouchAll(ReadyMembers) /\ UNCHANGED failure
  /\ UNCHANGED <<nextUserId, sessionVars, roomVars, spawns, handlerVars, raced>>

-----------------------------------------------------------------------------
(* OnDisconnected: SessionManager::Remove.  Nothing else of the user goes.  *)

\* The id is read and the reference taken before the lock.
CloseTcp(c) ==
  /\ Running
  /\ tcp[c] = "open"
  /\ tcp' = [tcp EXCEPT ![c] = "closing"]
  /\ gone' = [gone EXCEPT ![c] = id[c]]
  /\ cut' = IF pc[c] \in {"login", "add", "put"} THEN cut \cup {c} ELSE cut
  /\ Touch(id[c])
  /\ UNCHANGED <<nextUserId, udp, id, udpId, udpGone, roomVars, spawns, handlerVars,
                 failure, raced>>

RemoveTcp(c) ==
  /\ Running
  /\ tcp[c] = "closing"
  /\ tcp' = [tcp EXCEPT ![c] = "closed"]
  /\ Take(<<c, "tcp">>, gone[c], "tcp")
  /\ UNCHANGED <<nextUserId, udp, id, udpId, gone, udpGone, cut, roomVars, spawns, handlerVars,
                 raced>>

CloseUdp(c) ==
  /\ Running
  /\ udp[c] = "open"
  /\ udp' = [udp EXCEPT ![c] = "closing"]
  /\ udpGone' = [udpGone EXCEPT ![c] = udpId[c]]
  /\ Touch(udpId[c])
  /\ UNCHANGED <<nextUserId, tcp, id, udpId, gone, cut, roomVars, spawns,
                 handlerVars, failure, raced>>

RemoveUdp(c) ==
  /\ Running
  /\ udp[c] = "closing"
  /\ udp' = [udp EXCEPT ![c] = "absent"]
  /\ Take(<<c, "udp">>, udpGone[c], "udp")
  /\ udpGone' = [udpGone EXCEPT ![c] = 0]
  /\ UNCHANGED <<nextUserId, tcp, id, udpId, gone, cut, roomVars, spawns,
                 handlerVars, raced>>

-----------------------------------------------------------------------------

Next ==
  \/ \E c \in Clients :
       \/ Login(c) \/ SetId(c) \/ AddTouch(c) \/ AddPut(c)
       \/ CreateRoom(c) \/ EnterRoom(c) \/ EnterUnknownRoom(c)
       \/ Enter(c) \/ Reply(c) \/ EnterGame(c)
       \/ Handshake(c) \/ SpawnActor(c)
       \/ CloseTcp(c) \/ RemoveTcp(c) \/ CloseUdp(c) \/ RemoveUdp(c)
  \/ HandshakePut
  \/ SpawnJob
  \/ Tick

Spec == Init /\ [][Next]_vars

-----------------------------------------------------------------------------
(* Correctness *)

\* A client that has logged in and is still connected is found under its id,
\* whatever the others do: no Add, Remove or lookup of theirs takes it away.
SessionsFindable ==
  ~ raced => \A c \in Clients :
    tcp[c] = "open" /\ id[c] # 0 /\ pc[c] \notin {"add", "put"}
      => id[c] \in DOMAIN bundles /\ bundles[id[c]].tcp = c

\* A session that Remove has seen does not come back, unless it was removed in
\* the middle of its own login, or had logged in again under another id.
NoDeadSession ==
  ~ raced => \A u \in DOMAIN bundles : \A c \in Clients :
    bundles[u].tcp = c /\ tcp[c] = "closed" => c \in cut \/ u # id[c]

\* Two players of a room share an index, and with it a color and a rewind scene,
\* only if one of them has entered the room a second time: whoever entered once
\* keeps its index for itself among all who did, whatever the others do.
IndicesDistinct ==
  \A r \in DOMAIN rooms : rooms[r] # NoRoom =>
    \A u, v \in Members(r) :
      rooms[r].players[u] = rooms[r].players[v] =>
        u = v \/ <<r, u>> \in reentered \/ <<r, v>> \in reentered

\* Two removals never invalidate each other's references: when a bundle is
\* erased between the reference and the lock of somebody else, that one was
\* adding its session, had been closed while adding it, or never logged in.
RemovalsCompatible ==
  ~ raced => \A h \in dangling :
    \/ h[2] \in {"login", "handshake"}
    \/ h[2] = "tcp" /\ (h[1] \in cut \/ gone[h[1]] = 0)
    \/ h[2] = "udp" /\ <<h[1], "handshake">> \in dangling

\* A room never has more players than MAX_PLAYERS_PER_ROOM.
RoomWithinCapacity ==
  \A r \in DOMAIN rooms :
    rooms[r] # NoRoom => Cardinality(Members(r)) <= MaxPlayers
=============================================================================
