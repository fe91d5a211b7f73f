---------------------------- MODULE LobbyProofs ----------------------------
(***************************************************************************)
(* Proofs about Lobby, for any clients and any bounds on ids and rooms.    *)
(*                                                                         *)
(* LobbyInv says where a session is between the steps of its login, its    *)
(* handshake and its removal: in the bundle of its id from Add to Remove;  *)
(* that a user id belongs to one client; and that a reference taken before *)
(* the lock is one into the map, or is in `dangling'.  All but the types   *)
(* and the references is claimed only until two logins race on the         *)
(* counter, after which two clients may share an id.  InvRooms counts the  *)
(* players of a room.                                                      *)
(***************************************************************************)
EXTENDS Lobby, Integers, TLAPS, FiniteSetTheorems

-----------------------------------------------------------------------------
(* The invariant *)

SessionStates == {"absent", "open", "closing", "closed"}
HandlerPlaces == {"idle", "login", "add", "put", "enter", "reply"}
Bundles == [tcp : Clients \cup {NoClient}, udp : Clients \cup {NoClient}]

\* What the steps of the directory tell apart.
LobbyTypeOK ==
  /\ nextUserId \in Nat \ {0}
  /\ tcp \in [Clients -> SessionStates] /\ udp \in [Clients -> SessionStates]
  /\ id \in [Clients -> Nat] /\ udpId \in [Clients -> Nat]
  /\ gone \in [Clients -> Nat] /\ udpGone \in [Clients -> Nat]
  /\ bundles \in [DOMAIN bundles -> Bundles]
  /\ pc \in [Clients -> HandlerPlaces]
  /\ arg = [c \in Clients |-> arg[c]] /\ \A c \in Clients : pc[c] = "login" => arg[c] \in Nat
  /\ udpPc \in Clients \cup {NoClient}
  /\ raced \in BOOLEAN /\ cut \subseteq Clients
  /\ dangling \subseteq Clients \X {"login", "handshake", "tcp", "udp"}

\* User id u is, or was when it closed, the one of a session of c.
Owns(c, u) == u # 0 /\ u \in {id[c], udpId[c], gone[c], udpGone[c]}

\* No two clients have an id in common; the next one is nobody's, and only one
\* handler at a time is about to hand it out.
InvIds ==
  /\ \A c, d \in Clients : \A u \in Nat : Owns(c, u) /\ Owns(d, u) => c = d
  /\ \A c \in Clients : \A u \in Nat : Owns(c, u) => u < nextUserId
  /\ \A c \in Clients : pc[c] = "login" => arg[c] = nextUserId
  /\ \A c, d \in Clients : pc[c] = "login" /\ pc[d] = "login" => c = d

\* A session between SetId and Add has a new id.  Without having been closed in
\* its login a closed session keeps the id under which Remove looks for it.
InvSessions ==
  /\ \A c \in Clients : pc[c] \in {"add", "put"} =>
       id[c] # 0 /\ udpId[c] # id[c] /\ udpGone[c] # id[c]
  /\ \A c \in Clients : tcp[c] \in {"closing", "closed"} /\ c \notin cut =>
       gone[c] = id[c] /\ pc[c] \notin {"login", "add", "put"}
  /\ \A c \in Clients : tcp[c] # "absent"
  /\ \A c \in Clients : udp[c] # "absent" \/ udpPc = c => udpId[c] # 0
  /\ \A c \in Clients : udp[c] = "closing" => udpGone[c] # 0

\* Whoever has taken a reference finds its bundle, or the reference dangles.
InvReferences ==
  \A c \in Clients :
    /\ pc[c] = "put" /\ <<c, "login">> \notin dangling => id[c] \in DOMAIN bundles
    /\ udpPc = c /\ <<c, "handshake">> \notin dangling => udpId[c] \in DOMAIN bundles
    /\ tcp[c] = "closing" /\ <<c, "tcp">> \notin dangling => gone[c] \in DOMAIN bundles
    /\ udp[c] = "closing" /\ <<c, "udp">> \notin dangling => udpGone[c] \in DOMAIN bundles

InBundle(c, u, kind) == u \in DOMAIN bundles /\ bundles[u][kind] = c

\* A session is in the bundle of its id from Add to Remove.
InvAdded ==
  /\ \A c \in Clients :
       tcp[c] = "open" /\ id[c] # 0 /\ pc[c] \notin {"add", "put"} => InBundle(c, id[c], "tcp")
  /\ \A c \in Clients :
       tcp[c] = "closing" /\ c \notin cut /\ gone[c] # 0 => InBundle(c, gone[c], "tcp")
  /\ Running => \A c \in Clients :
       /\ udp[c] = "open" /\ udpPc # c => InBundle(c, udpId[c], "udp")
       /\ udp[c] = "closing" /\ ~ (udpPc = c /\ udpId[c] = udpGone[c]) =>
            InBundle(c, udpGone[c], "udp")
  /\ \A c \in Clients : ~ InBundle(c, 0, "tcp")

\* A session that is closed is found under another id than its last one, if at
\* all, or was closed in the middle of its login.
InvClosed ==
  \A c \in Clients : \A u : InBundle(c, u, "tcp") /\ tcp[c] = "closed" =>
    c \in cut \/ u # id[c]

\* The references that dangle.
InvDangling ==
  /\ \A c \in Clients : <<c, "login">> \in dangling => tcp[c] # "open"
  /\ \A c \in Clients : <<c, "tcp">> \in dangling =>
       tcp[c] # "open" /\ (c \in cut \/ gone[c] = 0)
  /\ \A c \in Clients : <<c, "udp">> \in dangling => <<c, "handshake">> \in dangling

LobbyInv ==
  /\ LobbyTypeOK
  /\ InvReferences
  /\ ~ raced => InvIds /\ InvSessions /\ InvAdded /\ InvClosed /\ InvDangling

\* A room and its players, by their indices.
RoomOK(room) ==
  /\ room = [players |-> room.players, ready |-> room.ready]
  /\ room.players = [u \in DOMAIN room.players |-> room.players[u]]
  /\ IsFiniteSet(DOMAIN room.players)

\* The players who did not enter twice have indices below the number of all
\* players, each another one.
Indexed(room, twice) ==
  /\ \A u \in DOMAIN room.players \ twice :
       room.players[u] \in 0 .. Cardinality(DOMAIN room.players) - 1
  /\ \A u, v \in DOMAIN room.players \ twice : room.players[u] = room.players[v] => u = v

Twice(r) == {u \in Members(r) : <<r, u>> \in reentered}

InvRooms ==
  /\ rooms = [r \in DOMAIN rooms |-> rooms[r]]
  /\ \A r \in DOMAIN rooms : rooms[r] # NoRoom =>
       RoomOK(rooms[r]) /\ Indexed(rooms[r], Twice(r))
  /\ \A c \in Clients : pc[c] = "enter" => arg[c] \in DOMAIN rooms

-----------------------------------------------------------------------------
(* The directory of sessions *)

\* Bundles are only added, and the new ones are empty.
Grown ==
  /\ bundles' \in [DOMAIN bundles' -> Bundles]
  /\ DOMAIN bundles \subseteq DOMAIN bundles'
  /\ \A u \in DOMAIN bundles : bundles'[u] = bundles[u]
  /\ \A u \in DOMAIN bundles' : u \notin DOMAIN bundles => bundles'[u] = EmptyBundle

\* An empty bundle is a bundle, and holds nobody.
LEMMA EmptyFacts ==
  /\ EmptyBundle \in Bundles
  /\ EmptyBundle["tcp"] = NoClient /\ EmptyBundle["udp"] = NoClient
  /\ \A c \in Clients : c # NoClient
BY LobbyAssumption DEF EmptyBundle, Bundles, LobbyAssumption

\* The lookups with operator[] only add empty bundles.
LEMMA TouchGrows ==
  ASSUME LobbyTypeOK,
         (\E u : Touch(u)) \/ (\E us : TouchAll(us)) \/ bundles' = bundles
  PROVE  Grown
<1>0. bundles \in [DOMAIN bundles -> Bundles]
  BY DEF LobbyTypeOK
<1>1. ASSUME NEW u, Touch(u) PROVE Grown
  <2>1. bundles' = [x \in DOMAIN bundles \cup {u} |->
                      IF x \in DOMAIN bundles THEN bundles[x] ELSE EmptyBundle]
    BY <1>1 DEF Touch, WithKey
  <2> QED BY <1>0, <2>1, EmptyFacts DEF Grown
<1>2. ASSUME NEW us, TouchAll(us) PROVE Grown
  BY <1>0, <1>2, EmptyFacts DEF TouchAll, Grown
<1>3. ASSUME bundles' = bundles PROVE Grown
  BY <1>0, <1>3 DEF Grown
<1> QED BY <1>1, <1>2, <1>3

\* Whoever is in a bundle stays in it, and nobody comes.
LEMMA GrownSame ==
  ASSUME Grown
  PROVE  \A c \in Clients : \A u : \A kind \in {"tcp", "udp"} :
           InBundle(c, u, kind)' <=> InBundle(c, u, kind)
BY EmptyFacts DEF Grown, InBundle

\* Add through a reference that does not dangle.
LEMMA PutFacts ==
  ASSUME LobbyTypeOK, NEW holder, NEW u \in DOMAIN bundles, NEW kind \in {"tcp", "udp"},
         NEW c \in Clients, Put(holder, u, kind, c), holder \notin dangling
  PROVE  /\ UNCHANGED <<dangling, failure>>
         /\ bundles' \in [DOMAIN bundles -> Bundles]
         /\ \A d \in Clients : \A v : \A k \in {"tcp", "udp"} :
              InBundle(d, v, k)' <=> IF v = u /\ k = kind THEN d = c ELSE InBundle(d, v, k)
<1>0. bundles \in [DOMAIN bundles -> Bundles]
  BY DEF LobbyTypeOK
<1>1. bundles' = [bundles EXCEPT ![u][kind] = c] /\ UNCHANGED <<dangling, failure>>
  BY DEF Put
<1>2. /\ bundles[u] \in Bundles
      /\ bundles' = [bundles EXCEPT ![u] = [bundles[u] EXCEPT ![kind] = c]]
  BY <1>0, <1>1
<1>3. /\ [bundles[u] EXCEPT ![kind] = c] \in Bundles
      /\ \A k \in {"tcp", "udp"} :
           [bundles[u] EXCEPT ![kind] = c][k] = IF k = kind THEN c ELSE bundles[u][k]
  BY <1>2 DEF Bundles
<1>4. /\ bundles' \in [DOMAIN bundles -> Bundles]
      /\ \A v \in DOMAIN bundles : v # u => bundles'[v] = bundles[v]
      /\ \A k \in {"tcp", "udp"} : bundles'[u][k] = IF k = kind THEN c ELSE bundles[u][k]
  BY <1>0, <1>2, <1>3
<1> QED BY <1>1, <1>4 DEF InBundle

\* Remove through a reference that does not dangle: only a bundle without any
\* other session is erased.
LEMMA TakeFacts ==
  ASSUME LobbyTypeOK, NEW holder, NEW u \in DOMAIN bundles, NEW kind \in {"tcp", "udp"},
         Take(holder, u, kind), holder \notin dangling
  PROVE  /\ failure' = failure
         /\ bundles' \in [DOMAIN bundles' -> Bundles]
         /\ \A d \in Clients : \A v : \A k \in {"tcp", "udp"} :
              InBundle(d, v, k)' <=> InBundle(d, v, k) /\ ~ (v = u /\ k = kind)
         /\ \/ dangling' = dangling /\ DOMAIN bundles' = DOMAIN bundles
            \/ /\ dangling' = dangling \cup (Holders(u) \ {holder})
               /\ DOMAIN bundles' = DOMAIN bundles \ {u}
               /\ \A d \in Clients : \A k \in {"tcp", "udp"} : k # kind => ~ InBundle(d, u, k)
<1> DEFINE b == [bundles[u] EXCEPT ![kind] = NoClient]
<1>0. bundles \in [DOMAIN bundles -> Bundles] /\ bundles[u] \in Bundles
  BY DEF LobbyTypeOK
<1>1. /\ b \in Bundles
      /\ \A k \in {"tcp", "udp"} : b[k] = IF k = kind THEN NoClient ELSE bundles[u][k]
  BY <1>0 DEF Bundles
<1>2. /\ bundles' = IF b = EmptyBundle THEN Without(bundles, u) ELSE [bundles EXCEPT ![u] = b]
      /\ dangling' = IF b = EmptyBundle THEN dangling \cup (Holders(u) \ {holder}) ELSE dangling
      /\ failure' = failure
  BY DEF Take
<1> HIDE DEF b
<1>3. CASE b = EmptyBundle
  <2>1. bundles' = [x \in DOMAIN bundles \ {u} |-> bundles[x]]
    BY <1>2, <1>3 DEF Without
  <2>2. \A k \in {"tcp", "udp"} : k # kind => bundles[u][k] = NoClient
    BY <1>1, <1>3, EmptyFacts
  <2>3. \A d \in Clients : \A k \in {"tcp", "udp"} : k # kind => ~ InBundle(d, u, k)
    BY <2>2, EmptyFacts DEF InBundle
  <2>4. DOMAIN bundles' = DOMAIN bundles \ {u} /\ bundles' \in [DOMAIN bundles' -> Bundles]
    BY <1>0, <2>1
  <2>5. \A d \in Clients : \A v : \A k \in {"tcp", "udp"} :
          InBundle(d, v, k)' <=> InBundle(d, v, k) /\ ~ (v = u /\ k = kind)
    BY <2>1, <2>3 DEF InBundle
  <2> QED BY <1>2, <1>3, <2>3, <2>4, <2>5
<1>4. CASE b # EmptyBundle
  <2>1. /\ bundles' \in [DOMAIN bundles -> Bundles]
        /\ \A v \in DOMAIN bundles : v # u => bundles'[v] = bundles[v]
        /\ bundles'[u] = b
    BY <1>0, <1>1, <1>2, <1>4
  <2>2. \A d \in Clients : \A v : \A k \in {"tcp", "udp"} :
          InBundle(d, v, k)' <=> InBundle(d, v, k) /\ ~ (v = u /\ k = kind)
    BY <1>1, <2>1, EmptyFacts DEF InBundle
  <2> QED BY <1>2, <1>4, <2>1, <2>2
<1> QED BY <1>3, <1>4

\* Who holds which reference.
LEMMA HoldersFacts ==
  ASSUME NEW u, NEW c \in Clients
  PROVE  /\ <<c, "login">> \in Holders(u) <=> pc[c] = "put" /\ id[c] = u
         /\ <<c, "handshake">> \in Holders(u) <=> udpPc = c /\ udpId[c] = u
         /\ <<c, "tcp">> \in Holders(u) <=> tcp[c] = "closing" /\ gone[c] = u
         /\ <<c, "udp">> \in Holders(u) <=> udp[c] = "closing" /\ udpGone[c] = u
         /\ Holders(u) \subseteq Clients \X {"login", "handshake", "tcp", "udp"}
BY DEF Holders

-----------------------------------------------------------------------------
(* Each step keeps the invariant *)

\* What is left of the invariant as long as no two logins have raced.
InvUnraced == InvIds /\ InvSessions /\ InvAdded /\ InvClosed /\ InvDangling

\* Steps that neither log in or out nor add or remove a session: the rooms'.
LEMMA QuietLobby ==
  ASSUME LobbyInv, Grown,
         UNCHANGED <<nextUserId, tcp, udp, id, udpId, gone, udpGone, cut, dangling, udpPc, raced>>,
         pc' \in [Clients -> HandlerPlaces], arg' = [d \in Clients |-> arg'[d]],
         \A d \in Clients : \/ pc'[d] = pc[d] /\ (pc[d] = "login" => arg'[d] = arg[d])
                            \/ {pc[d], pc'[d]} \subseteq {"idle", "enter", "reply"},
         Running' => Running
  PROVE  LobbyInv'
<1>0. LobbyTypeOK /\ InvReferences /\ (~ raced => InvUnraced)
  BY DEF LobbyInv, InvUnraced
<1>1. LobbyTypeOK'
  <2>1. raced' \in BOOLEAN
    BY <1>0 DEF LobbyTypeOK
  <2> QED BY <1>0, <2>1 DEF LobbyTypeOK, Grown
<1>2. InvReferences'
  BY <1>0 DEF InvReferences, Grown
<1>3. ASSUME ~ raced PROVE InvUnraced'
  <2>0. InvIds /\ InvSessions /\ InvAdded /\ InvClosed /\ InvDangling
    BY <1>0, <1>3 DEF InvUnraced
  <2>1. \A d \in Clients :
          /\ pc'[d] \in {"login", "add", "put"} <=> pc[d] \in {"login", "add", "put"}
          /\ pc'[d] \in {"add", "put"} <=> pc[d] \in {"add", "put"}
          /\ pc'[d] = "login" <=> pc[d] = "login"
          /\ pc'[d] = "login" => arg'[d] = arg[d]
    OBVIOUS
  <2>2. InvIds'
    BY <2>0, <2>1 DEF InvIds, Owns
  <2>3. InvSessions'
    BY <2>0, <2>1 DEF InvSessions
  <2>4. InvAdded'
    BY <1>0, <2>0, <2>1, GrownSame DEF InvAdded, LobbyTypeOK
  <2>5. InvClosed' /\ InvDangling'
    BY <2>0, GrownSame DEF InvClosed, InvDangling
  <2> QED BY <2>2, <2>3, <2>4, <2>5 DEF InvUnraced
<1> QED BY <1>1, <1>2, <1>3 DEF LobbyInv, InvUnraced

\* The steps of the rooms.
LEMMA RoomSteps ==
  ASSUME LobbyInv,
         \/ \E c \in Clients :
              \/ CreateRoom(c) \/ EnterRoom(c) \/ EnterUnknownRoom(c) \/ Enter(c)
              \/ Reply(c) \/ EnterGame(c) \/ SpawnActor(c)
         \/ SpawnJob \/ Tick \/ UNCHANGED vars
  PROVE  LobbyInv'
<1>0. LobbyTypeOK
  BY DEF LobbyInv
<1>1. pc \in [Clients -> HandlerPlaces] /\ arg = [c \in Clients |-> arg[c]]
  BY <1>0 DEF LobbyTypeOK
<1>2. ASSUME NEW c \in Clients, CreateRoom(c) PROVE LobbyInv'
  <2>1. Grown
    BY <1>0, <1>2, TouchGrows DEF CreateRoom, bundleVars
  <2> QED BY <1>1, <1>2, <2>1, QuietLobby
      DEF CreateRoom, Goto, Idle, sessionVars, handlerVars, bundleVars, TouchAll, Running, HandlerPlaces
<1>3. ASSUME NEW c \in Clients, EnterRoom(c) PROVE LobbyInv'
  <2>1. Grown
    BY <1>0, <1>3, TouchGrows DEF EnterRoom, bundleVars
  <2> QED BY <1>1, <1>3, <2>1, QuietLobby
      DEF EnterRoom, Goto, Idle, sessionVars, handlerVars, bundleVars, TouchAll, Running, HandlerPlaces
<1>4. ASSUME NEW c \in Clients, EnterUnknownRoom(c) PROVE LobbyInv'
  <2>1. Grown
    BY <1>0, <1>4, TouchGrows DEF EnterUnknownRoom, bundleVars
  <2> QED BY <1>1, <1>4, <2>1, QuietLobby
      DEF EnterUnknownRoom, Goto, Idle, sessionVars, handlerVars, bundleVars, TouchAll, Running, HandlerPlaces
<1>5. ASSUME NEW c \in Clients, Enter(c) PROVE LobbyInv'
  <2>1. Grown
    BY <1>0, <1>5, TouchGrows DEF Enter, bundleVars
  <2> QED BY <1>1, <1>5, <2>1, QuietLobby
      DEF Enter, Goto, Idle, sessionVars, handlerVars, bundleVars, TouchAll, Running, HandlerPlaces
<1>6. ASSUME NEW c \in Clients, Reply(c) PROVE LobbyInv'
  <2>1. Grown
    BY <1>0, <1>6, TouchGrows DEF Reply, bundleVars
  <2> QED BY <1>1, <1>6, <2>1, QuietLobby
      DEF Reply, Goto, Idle, sessionVars, handlerVars, bundleVars, TouchAll, Running, HandlerPlaces
<1>7. ASSUME NEW c \in Clients, EnterGame(c) PROVE LobbyInv'
  <2>1. Grown
    BY <1>0, <1>7, TouchGrows DEF EnterGame, bundleVars
  <2> QED BY <1>1, <1>7, <2>1, QuietLobby
      DEF EnterGame, Goto, Idle, sessionVars, handlerVars, bundleVars, TouchAll, Running, HandlerPlaces
<1>8. ASSUME NEW c \in Clients, SpawnActor(c) PROVE LobbyInv'
  <2>1. Grown
    BY <1>0, <1>8, TouchGrows DEF SpawnActor, bundleVars
  <2> QED BY <1>1, <1>8, <2>1, QuietLobby
      DEF SpawnActor, Goto, Idle, sessionVars, handlerVars, bundleVars, TouchAll, Running, HandlerPlaces
<1>9. ASSUME SpawnJob PROVE LobbyInv'
  <2>1. Grown
    BY <1>0, <1>9, TouchGrows DEF SpawnJob, bundleVars
  <2> QED BY <1>1, <1>9, <2>1, QuietLobby
      DEF SpawnJob, sessionVars, handlerVars, bundleVars, TouchAll, Running
<1>10. ASSUME Tick PROVE LobbyInv'
  <2>1. Grown
    BY <1>0, <1>10, TouchGrows DEF Tick, bundleVars
  <2> QED BY <1>1, <1>10, <2>1, QuietLobby
      DEF Tick, sessionVars, handlerVars, bundleVars, TouchAll, Running
<1>11. ASSUME UNCHANGED vars PROVE LobbyInv'
  <2>1. Grown
    BY <1>0, <1>11, TouchGrows DEF vars, bundleVars
  <2> QED BY <1>1, <1>11, <2>1, QuietLobby
      DEF vars, sessionVars, handlerVars, bundleVars, TouchAll, Running
<1> QED BY <1>2, <1>3, <1>4, <1>5, <1>6, <1>7, <1>8, <1>9, <1>10, <1>11

\* The parts of the invariant.
LEMMA Parts ==
  /\ LobbyInv => LobbyTypeOK /\ InvReferences
  /\ LobbyInv /\ ~ raced =>
       InvUnraced /\ InvIds /\ InvSessions /\ InvAdded /\ InvClosed /\ InvDangling
BY DEF LobbyInv, InvUnraced

\* The load of the user id's counter: two at once race.
LEMMA LoginKeeps ==
  ASSUME LobbyInv, NEW c \in Clients, Login(c)
  PROVE  LobbyInv'
<1>0. LobbyTypeOK /\ InvReferences
  BY Parts
<1>1. /\ UNCHANGED <<nextUserId, tcp, udp, id, udpId, gone, udpGone, cut, bundles, dangling, udpPc, failure>>
      /\ tcp[c] = "open" /\ pc[c] = "idle"
      /\ arg' = [arg EXCEPT ![c] = nextUserId] /\ pc' = [pc EXCEPT ![c] = "login"]
  BY DEF Login, Idle, Goto, sessionVars, bundleVars
<1>2. /\ raced' \in BOOLEAN
      /\ ~ raced' => ~ raced /\ \A d \in Clients : pc[d] # "login"
  BY <1>0 DEF Login, LobbyTypeOK
<1>3. LobbyTypeOK'
  BY <1>0, <1>1, <1>2 DEF LobbyTypeOK, HandlerPlaces
<1>4. \A d \in Clients : d # c => pc'[d] = pc[d] /\ arg'[d] = arg[d]
  BY <1>0, <1>1 DEF LobbyTypeOK
<1>5. pc'[c] = "login" /\ arg'[c] = nextUserId
  BY <1>0, <1>1 DEF LobbyTypeOK
<1>6. InvReferences'
  BY <1>0, <1>1, <1>4, <1>5 DEF InvReferences
<1>7. ASSUME ~ raced' PROVE InvUnraced'
  <2>0. InvIds /\ InvSessions /\ InvAdded /\ InvClosed /\ InvDangling
    BY <1>2, <1>7, Parts
  <2>1. InvIds'
    BY <1>1, <1>2, <1>4, <1>5, <1>7, <2>0 DEF InvIds, Owns
  <2>2. InvSessions'
    BY <1>1, <1>4, <1>5, <2>0 DEF InvSessions
  <2>3. InvAdded'
    BY <1>1, <1>4, <1>5, <2>0 DEF InvAdded, InBundle, Running
  <2>4. InvClosed' /\ InvDangling'
    BY <1>1, <2>0 DEF InvClosed, InvDangling, InBundle
  <2> QED BY <2>1, <2>2, <2>3, <2>4 DEF InvUnraced
<1> QED BY <1>3, <1>6, <1>7 DEF LobbyInv, InvUnraced

\* The store, and the session's new id, which nobody has had.
LEMMA SetIdKeeps ==
  ASSUME LobbyInv, NEW c \in Clients, SetId(c)
  PROVE  LobbyInv'
<1>0. LobbyTypeOK /\ InvReferences
  BY Parts
<1>1. /\ UNCHANGED <<tcp, udp, udpId, gone, udpGone, cut, bundles, dangling, udpPc, failure, raced>>
      /\ pc[c] = "login" /\ nextUserId' = arg[c] + 1
      /\ id' = [id EXCEPT ![c] = arg[c]]
      /\ arg' = [arg EXCEPT ![c] = 0] /\ pc' = [pc EXCEPT ![c] = "add"]
  BY DEF SetId, Goto, bundleVars
<1>2. LobbyTypeOK'
  <2>1. raced' \in BOOLEAN
    BY <1>0, <1>1 DEF LobbyTypeOK
  <2>2. arg[c] \in Nat
    BY <1>0, <1>1 DEF LobbyTypeOK
  <2>3. nextUserId' \in Nat \ {0}
    BY <1>1, <2>2
  <2> QED BY <1>0, <1>1, <2>1, <2>2, <2>3 DEF LobbyTypeOK, HandlerPlaces
<1>3. \A d \in Clients : d # c => pc'[d] = pc[d] /\ arg'[d] = arg[d] /\ id'[d] = id[d]
  BY <1>0, <1>1 DEF LobbyTypeOK
<1>4. pc'[c] = "add" /\ id'[c] = arg[c]
  BY <1>0, <1>1 DEF LobbyTypeOK
<1>5. InvReferences'
  BY <1>0, <1>1, <1>3, <1>4 DEF InvReferences
<1>6. ASSUME ~ raced' PROVE InvUnraced'
  <2>0. InvIds /\ InvSessions /\ InvAdded /\ InvClosed /\ InvDangling
    BY <1>1, <1>6, Parts
  <2>1. /\ arg[c] = nextUserId /\ nextUserId \in Nat /\ nextUserId # 0
        /\ \A d \in Clients : d # c => pc[d] # "login"
        /\ id[c] \in Nat /\ udpId[c] \in Nat /\ gone[c] \in Nat /\ udpGone[c] \in Nat
    BY <1>0, <1>1, <2>0 DEF InvIds, LobbyTypeOK
  <2>2. /\ \A d \in Clients : \A u \in Nat : d # c => (Owns(d, u)' <=> Owns(d, u))
        /\ \A u \in Nat : Owns(c, u)' => u = nextUserId \/ Owns(c, u)
    BY <1>1, <1>3, <1>4, <2>1 DEF Owns
  <2>3. InvIds'
    <3>1. nextUserId' = nextUserId + 1
      BY <1>1, <2>1
    <3>2. \A d \in Clients : \A u \in Nat : Owns(d, u)' => u < nextUserId'
      BY <2>0, <2>1, <2>2, <3>1 DEF InvIds
    <3>3. \A d, e \in Clients : \A u \in Nat : Owns(d, u)' /\ Owns(e, u)' => d = e
      <4> SUFFICES ASSUME NEW d \in Clients, NEW e \in Clients, NEW u \in Nat,
                          Owns(d, u)', Owns(e, u)', d # e
                   PROVE  FALSE
        OBVIOUS
      <4>1. ~ Owns(d, nextUserId) /\ ~ Owns(e, nextUserId)
        BY <2>0, <2>1 DEF InvIds
      <4> QED BY <2>0, <2>2, <4>1 DEF InvIds
    <3> QED BY <1>3, <1>4, <2>1, <3>2, <3>3 DEF InvIds
  <2>4. InvSessions'
    <3>1. udpId[c] # nextUserId /\ udpGone[c] # nextUserId
      BY <2>0, <2>1 DEF InvIds, Owns
    <3> QED BY <1>1, <1>3, <1>4, <2>0, <2>1, <3>1 DEF InvSessions
  <2>5. InvAdded'
    BY <1>1, <1>3, <1>4, <2>0 DEF InvAdded, InBundle, Running
  <2>6. InvClosed'
    BY <1>1, <1>3, <2>0 DEF InvClosed, InvSessions, InBundle
  <2>7. InvDangling'
    BY <1>1, <2>0 DEF InvDangling
  <2> QED BY <2>3, <2>4, <2>5, <2>6, <2>7 DEF InvUnraced
<1> QED BY <1>2, <1>5, <1>6 DEF LobbyInv, InvUnraced

\* Add takes its reference.
LEMMA AddTouchKeeps ==
  ASSUME LobbyInv, NEW c \in Clients, AddTouch(c)
  PROVE  LobbyInv'
<1>0. LobbyTypeOK /\ InvReferences
  BY Parts
<1>1. /\ UNCHANGED <<nextUserId, tcp, udp, id, udpId, gone, udpGone, cut, dangling, arg, udpPc, failure, raced>>
      /\ pc[c] = "add" /\ pc' = [pc EXCEPT ![c] = "put"] /\ Touch(id[c])
  BY DEF AddTouch, Touch, Goto, sessionVars
<1>2. Grown /\ id[c] \in DOMAIN bundles'
  BY <1>0, <1>1, TouchGrows DEF Touch, WithKey
<1>3. LobbyTypeOK'
  <2>1. raced' \in BOOLEAN
    BY <1>0, <1>1 DEF LobbyTypeOK
  <2> QED BY <1>0, <1>1, <1>2, <2>1 DEF LobbyTypeOK, HandlerPlaces, Grown
<1>4. pc'[c] = "put" /\ \A d \in Clients : d # c => pc'[d] = pc[d]
  BY <1>0, <1>1 DEF LobbyTypeOK
<1>5. InvReferences'
  BY <1>0, <1>1, <1>2, <1>4 DEF InvReferences, Grown
<1>6. ASSUME ~ raced PROVE InvUnraced'
  <2>0. InvIds /\ InvSessions /\ InvAdded /\ InvClosed /\ InvDangling
    BY <1>6, Parts
  <2>1. InvIds' /\ InvSessions' /\ InvDangling'
    BY <1>1, <1>4, <2>0 DEF InvIds, Owns, InvSessions, InvDangling
  <2>2. InvAdded'
    BY <1>1, <1>2, <1>4, <2>0, GrownSame DEF InvAdded, Running
  <2>3. InvClosed'
    BY <1>1, <1>2, <2>0, GrownSame DEF InvClosed
  <2> QED BY <2>1, <2>2, <2>3 DEF InvUnraced
<1> QED BY <1>1, <1>3, <1>5, <1>6 DEF LobbyInv, InvUnraced

\* Add: the bundle of the new id gets the session, and no other bundle changes.
LEMMA AddPutKeeps ==
  ASSUME LobbyInv, NEW c \in Clients, AddPut(c)
  PROVE  LobbyInv'
<1>0. LobbyTypeOK /\ InvReferences
  BY Parts
<1>1. /\ UNCHANGED <<nextUserId, tcp, udp, id, udpId, gone, udpGone, cut, arg, udpPc, raced>>
      /\ pc[c] = "put" /\ pc' = [pc EXCEPT ![c] = "idle"]
      /\ Put(<<c, "login">>, id[c], "tcp", c)
  BY DEF AddPut, Goto, sessionVars
<1>2. pc'[c] = "idle" /\ \A d \in Clients : d # c => pc'[d] = pc[d]
  BY <1>0, <1>1 DEF LobbyTypeOK
<1>3. ASSUME dangling' = dangling, bundles' \in [DOMAIN bundles -> Bundles]
      PROVE  LobbyTypeOK' /\ InvReferences'
  <2>1. raced' \in BOOLEAN
    BY <1>0, <1>1 DEF LobbyTypeOK
  <2>2. LobbyTypeOK'
    BY <1>0, <1>1, <1>3, <2>1 DEF LobbyTypeOK, HandlerPlaces
  <2>3. DOMAIN bundles' = DOMAIN bundles
    BY <1>3
  <2>4. InvReferences'
    BY <1>0, <1>1, <1>2, <1>3, <2>3 DEF InvReferences
  <2> QED BY <2>2, <2>4
<1>4. ASSUME ~ raced, dangling' = dangling
      PROVE  InvIds' /\ InvSessions' /\ InvDangling'
  <2>0. InvIds /\ InvSessions /\ InvDangling
    BY <1>4, Parts
  <2> QED BY <1>1, <1>2, <1>4, <2>0 DEF InvIds, Owns, InvSessions, InvDangling
<1>5. CASE <<c, "login">> \in dangling
  <2>1. UNCHANGED <<bundles, dangling>> /\ ~ Running'
    BY <1>1, <1>5 DEF Put, bundleVars, Running
  <2>2. LobbyTypeOK' /\ InvReferences'
    BY <1>0, <1>3, <2>1 DEF LobbyTypeOK
  <2>3. ASSUME ~ raced PROVE InvAdded' /\ InvClosed'
    <3>0. InvAdded /\ InvClosed /\ InvDangling
      BY <2>3, Parts
    <3> QED BY <1>1, <1>2, <1>5, <2>1, <3>0 DEF InvAdded, InvClosed, InvDangling, InBundle
  <2> QED BY <1>1, <1>4, <2>1, <2>2, <2>3 DEF LobbyInv
<1>6. CASE <<c, "login">> \notin dangling
  <2>1. id[c] \in DOMAIN bundles
    BY <1>0, <1>1, <1>6 DEF InvReferences
  <2>2. /\ UNCHANGED <<dangling, failure>>
        /\ bundles' \in [DOMAIN bundles -> Bundles]
        /\ \A d \in Clients : \A v : \A k \in {"tcp", "udp"} :
             InBundle(d, v, k)' <=> IF v = id[c] /\ k = "tcp" THEN d = c ELSE InBundle(d, v, k)
    BY <1>0, <1>1, <1>6, <2>1, PutFacts
  <2>3. ASSUME ~ raced PROVE InvAdded' /\ InvClosed'
    <3>0. InvIds /\ InvSessions /\ InvAdded /\ InvClosed
      BY <2>3, Parts
    <3>1. /\ id[c] # 0
          /\ \A d \in Clients : id[d] = id[c] \/ gone[d] = id[c] => d = c
      BY <1>0, <1>1, <3>0 DEF InvIds, InvSessions, Owns, LobbyTypeOK
    <3>2. InvAdded'
      <4>1. \A d \in Clients : \A u : u = id[d] /\ tcp[d] = "open" /\ id[d] # 0
              /\ pc'[d] \notin {"add", "put"} => InBundle(d, u, "tcp")'
        BY <1>2, <2>2, <3>0, <3>1 DEF InvAdded
      <4>2. \A d \in Clients : \A u : u = gone[d] /\ tcp[d] = "closing" /\ d \notin cut
              /\ gone[d] # 0 => InBundle(d, u, "tcp")'
        BY <2>2, <3>0, <3>1 DEF InvAdded
      <4>3. Running => \A d \in Clients : \A u :
              /\ u = udpId[d] /\ udp[d] = "open" /\ udpPc # d => InBundle(d, u, "udp")'
              /\ u = udpGone[d] /\ udp[d] = "closing" /\ ~ (udpPc = d /\ udpId[d] = u)
                   => InBundle(d, u, "udp")'
        BY <2>2, <3>0 DEF InvAdded
      <4>4. \A d \in Clients : ~ InBundle(d, 0, "tcp")'
        BY <2>2, <3>0, <3>1 DEF InvAdded
      <4> QED BY <1>1, <2>2, <4>1, <4>2, <4>3, <4>4 DEF InvAdded, Running, InBundle
    <3>3. InvClosed'
      BY <1>1, <2>2, <3>0 DEF InvClosed, InvSessions
    <3> QED BY <3>2, <3>3
  <2> QED BY <1>1, <1>3, <1>4, <2>2, <2>3 DEF LobbyInv
<1> QED BY <1>5, <1>6

\* The first datagram: the session's id, and the reference.
LEMMA HandshakeKeeps ==
  ASSUME LobbyInv, NEW c \in Clients, Handshake(c)
  PROVE  LobbyInv'
<1>0. LobbyTypeOK /\ InvReferences
  BY Parts
<1>1. /\ UNCHANGED <<nextUserId, tcp, id, gone, udpGone, cut, dangling, pc, arg, failure, raced>>
      /\ udpPc = NoClient /\ udpPc' = c
      /\ id[c] # 0 /\ pc[c] \notin {"add", "put"}
      /\ udp' = [udp EXCEPT ![c] = IF @ = "absent" THEN "open" ELSE @]
      /\ udpId' = [udpId EXCEPT ![c] = id[c]]
      /\ Touch(id[c])
  BY DEF Handshake, Touch
<1>2. Grown /\ id[c] \in DOMAIN bundles'
  BY <1>0, <1>1, TouchGrows DEF Touch, WithKey
<1>3. LobbyTypeOK'
  <2>1. raced' \in BOOLEAN
    BY <1>0, <1>1 DEF LobbyTypeOK
  <2> QED BY <1>0, <1>1, <1>2, <2>1 DEF LobbyTypeOK, SessionStates, Grown
<1>4. /\ udp'[c] = IF udp[c] = "absent" THEN "open" ELSE udp[c]
      /\ udpId'[c] = id[c] /\ c # NoClient
      /\ \A d \in Clients : d # c => udp'[d] = udp[d] /\ udpId'[d] = udpId[d]
  BY <1>0, <1>1, EmptyFacts DEF LobbyTypeOK
<1>5. InvReferences'
  <2>1. \A d \in Clients : pc[d] = "put" /\ <<d, "login">> \notin dangling => id[d] \in DOMAIN bundles'
    BY <1>0, <1>2 DEF InvReferences, Grown
  <2>2. \A d \in Clients : udpPc' = d => udpId'[d] \in DOMAIN bundles'
    BY <1>1, <1>2, <1>4
  <2>3. \A d \in Clients : tcp[d] = "closing" /\ <<d, "tcp">> \notin dangling => gone[d] \in DOMAIN bundles'
    BY <1>0, <1>2 DEF InvReferences, Grown
  <2>4. \A d \in Clients : udp'[d] = "closing" => udp[d] = "closing"
    BY <1>4
  <2>5. \A d \in Clients : udp'[d] = "closing" /\ <<d, "udp">> \notin dangling => udpGone[d] \in DOMAIN bundles'
    BY <1>0, <1>2, <2>4 DEF InvReferences, Grown
  <2> QED BY <1>1, <2>1, <2>2, <2>3, <2>5 DEF InvReferences
<1>6. ASSUME ~ raced PROVE InvUnraced'
  <2>0. InvIds /\ InvSessions /\ InvAdded /\ InvClosed /\ InvDangling
    BY <1>6, Parts
  <2>1. InvIds'
    <3>1. \A d \in Clients : \A u \in Nat : Owns(d, u)' => Owns(d, u)
      BY <1>1, <1>4 DEF Owns
    <3> QED BY <1>1, <2>0, <3>1 DEF InvIds
  <2>2. InvSessions' /\ InvDangling'
    BY <1>1, <1>4, <2>0, EmptyFacts DEF InvSessions, InvDangling
  <2>3. InvAdded'
    <3>1. \A d \in Clients : ~ InBundle(d, 0, "tcp")'
      BY <1>2, <2>0, GrownSame DEF InvAdded
    <3>2. Running => \A d \in Clients : \A u :
            /\ u = udpId'[d] /\ udp'[d] = "open" /\ udpPc' # d => InBundle(d, u, "udp")'
            /\ u = udpGone[d] /\ udp'[d] = "closing" /\ ~ (udpPc' = d /\ udpId'[d] = u)
                 => InBundle(d, u, "udp")'
      BY <1>1, <1>2, <1>4, <2>0, EmptyFacts, GrownSame DEF InvAdded
    <3>3. \A d \in Clients : \A u : u = id[d] /\ tcp[d] = "open" /\ id[d] # 0
            /\ pc[d] \notin {"add", "put"} => InBundle(d, u, "tcp")'
      BY <1>2, <2>0, GrownSame DEF InvAdded
    <3>4. \A d \in Clients : \A u : u = gone[d] /\ tcp[d] = "closing" /\ d \notin cut
            /\ gone[d] # 0 => InBundle(d, u, "tcp")'
      BY <1>2, <2>0, GrownSame DEF InvAdded
    <3> QED BY <1>1, <3>1, <3>2, <3>3, <3>4 DEF InvAdded, Running, InBundle
  <2>4. InvClosed'
    BY <1>1, <1>2, <2>0, GrownSame DEF InvClosed
  <2> QED BY <2>1, <2>2, <2>3, <2>4 DEF InvUnraced
<1> QED BY <1>1, <1>3, <1>5, <1>6 DEF LobbyInv, InvUnraced

\* Add of the UDP session: no other UDP session is in that bundle.
LEMMA HandshakePutKeeps ==
  ASSUME LobbyInv, HandshakePut
  PROVE  LobbyInv'
<1>0. LobbyTypeOK /\ InvReferences
  BY Parts
<1>1. PICK c \in Clients : c = udpPc
  BY <1>0 DEF HandshakePut, LobbyTypeOK
<1>2. /\ UNCHANGED <<nextUserId, tcp, udp, id, udpId, gone, udpGone, cut, pc, arg, raced>>
      /\ udpPc = c /\ udpPc' = NoClient /\ c # NoClient
      /\ Put(<<c, "handshake">>, udpId[c], "udp", c)
  BY <1>1, EmptyFacts DEF HandshakePut, sessionVars
<1>3. ASSUME dangling' = dangling, bundles' \in [DOMAIN bundles -> Bundles]
      PROVE  LobbyTypeOK' /\ InvReferences'
  <2>1. raced' \in BOOLEAN
    BY <1>0, <1>2 DEF LobbyTypeOK
  <2>2. LobbyTypeOK'
    BY <1>0, <1>2, <1>3, <2>1 DEF LobbyTypeOK
  <2>3. DOMAIN bundles' = DOMAIN bundles
    BY <1>3
  <2>4. InvReferences'
    BY <1>0, <1>2, <1>3, <2>3, EmptyFacts DEF InvReferences
  <2> QED BY <2>2, <2>4
<1>4. ASSUME ~ raced, dangling' = dangling
      PROVE  InvIds' /\ InvSessions' /\ InvDangling'
  <2>0. InvIds /\ InvSessions /\ InvDangling
    BY <1>4, Parts
  <2> QED BY <1>2, <1>4, <2>0, EmptyFacts DEF InvIds, Owns, InvSessions, InvDangling
<1>5. CASE <<c, "handshake">> \in dangling
  <2>1. UNCHANGED <<bundles, dangling>> /\ ~ Running'
    BY <1>2, <1>5 DEF Put, bundleVars, Running
  <2>2. LobbyTypeOK' /\ InvReferences'
    BY <1>0, <1>3, <2>1 DEF LobbyTypeOK
  <2>3. ASSUME ~ raced PROVE InvAdded' /\ InvClosed'
    <3>0. InvAdded /\ InvClosed
      BY <2>3, Parts
    <3> QED BY <1>2, <2>1, <3>0 DEF InvAdded, InvClosed, InBundle
  <2> QED BY <1>2, <1>4, <2>1, <2>2, <2>3 DEF LobbyInv
<1>6. CASE <<c, "handshake">> \notin dangling
  <2>1. udpId[c] \in DOMAIN bundles
    BY <1>0, <1>2, <1>6 DEF InvReferences
  <2>2. /\ UNCHANGED <<dangling, failure>>
        /\ bundles' \in [DOMAIN bundles -> Bundles]
        /\ \A d \in Clients : \A v : \A k \in {"tcp", "udp"} :
             InBundle(d, v, k)' <=> IF v = udpId[c] /\ k = "udp" THEN d = c ELSE InBundle(d, v, k)
    BY <1>0, <1>2, <1>6, <2>1, PutFacts
  <2>3. ASSUME ~ raced PROVE InvAdded' /\ InvClosed'
    <3>0. InvIds /\ InvSessions /\ InvAdded /\ InvClosed
      BY <2>3, Parts
    <3>1. \A d \in Clients : \/ udp[d] = "open" /\ udpId[d] = udpId[c]
                             \/ udp[d] = "closing" /\ udpGone[d] = udpId[c]
                             => d = c
      BY <1>0, <3>0 DEF InvIds, InvSessions, Owns, LobbyTypeOK
    <3>2. \A d \in Clients : \A v : InBundle(d, v, "tcp")' <=> InBundle(d, v, "tcp")
      BY <2>2
    <3>3. \A d \in Clients : \A u : u = id[d] /\ tcp[d] = "open" /\ id[d] # 0
            /\ pc[d] \notin {"add", "put"} => InBundle(d, u, "tcp")'
      BY <3>0, <3>2 DEF InvAdded
    <3>4. \A d \in Clients : \A u : u = gone[d] /\ tcp[d] = "closing" /\ d \notin cut
            /\ gone[d] # 0 => InBundle(d, u, "tcp")'
      BY <3>0, <3>2 DEF InvAdded
    <3>5. Running => \A d \in Clients : \A u :
            /\ u = udpId[d] /\ udp[d] = "open" => InBundle(d, u, "udp")'
            /\ u = udpGone[d] /\ udp[d] = "closing" => InBundle(d, u, "udp")'
      BY <1>2, <2>2, <3>0, <3>1 DEF InvAdded
    <3>6. \A d \in Clients : ~ InBundle(d, 0, "tcp")'
      BY <3>0, <3>2 DEF InvAdded
    <3>7. InvAdded'
      BY <1>2, <2>2, <3>3, <3>4, <3>5, <3>6 DEF InvAdded, Running, InBundle
    <3>8. InvClosed'
      BY <1>2, <3>0, <3>2 DEF InvClosed
    <3> QED BY <3>7, <3>8
  <2> QED BY <1>2, <1>3, <1>4, <2>2, <2>3 DEF LobbyInv
<1> QED BY <1>5, <1>6

\* The disconnect of a TCP session, up to the reference Remove takes.
LEMMA CloseTcpKeeps ==
  ASSUME LobbyInv, NEW c \in Clients, CloseTcp(c)
  PROVE  LobbyInv'
<1>0. LobbyTypeOK /\ InvReferences
  BY Parts
<1>1. /\ UNCHANGED <<nextUserId, udp, id, udpId, udpGone, dangling, pc, arg, udpPc, failure, raced>>
      /\ tcp[c] = "open" /\ tcp' = [tcp EXCEPT ![c] = "closing"]
      /\ gone' = [gone EXCEPT ![c] = id[c]]
      /\ cut' = IF pc[c] \in {"login", "add", "put"} THEN cut \cup {c} ELSE cut
      /\ Touch(id[c])
  BY DEF CloseTcp, Touch, handlerVars
<1>2. Grown /\ id[c] \in DOMAIN bundles'
  BY <1>0, <1>1, TouchGrows DEF Touch, WithKey
<1>3. LobbyTypeOK'
  <2>1. raced' \in BOOLEAN
    BY <1>0, <1>1 DEF LobbyTypeOK
  <2> QED BY <1>0, <1>1, <1>2, <2>1 DEF LobbyTypeOK, SessionStates, Grown
<1>4. /\ tcp'[c] = "closing" /\ gone'[c] = id[c]
      /\ \A d \in Clients : d # c => /\ tcp'[d] = tcp[d] /\ gone'[d] = gone[d]
                                    /\ (d \in cut' <=> d \in cut)
      /\ c \notin cut' => c \notin cut /\ pc[c] \notin {"login", "add", "put"}
      /\ cut \subseteq cut'
  BY <1>0, <1>1 DEF LobbyTypeOK
<1>5. InvReferences'
  BY <1>0, <1>1, <1>2, <1>4 DEF InvReferences, Grown
<1>6. ASSUME ~ raced PROVE InvUnraced'
  <2>0. InvIds /\ InvSessions /\ InvAdded /\ InvClosed /\ InvDangling
    BY <1>6, Parts
  <2>1. InvIds'
    <3>1. \A d \in Clients : \A u \in Nat : Owns(d, u)' => Owns(d, u)
      BY <1>1, <1>4 DEF Owns
    <3> QED BY <1>1, <2>0, <3>1 DEF InvIds
  <2>2. InvSessions' /\ InvDangling'
    BY <1>1, <1>4, <2>0 DEF InvSessions, InvDangling
  <2>3. InvAdded'
    <3>1. \A d \in Clients : \A u : u = id[d] /\ tcp'[d] = "open" /\ id[d] # 0
            /\ pc[d] \notin {"add", "put"} => InBundle(d, u, "tcp")'
      BY <1>2, <1>4, <2>0, GrownSame DEF InvAdded
    <3>2. \A d \in Clients : \A u : u = gone'[d] /\ tcp'[d] = "closing" /\ d \notin cut'
            /\ gone'[d] # 0 => InBundle(d, u, "tcp")'
      BY <1>1, <1>2, <1>4, <2>0, GrownSame DEF InvAdded
    <3>3. Running => \A d \in Clients : \A u :
            /\ u = udpId[d] /\ udp[d] = "open" /\ udpPc # d => InBundle(d, u, "udp")'
            /\ u = udpGone[d] /\ udp[d] = "closing" /\ ~ (udpPc = d /\ udpId[d] = u)
                 => InBundle(d, u, "udp")'
      BY <1>2, <2>0, GrownSame DEF InvAdded
    <3>4. \A d \in Clients : ~ InBundle(d, 0, "tcp")'
      BY <1>2, <2>0, GrownSame DEF InvAdded
    <3> QED BY <1>1, <3>1, <3>2, <3>3, <3>4 DEF InvAdded, Running, InBundle
  <2>4. InvClosed'
    BY <1>1, <1>2, <1>4, <2>0, GrownSame DEF InvClosed
  <2> QED BY <2>1, <2>2, <2>3, <2>4 DEF InvUnraced
<1> QED BY <1>1, <1>3, <1>5, <1>6 DEF LobbyInv, InvUnraced

\* The same of a UDP session.
LEMMA CloseUdpKeeps ==
  ASSUME LobbyInv, NEW c \in Clients, CloseUdp(c)
  PROVE  LobbyInv'
<1>0. LobbyTypeOK /\ InvReferences
  BY Parts
<1>1. /\ UNCHANGED <<nextUserId, tcp, id, udpId, gone, cut, dangling, pc, arg, udpPc, failure, raced>>
      /\ udp[c] = "open" /\ udp' = [udp EXCEPT ![c] = "closing"] /\ Touch(udpId[c])
      /\ udpGone' = [udpGone EXCEPT ![c] = udpId[c]]
  BY DEF CloseUdp, Touch, handlerVars
<1>2. Grown /\ udpId[c] \in DOMAIN bundles'
  BY <1>0, <1>1, TouchGrows DEF Touch, WithKey
<1>3. LobbyTypeOK'
  <2>1. raced' \in BOOLEAN
    BY <1>0, <1>1 DEF LobbyTypeOK
  <2> QED BY <1>0, <1>1, <1>2, <2>1 DEF LobbyTypeOK, SessionStates, Grown
<1>4. /\ udp'[c] = "closing" /\ udpGone'[c] = udpId[c]
      /\ \A d \in Clients : d # c => udp'[d] = udp[d] /\ udpGone'[d] = udpGone[d]
  BY <1>0, <1>1 DEF LobbyTypeOK
<1>5. InvReferences'
  BY <1>0, <1>1, <1>2, <1>4 DEF InvReferences, Grown
<1>6. ASSUME ~ raced PROVE InvUnraced'
  <2>0. InvIds /\ InvSessions /\ InvAdded /\ InvClosed /\ InvDangling
    BY <1>6, Parts
  <2>1. InvIds'
    <3>1. \A d \in Clients : \A u \in Nat : Owns(d, u)' => Owns(d, u)
      BY <1>1, <1>4 DEF Owns
    <3> QED BY <1>1, <2>0, <3>1 DEF InvIds
  <2>4. InvSessions' /\ InvDangling'
    BY <1>1, <1>4, <2>0 DEF InvSessions, InvDangling
  <2>2. InvAdded'
    <3>1. \A d \in Clients : \A u : u = id[d] /\ tcp[d] = "open" /\ id[d] # 0
            /\ pc[d] \notin {"add", "put"} => InBundle(d, u, "tcp")'
      BY <1>2, <2>0, GrownSame DEF InvAdded
    <3>2. \A d \in Clients : \A u : u = gone[d] /\ tcp[d] = "closing" /\ d \notin cut
            /\ gone[d] # 0 => InBundle(d, u, "tcp")'
      BY <1>2, <2>0, GrownSame DEF InvAdded
    <3>3. Running => \A d \in Clients : \A u :
            /\ u = udpId[d] /\ udp'[d] = "open" /\ udpPc # d => InBundle(d, u, "udp")'
            /\ u = udpGone'[d] /\ udp'[d] = "closing" /\ ~ (udpPc = d /\ udpId[d] = u)
                 => InBundle(d, u, "udp")'
      BY <1>1, <1>2, <1>4, <2>0, GrownSame DEF InvAdded
    <3>4. \A d \in Clients : ~ InBundle(d, 0, "tcp")'
      BY <1>2, <2>0, GrownSame DEF InvAdded
    <3> QED BY <1>1, <3>1, <3>2, <3>3, <3>4 DEF InvAdded, Running, InBundle
  <2>3. InvClosed'
    BY <1>1, <1>2, <2>0, GrownSame DEF InvClosed
  <2> QED BY <2>1, <2>2, <2>3, <2>4 DEF InvUnraced
<1> QED BY <1>1, <1>3, <1>5, <1>6 DEF LobbyInv, InvUnraced

\* When Remove erases the bundle of u, everybody else's reference to it dangles.
LEMMA ErasedReferences ==
  ASSUME InvReferences, NEW u, NEW holder, DOMAIN bundles' = DOMAIN bundles \ {u},
         dangling' = dangling \cup (Holders(u) \ {holder}),
         UNCHANGED <<id, udpId, gone, pc, udpPc>>,
         \A d \in Clients : udp'[d] = "closing" => udpGone'[d] = udpGone[d],
         \A d \in Clients : tcp'[d] = "closing" => tcp[d] = "closing" /\ holder # <<d, "tcp">>,
         \A d \in Clients : udp'[d] = "closing" => udp[d] = "closing" /\ holder # <<d, "udp">>,
         \E d \in Clients : holder \in {<<d, "tcp">>, <<d, "udp">>}
  PROVE  InvReferences'
<1>0. SUFFICES ASSUME NEW c \in Clients
      PROVE /\ pc[c] = "put" /\ <<c, "login">> \notin dangling' => id[c] \in DOMAIN bundles'
            /\ udpPc = c /\ <<c, "handshake">> \notin dangling' => udpId[c] \in DOMAIN bundles'
            /\ tcp'[c] = "closing" /\ <<c, "tcp">> \notin dangling' => gone[c] \in DOMAIN bundles'
            /\ udp'[c] = "closing" /\ <<c, "udp">> \notin dangling' => udpGone'[c] \in DOMAIN bundles'
  BY DEF InvReferences
<1>1. holder \notin {<<c, "login">>, <<c, "handshake">>}
  OBVIOUS
<1>2. \A h : h \notin dangling' => h \notin dangling /\ (h \notin Holders(u) \/ h = holder)
  OBVIOUS
<1>3. ASSUME pc[c] = "put", <<c, "login">> \notin dangling' PROVE id[c] \in DOMAIN bundles'
  BY <1>1, <1>2, <1>3, HoldersFacts DEF InvReferences
<1>4. ASSUME udpPc = c, <<c, "handshake">> \notin dangling' PROVE udpId[c] \in DOMAIN bundles'
  <2>1. <<c, "handshake">> \notin dangling /\ <<c, "handshake">> \notin Holders(u)
    BY <1>1, <1>2, <1>4
  <2>2. udpId[c] \in DOMAIN bundles
    BY <1>4, <2>1 DEF InvReferences
  <2>3. udpId[c] # u
    BY <1>4, <2>1, HoldersFacts
  <2> QED BY <2>2, <2>3
<1>5. ASSUME tcp'[c] = "closing", <<c, "tcp">> \notin dangling' PROVE gone[c] \in DOMAIN bundles'
  BY <1>2, <1>5, HoldersFacts DEF InvReferences
<1>6. ASSUME udp'[c] = "closing", <<c, "udp">> \notin dangling' PROVE udpGone'[c] \in DOMAIN bundles'
  <2>1. udp[c] = "closing" /\ holder # <<c, "udp">> /\ udpGone'[c] = udpGone[c]
    BY <1>6
  <2>2. <<c, "udp">> \notin dangling /\ <<c, "udp">> \notin Holders(u)
    BY <1>2, <1>6, <2>1
  <2>3. udpGone[c] # u
    BY <2>1, <2>2, HoldersFacts
  <2>4. udpGone[c] \in DOMAIN bundles
    BY <2>1, <2>2 DEF InvReferences
  <2> QED BY <2>1, <2>3, <2>4
<1> QED BY <1>3, <1>4, <1>5, <1>6

\* Remove of a TCP session erases a bundle only if nobody with a claim on it is
\* left: its own login is over or was cut, its UDP session is not in it.
LEMMA RemoveTcpKeeps ==
  ASSUME LobbyInv, NEW c \in Clients, RemoveTcp(c)
  PROVE  LobbyInv'
<1>0. LobbyTypeOK /\ InvReferences
  BY Parts
<1>1. /\ UNCHANGED <<nextUserId, udp, id, udpId, gone, udpGone, cut, pc, arg, udpPc, raced>>
      /\ tcp[c] = "closing" /\ tcp' = [tcp EXCEPT ![c] = "closed"] /\ Running
      /\ Take(<<c, "tcp">>, gone[c], "tcp")
  BY DEF RemoveTcp, handlerVars
<1>2. tcp'[c] = "closed" /\ \A d \in Clients : d # c => tcp'[d] = tcp[d]
  BY <1>0, <1>1 DEF LobbyTypeOK
<1>3. ASSUME bundles' \in [DOMAIN bundles' -> Bundles],
             dangling' \subseteq Clients \X {"login", "handshake", "tcp", "udp"}
      PROVE  LobbyTypeOK'
  <2>1. raced' \in BOOLEAN
    BY <1>0, <1>1 DEF LobbyTypeOK
  <2> QED BY <1>0, <1>1, <1>3, <2>1 DEF LobbyTypeOK, SessionStates
<1>4. ASSUME ~ raced PROVE InvIds' /\ InvSessions'
  <2>0. InvIds /\ InvSessions
    BY <1>4, Parts
  <2> QED BY <1>1, <1>2, <2>0 DEF InvIds, Owns, InvSessions
<1>5. CASE <<c, "tcp">> \in dangling
  <2>1. UNCHANGED <<bundles, dangling>> /\ ~ Running'
    BY <1>1, <1>5 DEF Take, bundleVars, Running
  <2>2. LobbyTypeOK'
    BY <1>0, <1>3, <2>1 DEF LobbyTypeOK
  <2>3. InvReferences'
    BY <1>0, <1>1, <1>2, <2>1 DEF InvReferences
  <2>4. ASSUME ~ raced PROVE InvAdded' /\ InvClosed' /\ InvDangling'
    <3>0. InvSessions /\ InvAdded /\ InvClosed /\ InvDangling
      BY <2>4, Parts
    <3>1. InvAdded'
      BY <1>1, <1>2, <2>1, <3>0 DEF InvAdded, InBundle
    <3>2. c \in cut \/ id[c] = 0
      BY <1>1, <1>5, <3>0 DEF InvDangling, InvSessions
    <3>3. InvClosed'
      BY <1>1, <1>2, <2>1, <3>0, <3>2 DEF InvClosed, InvAdded, InBundle
    <3>4. InvDangling'
      BY <1>1, <1>2, <2>1, <3>0 DEF InvDangling
    <3> QED BY <3>1, <3>3, <3>4
  <2> QED BY <1>1, <1>4, <2>2, <2>3, <2>4 DEF LobbyInv
<1>6. CASE <<c, "tcp">> \notin dangling
  <2> DEFINE u == gone[c]
  <2>1. u \in DOMAIN bundles /\ u \in Nat
    BY <1>0, <1>1, <1>6 DEF InvReferences, LobbyTypeOK
  <2>2. Take(<<c, "tcp">>, u, "tcp")
    BY <1>1
  <2> HIDE DEF u
  <2>3. /\ failure' = failure
        /\ bundles' \in [DOMAIN bundles' -> Bundles]
        /\ \A d \in Clients : \A v : \A k \in {"tcp", "udp"} :
             InBundle(d, v, k)' <=> InBundle(d, v, k) /\ ~ (v = u /\ k = "tcp")
        /\ \/ dangling' = dangling /\ DOMAIN bundles' = DOMAIN bundles
           \/ /\ dangling' = dangling \cup (Holders(u) \ {<<c, "tcp">>})
              /\ DOMAIN bundles' = DOMAIN bundles \ {u}
              /\ \A d \in Clients : \A k \in {"tcp", "udp"} : k # "tcp" => ~ InBundle(d, u, k)
    BY <1>0, <1>6, <2>1, <2>2, TakeFacts
  <2>4. LobbyTypeOK'
    <3>1. dangling' \subseteq Clients \X {"login", "handshake", "tcp", "udp"}
      BY <1>0, <2>3, HoldersFacts DEF LobbyTypeOK
    <3> QED BY <1>3, <2>3, <3>1
  <2>5. InvReferences'
    <3>1. CASE dangling' = dangling /\ DOMAIN bundles' = DOMAIN bundles
      BY <1>0, <1>1, <1>2, <3>1 DEF InvReferences
    <3>2. CASE /\ dangling' = dangling \cup (Holders(u) \ {<<c, "tcp">>})
               /\ DOMAIN bundles' = DOMAIN bundles \ {u}
      <4>1. \A d \in Clients : tcp'[d] = "closing" => tcp[d] = "closing" /\ <<c, "tcp">> # <<d, "tcp">>
        BY <1>2
      <4>2. \A d \in Clients : udp'[d] = "closing" => udp[d] = "closing" /\ <<c, "tcp">> # <<d, "udp">>
        BY <1>1
      <4> QED BY <1>0, <1>1, <3>2, <4>1, <4>2, ErasedReferences
    <3> QED BY <2>3, <3>1, <3>2
  <2>6. ASSUME ~ raced PROVE InvAdded' /\ InvClosed' /\ InvDangling'
    <3>0. InvIds /\ InvSessions /\ InvAdded /\ InvClosed /\ InvDangling
      BY <2>6, Parts
    <3>1. u # 0 => \A d \in Clients : u \in {id[d], udpId[d], gone[d], udpGone[d]} => d = c
      BY <2>1, <3>0 DEF InvIds, Owns, u
    <3>2. InvAdded'
      <4>1. \A d \in Clients : \A v : v = id[d] /\ tcp'[d] = "open" /\ id[d] # 0
              /\ pc[d] \notin {"add", "put"} => InBundle(d, v, "tcp")'
        BY <1>2, <2>3, <3>0, <3>1 DEF InvAdded
      <4>2. \A d \in Clients : \A v : v = gone[d] /\ tcp'[d] = "closing" /\ d \notin cut
              /\ gone[d] # 0 => InBundle(d, v, "tcp")'
        BY <1>2, <2>3, <3>0, <3>1 DEF InvAdded
      <4>3. \A d \in Clients : \A v :
              /\ v = udpId[d] /\ udp[d] = "open" /\ udpPc # d => InBundle(d, v, "udp")'
              /\ v = udpGone[d] /\ udp[d] = "closing" /\ ~ (udpPc = d /\ udpId[d] = v)
                   => InBundle(d, v, "udp")'
        BY <1>1, <2>3, <3>0 DEF InvAdded
      <4>4. \A d \in Clients : ~ InBundle(d, 0, "tcp")'
        BY <2>3, <3>0 DEF InvAdded
      <4> QED BY <1>1, <4>1, <4>2, <4>3, <4>4 DEF InvAdded, InBundle
    <3>3. InvClosed'
      <4>1. \A d \in Clients : \A v : InBundle(d, v, "tcp")' /\ tcp'[d] = "closed" =>
              d \in cut \/ v # id[d]
        BY <1>1, <1>2, <2>3, <3>0 DEF InvClosed, InvSessions, u
      <4> QED BY <1>1, <4>1 DEF InvClosed
    <3>4. InvDangling'
      <4>1. ASSUME NEW d \in Clients, <<d, "login">> \in Holders(u) PROVE d = c
        <5>1. pc[d] = "put" /\ id[d] = u
          BY <4>1, HoldersFacts
        <5>2. id[d] # 0
          BY <3>0, <5>1 DEF InvSessions
        <5> QED BY <3>1, <5>1, <5>2
      <4>2. ASSUME NEW d \in Clients, <<d, "tcp">> \in Holders(u), d # c
            PROVE  tcp'[d] # "open" /\ gone[d] = 0
        <5>1. tcp[d] = "closing" /\ gone[d] = u
          BY <4>2, HoldersFacts
        <5> QED BY <1>2, <3>1, <4>2, <5>1
      <4>3. ASSUME NEW d \in Clients, <<d, "udp">> \in Holders(u), dangling' # dangling
            PROVE  <<d, "handshake">> \in Holders(u)
        <5>1. udp[d] = "closing" /\ udpGone[d] = u
          BY <4>3, HoldersFacts
        <5>2. ~ InBundle(d, u, "udp")
          BY <2>3, <4>3
        <5>3. udpPc = d /\ udpId[d] = u
          BY <1>1, <3>0, <5>1, <5>2 DEF InvAdded
        <5> QED BY <5>3, HoldersFacts
      <4>4. \A d \in Clients : <<d, "login">> \in dangling' => tcp'[d] # "open"
        BY <1>2, <2>3, <3>0, <4>1 DEF InvDangling
      <4>5. \A d \in Clients : <<d, "tcp">> \in dangling' =>
              tcp'[d] # "open" /\ (d \in cut \/ gone[d] = 0)
        BY <1>2, <2>3, <3>0, <4>2 DEF InvDangling
      <4>6. \A d \in Clients : <<d, "udp">> \in dangling' => <<d, "handshake">> \in dangling'
        BY <2>3, <3>0, <4>3 DEF InvDangling
      <4> QED BY <1>1, <4>4, <4>5, <4>6 DEF InvDangling
    <3> QED BY <3>2, <3>3, <3>4
  <2> QED BY <1>1, <1>4, <2>4, <2>5, <2>6 DEF LobbyInv
<1> QED BY <1>5, <1>6

\* Remove of a UDP session erases a bundle only if its TCP session is not in it.
LEMMA RemoveUdpKeeps ==
  ASSUME LobbyInv, NEW c \in Clients, RemoveUdp(c)
  PROVE  LobbyInv'
<1>0. LobbyTypeOK /\ InvReferences
  BY Parts
<1>1. /\ UNCHANGED <<nextUserId, tcp, id, udpId, gone, cut, pc, arg, udpPc, raced>>
      /\ udp[c] = "closing" /\ udp' = [udp EXCEPT ![c] = "absent"] /\ Running
      /\ Take(<<c, "udp">>, udpGone[c], "udp") /\ udpGone' = [udpGone EXCEPT ![c] = 0]
  BY DEF RemoveUdp, handlerVars
<1>2. /\ udp'[c] = "absent" /\ udpGone'[c] = 0
      /\ \A d \in Clients : d # c => udp'[d] = udp[d] /\ udpGone'[d] = udpGone[d]
  BY <1>0, <1>1 DEF LobbyTypeOK
<1>3. ASSUME bundles' \in [DOMAIN bundles' -> Bundles],
             dangling' \subseteq Clients \X {"login", "handshake", "tcp", "udp"}
      PROVE  LobbyTypeOK'
  <2>1. raced' \in BOOLEAN
    BY <1>0, <1>1 DEF LobbyTypeOK
  <2> QED BY <1>0, <1>1, <1>3, <2>1 DEF LobbyTypeOK, SessionStates
<1>4. ASSUME ~ raced PROVE InvIds' /\ InvSessions'
  <2>0. InvIds /\ InvSessions
    BY <1>4, Parts
  <2>1. \A d \in Clients : \A u \in Nat : Owns(d, u)' => Owns(d, u)
    BY <1>1, <1>2 DEF Owns
  <2>2. InvIds'
    BY <1>1, <2>0, <2>1 DEF InvIds
  <2> QED BY <1>1, <1>2, <2>0, <2>2 DEF InvSessions
<1>5. CASE <<c, "udp">> \in dangling
  <2>1. UNCHANGED <<bundles, dangling>> /\ ~ Running'
    BY <1>1, <1>5 DEF Take, bundleVars, Running
  <2>2. LobbyTypeOK'
    BY <1>0, <1>3, <2>1 DEF LobbyTypeOK
  <2>3. InvReferences'
    BY <1>0, <1>1, <1>2, <2>1 DEF InvReferences
  <2>4. ASSUME ~ raced PROVE InvAdded' /\ InvClosed' /\ InvDangling'
    <3>0. InvAdded /\ InvClosed /\ InvDangling
      BY <2>4, Parts
    <3> QED BY <1>1, <1>2, <2>1, <3>0 DEF InvAdded, InvClosed, InvDangling, InBundle
  <2> QED BY <1>1, <1>4, <2>2, <2>3, <2>4 DEF LobbyInv
<1>6. CASE <<c, "udp">> \notin dangling
  <2> DEFINE u == udpGone[c]
  <2>1. u \in DOMAIN bundles /\ u \in Nat
    BY <1>0, <1>1, <1>6 DEF InvReferences, LobbyTypeOK
  <2>2. Take(<<c, "udp">>, u, "udp")
    BY <1>1
  <2> HIDE DEF u
  <2>3. /\ failure' = failure
        /\ bundles' \in [DOMAIN bundles' -> Bundles]
        /\ \A d \in Clients : \A v : \A k \in {"tcp", "udp"} :
             InBundle(d, v, k)' <=> InBundle(d, v, k) /\ ~ (v = u /\ k = "udp")
        /\ \/ dangling' = dangling /\ DOMAIN bundles' = DOMAIN bundles
           \/ /\ dangling' = dangling \cup (Holders(u) \ {<<c, "udp">>})
              /\ DOMAIN bundles' = DOMAIN bundles \ {u}
              /\ \A d \in Clients : \A k \in {"tcp", "udp"} : k # "udp" => ~ InBundle(d, u, k)
    BY <1>0, <1>6, <2>1, <2>2, TakeFacts
  <2>4. LobbyTypeOK'
    <3>1. dangling' \subseteq Clients \X {"login", "handshake", "tcp", "udp"}
      BY <1>0, <2>3, HoldersFacts DEF LobbyTypeOK
    <3> QED BY <1>3, <2>3, <3>1
  <2>5. InvReferences'
    <3>1. CASE dangling' = dangling /\ DOMAIN bundles' = DOMAIN bundles
      BY <1>0, <1>1, <1>2, <3>1 DEF InvReferences
    <3>2. CASE /\ dangling' = dangling \cup (Holders(u) \ {<<c, "udp">>})
               /\ DOMAIN bundles' = DOMAIN bundles \ {u}
      <4>1. \A d \in Clients : tcp'[d] = "closing" => tcp[d] = "closing" /\ <<c, "udp">> # <<d, "tcp">>
        BY <1>1
      <4>2. \A d \in Clients : udp'[d] = "closing" => udp[d] = "closing" /\ <<c, "udp">> # <<d, "udp">>
        BY <1>2
      <4>3. \A d \in Clients : udp'[d] = "closing" => udpGone'[d] = udpGone[d]
        BY <1>2
      <4> QED BY <1>0, <1>1, <3>2, <4>1, <4>2, <4>3, ErasedReferences
    <3> QED BY <2>3, <3>1, <3>2
  <2>6. ASSUME ~ raced PROVE InvAdded' /\ InvClosed' /\ InvDangling'
    <3>0. InvIds /\ InvSessions /\ InvAdded /\ InvClosed /\ InvDangling
      BY <2>6, Parts
    <3>1. u # 0
      BY <1>1, <3>0 DEF InvSessions, u
    <3>2. \A d \in Clients : u \in {id[d], udpId[d], gone[d], udpGone[d]} => d = c
      BY <2>1, <3>0, <3>1 DEF InvIds, Owns, u
    <3>3. InvAdded'
      <4>1. \A d \in Clients : \A v : InBundle(d, v, "tcp")' <=> InBundle(d, v, "tcp")
        BY <2>3
      <4>2. \A d \in Clients : \A v : v = id[d] /\ tcp[d] = "open" /\ id[d] # 0
              /\ pc[d] \notin {"add", "put"} => InBundle(d, v, "tcp")'
        BY <3>0, <4>1 DEF InvAdded
      <4>3. \A d \in Clients : \A v : v = gone[d] /\ tcp[d] = "closing" /\ d \notin cut
              /\ gone[d] # 0 => InBundle(d, v, "tcp")'
        BY <3>0, <4>1 DEF InvAdded
      <4>4. \A d \in Clients : \A v :
              /\ v = udpId[d] /\ udp'[d] = "open" /\ udpPc # d => InBundle(d, v, "udp")'
              /\ v = udpGone'[d] /\ udp'[d] = "closing" /\ ~ (udpPc = d /\ udpId[d] = v)
                   => InBundle(d, v, "udp")'
        BY <1>1, <1>2, <2>3, <3>0, <3>2 DEF InvAdded
      <4>5. \A d \in Clients : ~ InBundle(d, 0, "tcp")'
        BY <3>0, <4>1 DEF InvAdded
      <4> QED BY <1>1, <4>2, <4>3, <4>4, <4>5 DEF InvAdded, InBundle
    <3>4. InvClosed'
      BY <1>1, <2>3, <3>0 DEF InvClosed
    <3>5. InvDangling'
      <4>1. ASSUME NEW d \in Clients PROVE <<d, "login">> \notin Holders(u)
        <5>1. <<d, "login">> \in Holders(u) <=> pc[d] = "put" /\ id[d] = u
          BY HoldersFacts
        <5>2. pc[d] = "put" => udpGone[d] # id[d]
          BY <3>0 DEF InvSessions
        <5>3. id[d] = u => udpGone[d] = u
          BY <3>2 DEF u
        <5> QED BY <5>1, <5>2, <5>3
      <4>2. ASSUME NEW d \in Clients, <<d, "tcp">> \in Holders(u), dangling' # dangling
            PROVE  tcp[d] # "open" /\ d \in cut
        <5>1. tcp[d] = "closing" /\ gone[d] = u
          BY <4>2, HoldersFacts
        <5>2. ~ InBundle(d, u, "tcp")
          BY <2>3, <4>2
        <5> QED BY <3>0, <3>1, <5>1, <5>2 DEF InvAdded
      <4>3. ASSUME NEW d \in Clients, <<d, "udp">> \in Holders(u) PROVE d = c
        BY <3>2, <4>3, HoldersFacts
      <4>4. \A d \in Clients : <<d, "login">> \in dangling' => tcp[d] # "open"
        BY <2>3, <3>0, <4>1 DEF InvDangling
      <4>5. \A d \in Clients : <<d, "tcp">> \in dangling' =>
              tcp[d] # "open" /\ (d \in cut \/ gone[d] = 0)
        BY <2>3, <3>0, <4>2 DEF InvDangling
      <4>6. \A d \in Clients : <<d, "udp">> \in dangling' => <<d, "handshake">> \in dangling'
        BY <2>3, <3>0, <4>3 DEF InvDangling
      <4> QED BY <1>1, <4>4, <4>5, <4>6 DEF InvDangling
    <3> QED BY <3>3, <3>4, <3>5
  <2> QED BY <1>1, <1>4, <2>4, <2>5, <2>6 DEF LobbyInv
<1> QED BY <1>5, <1>6

-----------------------------------------------------------------------------
(* The rooms *)

\* A new room has no players.
LEMMA NewRoomOK == RoomOK(NewRoom) /\ \A twice : Indexed(NewRoom, twice)
<1>1. NewRoom.players = [u \in {} |-> 0] /\ DOMAIN NewRoom.players = {}
  BY DEF NewRoom
<1>2. RoomOK(NewRoom)
  BY <1>1, FS_EmptySet DEF NewRoom, RoomOK
<1> QED BY <1>1, <1>2 DEF Indexed

\* The room after user u was admitted.
Admitted(room, u) ==
  [room EXCEPT !.players =
    [x \in DOMAIN @ \cup {u} |-> IF x = u THEN Cardinality(DOMAIN room.players) ELSE @[x]]]

\* A player who was not in the room gets an index no other player has.
LEMMA AdmitRoom ==
  ASSUME NEW room, RoomOK(room), NEW u, NEW after, after = Admitted(room, u)
  PROVE  /\ RoomOK(after) /\ DOMAIN after.players = DOMAIN room.players \cup {u}
         /\ \A twice, now :
              /\ Indexed(room, twice)
              /\ twice \subseteq now
              /\ u \in DOMAIN room.players => u \in now
              => Indexed(after, now)
<1> DEFINE in == DOMAIN room.players
           n == Cardinality(in)
           ps == [x \in in \cup {u} |-> IF x = u THEN n ELSE room.players[x]]
<1>1. IsFiniteSet(in) /\ n \in Nat
  BY FS_CardinalityType DEF RoomOK
<1>2. after = [players |-> ps, ready |-> room.ready]
  BY DEF RoomOK, Admitted
<1>3. after.players = ps /\ DOMAIN after.players = in \cup {u} /\ after.ready = room.ready
  BY <1>2
<1>4. /\ IsFiniteSet(in \cup {u})
      /\ u \notin in => Cardinality(in \cup {u}) = n + 1
  BY <1>1, FS_AddElement
<1>5. RoomOK(after)
  BY <1>2, <1>3, <1>4 DEF RoomOK
<1>6. ASSUME NEW twice, NEW now, Indexed(room, twice), twice \subseteq now, u \in in => u \in now
      PROVE  Indexed(after, now)
  <2>1. \A x \in in \ twice : room.players[x] \in 0 .. n - 1
    BY <1>6 DEF Indexed
  <2>2. \A x, y \in in \ twice : room.players[x] = room.players[y] => x = y
    BY <1>6 DEF Indexed
  <2> DEFINE m == Cardinality(in \cup {u})
  <2>3. m \in Nat /\ n <= m /\ (u \notin now => m = n + 1)
    <3>1. CASE u \in in
      <4>1. in \cup {u} = in /\ u \in now
        BY <1>6, <3>1
      <4>2. m = n
        BY <4>1
      <4> QED BY <1>1, <4>1, <4>2
    <3>2. CASE u \notin in
      <4>1. m = n + 1
        BY <1>4, <3>2
      <4> QED BY <1>1, <4>1
    <3> QED BY <3>1, <3>2
  <2> HIDE DEF n, m
  <2>4. \A x \in (in \cup {u}) \ now : x # u => x \in in \ twice /\ ps[x] = room.players[x]
    BY <1>6
  <2>5. u \notin now => ps[u] = n
    OBVIOUS
  <2>6. \A x \in (in \cup {u}) \ now : ps[x] \in 0 .. m - 1
    <3>1. \A k : k \in 0 .. n - 1 => k \in 0 .. m - 1
      BY <1>1, <2>3
    <3>2. u \notin now => n \in 0 .. m - 1
      BY <1>1, <2>3
    <3>3. \A x \in (in \cup {u}) \ now : x # u => ps[x] \in 0 .. n - 1
      BY <2>1, <2>4
    <3> QED BY <2>5, <3>1, <3>2, <3>3
  <2>7. \A x, y \in (in \cup {u}) \ now : ps[x] = ps[y] => x = y
    <3>1. \A x \in (in \cup {u}) \ now : x # u => ps[x] # n
      <4>1. \A x \in (in \cup {u}) \ now : x # u => ps[x] \in 0 .. n - 1
        BY <2>1, <2>4
      <4>2. \A k : k \in 0 .. n - 1 => k # n
        BY <1>1
      <4> QED BY <4>1, <4>2
    <3> QED BY <2>2, <2>4, <2>5, <3>1
  <2>8. Cardinality(DOMAIN after.players) = m
    BY <1>3 DEF m
  <2> HIDE DEF ps, in
  <2> QED BY <1>3, <2>6, <2>7, <2>8 DEF Indexed
<1> QED BY <1>3, <1>5, <1>6

\* A room's readiness has nothing to do with its players.
LEMMA ReadyRoom ==
  ASSUME NEW room, RoomOK(room), NEW ready, NEW after, after = [room EXCEPT !.ready = ready]
  PROVE  /\ RoomOK(after) /\ DOMAIN after.players = DOMAIN room.players
         /\ \A twice : Indexed(room, twice) => Indexed(after, twice)
<1>1. after = [players |-> room.players, ready |-> ready]
  BY DEF RoomOK
<1>2. after.players = room.players /\ after.ready = ready
  BY <1>1
<1> QED BY <1>1, <1>2 DEF RoomOK, Indexed

\* Rooms are never removed, and a handler enters a room it has found.
LEMMA RoomsKept ==
  ASSUME LobbyTypeOK, InvRooms, [Next]_vars
  PROVE  InvRooms'
<1>0. pc \in [Clients -> HandlerPlaces] /\ arg = [c \in Clients |-> arg[c]]
  BY DEF LobbyTypeOK
<1>1. ASSUME NEW c \in Clients, CreateRoom(c) PROVE InvRooms'
  <2>1. /\ rooms' = [x \in DOMAIN rooms \cup {nextRoomId} |->
                      IF x \in DOMAIN rooms THEN rooms[x] ELSE NewRoom]
        /\ arg' = [arg EXCEPT ![c] = nextRoomId] /\ pc' = [pc EXCEPT ![c] = "enter"]
        /\ UNCHANGED reentered
    BY <1>1 DEF CreateRoom, WithKey, Goto
  <2> QED BY <1>0, <2>1, NewRoomOK DEF InvRooms, Twice, Members
<1>2. ASSUME NEW c \in Clients, EnterRoom(c) PROVE InvRooms'
  <2>1. /\ UNCHANGED <<rooms, reentered>> /\ pc' = [pc EXCEPT ![c] = "enter"]
        /\ \E r \in DOMAIN rooms : arg' = [arg EXCEPT ![c] = r]
    BY <1>2 DEF EnterRoom, Goto, roomVars
  <2> QED BY <1>0, <2>1 DEF InvRooms, Twice, Members
<1>3. ASSUME NEW c \in Clients, EnterUnknownRoom(c) PROVE InvRooms'
  <2>1. /\ UNCHANGED <<pc, arg, reentered>>
        /\ \E r : rooms' = [x \in DOMAIN rooms \cup {r} |->
                             IF x \in DOMAIN rooms THEN rooms[x] ELSE NoRoom]
    BY <1>3 DEF EnterUnknownRoom, WithKey, handlerVars
  <2>2. PICK r : rooms' = [x \in DOMAIN rooms \cup {r} |->
                            IF x \in DOMAIN rooms THEN rooms[x] ELSE NoRoom]
    BY <2>1
  <2>3. /\ DOMAIN rooms' = DOMAIN rooms \cup {r}
        /\ \A q \in DOMAIN rooms : rooms'[q] = rooms[q]
        /\ \A q \in DOMAIN rooms' : q \notin DOMAIN rooms => rooms'[q] = NoRoom
    BY <2>2
  <2>4. \A q \in DOMAIN rooms : Twice(q)' = Twice(q)
    BY <2>1, <2>3 DEF Twice, Members
  <2>5. rooms' = [q \in DOMAIN rooms' |-> rooms'[q]]
    BY <2>2
  <2>6. \A q \in DOMAIN rooms' : rooms'[q] # NoRoom => RoomOK(rooms'[q]) /\ Indexed(rooms'[q], Twice(q)')
    BY <2>3, <2>4 DEF InvRooms
  <2>7. \A d \in Clients : pc'[d] = "enter" => arg'[d] \in DOMAIN rooms'
    BY <2>1, <2>3 DEF InvRooms
  <2> QED BY <2>5, <2>6, <2>7 DEF InvRooms
<1>4. ASSUME NEW c \in Clients, Enter(c) PROVE InvRooms'
  <2>1. PICK r \in DOMAIN rooms : r = arg[c]
    BY <1>4 DEF Enter, InvRooms
  <2>2. /\ arg' = [arg EXCEPT ![c] = 0] /\ pc' = [pc EXCEPT ![c] = "reply"]
        /\ \A d \in Clients : pc'[d] = "enter" => pc[d] = "enter" /\ arg'[d] = arg[d]
    BY <1>0, <1>4 DEF Enter, Goto
  <2>3. CASE UNCHANGED <<rooms, reentered>>
    BY <2>2, <2>3 DEF InvRooms, Twice, Members
  <2>4. CASE /\ rooms[r] # NoRoom /\ Admit(r, id[c])
             /\ reentered' = IF id[c] \in Members(r) THEN reentered \cup {<<r, id[c]>>} ELSE reentered
    <3>1. /\ rooms' \in [DOMAIN rooms -> {rooms'[q] : q \in DOMAIN rooms}]
          /\ \A q \in DOMAIN rooms : q # r => rooms'[q] = rooms[q]
          /\ rooms'[r] = Admitted(rooms[r], id[c])
      BY <2>4 DEF Admit, Admitted, InvRooms, Index, Members
    <3>2. /\ RoomOK(rooms'[r])
          /\ DOMAIN rooms'[r].players = DOMAIN rooms[r].players \cup {id[c]}
          /\ \A now : Twice(r) \subseteq now /\ (id[c] \in Members(r) => id[c] \in now)
               => Indexed(rooms'[r], now)
      <4> DEFINE room == rooms[r]
                 after == rooms'[r]
      <4>1. RoomOK(room) /\ Indexed(room, Twice(r))
        BY <2>4 DEF InvRooms
      <4>2. after = Admitted(room, id[c])
        BY <3>1
      <4>3. Members(r) = DOMAIN room.players
        BY DEF Members
      <4> HIDE DEF room, after
      <4>4. /\ RoomOK(after) /\ DOMAIN after.players = DOMAIN room.players \cup {id[c]}
            /\ \A twice, now :
                 /\ Indexed(room, twice)
                 /\ twice \subseteq now
                 /\ id[c] \in DOMAIN room.players => id[c] \in now
                 => Indexed(after, now)
        BY <4>1, <4>2, AdmitRoom
      <4>5. \A now : Twice(r) \subseteq now /\ (id[c] \in Members(r) => id[c] \in now)
              => Indexed(after, now)
        BY <4>1, <4>3, <4>4
      <4> QED BY <4>4, <4>5 DEF room, after
    <3>3. /\ reentered \subseteq reentered'
          /\ \A q, u : <<q, u>> \in reentered' => <<q, u>> \in reentered \/ (q = r /\ u = id[c])
          /\ id[c] \in Members(r) => <<r, id[c]>> \in reentered'
      BY <2>4
    <3>4. /\ Twice(r)' = {u \in DOMAIN rooms'[r].players : <<r, u>> \in reentered'}
          /\ \A q \in DOMAIN rooms : q # r => Twice(q)' = Twice(q)
      BY <3>1, <3>3 DEF Twice, Members
    <3>5. Twice(r) \subseteq Twice(r)' /\ (id[c] \in Members(r) => id[c] \in Twice(r)')
      BY <3>2, <3>3, <3>4 DEF Twice, Members
    <3>6. Indexed(rooms'[r], Twice(r)')
      BY <3>2, <3>5
    <3>7. \A q \in DOMAIN rooms : rooms'[q] # NoRoom =>
            RoomOK(rooms'[q]) /\ Indexed(rooms'[q], Twice(q)')
      BY <2>4, <3>1, <3>2, <3>4, <3>6 DEF InvRooms
    <3> QED BY <2>2, <3>1, <3>7 DEF InvRooms
  <2> QED BY <1>4, <2>1, <2>3, <2>4 DEF Enter
<1>5. ASSUME NEW c \in Clients, SpawnActor(c) PROVE InvRooms'
  <2>1. UNCHANGED <<pc, arg, reentered>>
    BY <1>5 DEF SpawnActor, handlerVars
  <2>2. CASE UNCHANGED rooms
    BY <2>1, <2>2 DEF InvRooms, Twice, Members
  <2>3. ASSUME NEW r \in RoomsOf(udpId[c]), rooms' = [rooms EXCEPT ![r].ready = TRUE]
        PROVE  InvRooms'
    <3>0. r \in DOMAIN rooms /\ rooms[r] # NoRoom /\ RoomOK(rooms[r])
      BY DEF RoomsOf, InvRooms
    <3>1. /\ rooms' \in [DOMAIN rooms -> {rooms'[q] : q \in DOMAIN rooms}]
          /\ \A q \in DOMAIN rooms : q # r => rooms'[q] = rooms[q]
          /\ rooms'[r] = [rooms[r] EXCEPT !.ready = TRUE]
      BY <2>3, <3>0 DEF InvRooms
    <3>2. /\ RoomOK(rooms'[r]) /\ DOMAIN rooms'[r].players = DOMAIN rooms[r].players
          /\ \A twice : Indexed(rooms[r], twice) => Indexed(rooms'[r], twice)
      BY <3>0, <3>1, ReadyRoom
    <3>3. \A q \in DOMAIN rooms : Twice(q)' = Twice(q)
      BY <2>1, <3>1, <3>2 DEF Twice, Members
    <3> QED BY <2>1, <3>0, <3>1, <3>2, <3>3 DEF InvRooms
  <2> QED BY <1>5, <2>2, <2>3 DEF SpawnActor
<1>6. ASSUME NEW c \in Clients,
             Login(c) \/ SetId(c) \/ AddTouch(c) \/ AddPut(c) \/ Reply(c)
      PROVE  InvRooms'
  <2>1. /\ UNCHANGED <<rooms, reentered>>
        /\ \A d \in Clients : pc'[d] = "enter" => pc[d] = "enter" /\ arg'[d] = arg[d]
    BY <1>0, <1>6 DEF Login, SetId, AddTouch, AddPut, Reply, Goto, roomVars, handlerVars
  <2> QED BY <2>1 DEF InvRooms, Twice, Members
<1>7. ASSUME \/ \E c \in Clients :
                  \/ EnterGame(c) \/ Handshake(c) \/ CloseTcp(c) \/ RemoveTcp(c)
                  \/ CloseUdp(c) \/ RemoveUdp(c)
             \/ HandshakePut \/ SpawnJob \/ Tick \/ UNCHANGED vars
      PROVE  InvRooms'
  <2>1. UNCHANGED <<rooms, reentered, pc, arg>>
    BY <1>7 DEF EnterGame, Handshake, CloseTcp, RemoveTcp, CloseUdp, RemoveUdp, HandshakePut,
                SpawnJob, Tick, vars, roomVars, handlerVars
  <2> QED BY <2>1 DEF InvRooms, Twice, Members
<1> QED BY <1>1, <1>2, <1>3, <1>4, <1>5, <1>6, <1>7 DEF Next

-----------------------------------------------------------------------------
(* Theorems *)

\* Nobody has logged in yet.
LEMMA InitLobby == Init => LobbyInv /\ InvRooms
<1> SUFFICES ASSUME Init PROVE LobbyInv /\ InvRooms
  OBVIOUS
<1>1. LobbyTypeOK
  <2>1. raced \in BOOLEAN /\ bundles \in [DOMAIN bundles -> Bundles]
    BY DEF Init
  <2>2. /\ nextUserId \in Nat \ {0} /\ udpPc \in Clients \cup {NoClient}
        /\ cut \subseteq Clients /\ dangling \subseteq Clients \X {"login", "handshake", "tcp", "udp"}
    BY DEF Init
  <2>3. /\ tcp \in [Clients -> SessionStates] /\ udp \in [Clients -> SessionStates]
        /\ pc \in [Clients -> HandlerPlaces]
    BY DEF Init, SessionStates, HandlerPlaces
  <2>4. /\ id \in [Clients -> Nat] /\ udpId \in [Clients -> Nat] /\ gone \in [Clients -> Nat]
        /\ udpGone \in [Clients -> Nat]
        /\ arg = [c \in Clients |-> arg[c]] /\ \A c \in Clients : arg[c] \in Nat
    BY DEF Init
  <2> QED BY <2>1, <2>2, <2>3, <2>4 DEF LobbyTypeOK
<1>2. InvReferences /\ InvSessions /\ InvAdded /\ InvClosed /\ InvDangling
  BY EmptyFacts DEF Init, InvReferences, InvSessions, InvAdded, InvClosed, InvDangling, InBundle
<1>3. InvIds
  BY DEF Init, InvIds, Owns
<1>4. InvRooms
  BY DEF Init, InvRooms
<1> QED BY <1>1, <1>2, <1>3, <1>4 DEF LobbyInv

\* Every step keeps the directory's invariant.
LEMMA NextLobby == LobbyInv /\ [Next]_vars => LobbyInv'
BY RoomSteps, LoginKeeps, SetIdKeeps, AddTouchKeeps, AddPutKeeps, HandshakeKeeps,
   HandshakePutKeeps, CloseTcpKeeps, RemoveTcpKeeps, CloseUdpKeeps, RemoveUdpKeeps
   DEF Next

\* The directory of sessions and the rooms keep their invariants, however the
\* handlers, disconnects, jobs and ticks interleave.
THEOREM LobbyInvariance == Spec => [](LobbyInv /\ InvRooms)
<1>1. LobbyInv /\ InvRooms /\ [Next]_vars => (LobbyInv /\ InvRooms)'
  BY NextLobby, RoomsKept, Parts
<1> QED BY InitLobby, <1>1, PTL DEF Spec

\* SessionManager: whoever has logged in and is still connected is found under
\* its id, however the adds, removals and lookups of the others interleave.
THEOREM FoundUntilClosed == Spec => []SessionsFindable
<1>1. LobbyInv => SessionsFindable
  BY Parts DEF SessionsFindable, InvAdded, InBundle
<1> QED BY LobbyInvariance, <1>1, PTL

\* SessionManager::Remove: a session does not come back after its removal,
\* unless it was closed in the middle of its login or has logged in twice.
THEOREM RemovedForGood == Spec => []NoDeadSession
<1>1. LobbyInv => NoDeadSession
  BY Parts DEF NoDeadSession, InvClosed, InBundle
<1> QED BY LobbyInvariance, <1>1, PTL

\* SessionManager::Remove: the references two removals take before the lock do
\* not invalidate each other; only an Add under way is left with one.
THEOREM RemovalsSafe == Spec => []RemovalsCompatible
<1>1. LobbyInv => RemovalsCompatible
  <2> SUFFICES ASSUME LobbyInv, ~ raced, NEW h \in dangling
               PROVE  \/ h[2] \in {"login", "handshake"}
                      \/ h[2] = "tcp" /\ (h[1] \in cut \/ gone[h[1]] = 0)
                      \/ h[2] = "udp" /\ <<h[1], "handshake">> \in dangling
    BY DEF RemovalsCompatible
  <2>1. PICK c \in Clients, k \in {"login", "handshake", "tcp", "udp"} : h = <<c, k>>
    BY Parts DEF LobbyTypeOK
  <2> QED BY <2>1, Parts DEF InvDangling
<1> QED BY LobbyInvariance, <1>1, PTL

\* Room::Enter: a player who has entered a room once has the index of no other
\* player who has, however often others enter it again.
THEOREM OwnIndex == Spec => []IndicesDistinct
<1>1. InvRooms => IndicesDistinct
  BY DEF InvRooms, IndicesDistinct, Indexed, Members, Twice
<1> QED BY LobbyInvariance, <1>1, PTL
=============================================================================
