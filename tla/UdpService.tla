----------------------------- MODULE UdpService -----------------------------
(***************************************************************************)
(* How datagrams find their session: UdpReceiver, the UDP sessions of      *)
(* Service, and the way UdpSession enters and leaves both the service and  *)
(* the game's SessionManager.                                              *)
(*                                                                         *)
(* One receive is outstanding at a time and the kernel writes the sender's *)
(* address into a member of the receiver; any network thread dispatches    *)
(* the completion and registers the next receive when it has handled the   *)
(* packet.  Any thread may disconnect a session whose send went wrong.     *)
(* Every datagram is one packet, as the clients send them.                 *)
(*                                                                         *)
(* A handshake may name any user id and may come again: the session takes  *)
(* the id and is put into the bundle of that id, and a disconnect clears   *)
(* the bundle of the id the session has then, whoever is in it.            *)
(***************************************************************************)
EXTENDS Naturals

CONSTANTS
  Threads,
  Addresses, NoAddress,
  Sessions, NoSession,   \* the session objects; each is made at most once
  Users, FirstId,        \* user ids, and the one a session starts with
  MaxDatagrams           \* bound: datagrams received

ASSUME ServiceAssumption ==
  /\ NoAddress \notin Addresses /\ NoSession \notin Sessions
  /\ FirstId \in Users
  /\ MaxDatagrams \in Nat

VARIABLES
  receive,      \* the one receive: "armed", "completed", "failed", or "none"
  remoteAddr,   \* _remoteAddr
  sender,       \* who sent the datagram of the completion
  datagrams,    \* datagrams received
  udpSessions,  \* _udpSessions
  address,      \* _remoteNetAddress of each session made
  connected,    \* sessions with _connected set
  id,           \* Session::_id
  bundles,      \* the UDP session of each user's bundle in _sessionMap
  pc, from, session,    \* each thread: place, its `from', its session
  key,          \* the id a thread read to find a bundle
  datagramOf,   \* the sender of the datagram each thread dispatches
  broken,       \* history: a receive has failed
  overlapped    \* history: sessions that shook hands while disconnecting

receiverVars == <<receive, remoteAddr, sender, datagrams, broken>>
serviceVars == <<udpSessions, address, connected>>
threadVars == <<pc, from, session, datagramOf, key>>
managerVars == <<id, bundles, overlapped>>
vars == <<receiverVars, serviceVars, threadVars, managerVars>>

Init ==
  /\ receive = "armed"
  /\ remoteAddr = NoAddress /\ sender = NoAddress
  /\ datagrams = 0
  /\ udpSessions = {} /\ connected = {}
  /\ id = [s \in Sessions |-> FirstId]
  /\ bundles = [u \in Users |-> NoSession]
  /\ address = [s \in Sessions |-> NoAddress]
  /\ pc = [t \in Threads |-> "idle"]
  /\ from = [t \in Threads |-> NoAddress]
  /\ session = [t \in Threads |-> NoSession]
  /\ datagramOf = [t \in Threads |-> NoAddress]
  /\ key = [t \in Threads |-> FirstId]
  /\ broken = FALSE
  /\ overlapped = {}

Goto(t, place) == pc' = [pc EXCEPT ![t] = place]

-----------------------------------------------------------------------------
(* The kernel *)

Arrive(a) ==
  /\ receive = "armed"
  /\ datagrams < MaxDatagrams
  /\ receive' = "completed"
  /\ remoteAddr' = a /\ sender' = a
  /\ datagrams' = datagrams + 1
  /\ UNCHANGED <<serviceVars, threadVars, managerVars, broken>>

\* The receive fails, or a datagram without bytes completes it.
Fail ==
  /\ receive = "armed"
  /\ receive' = "failed"
  /\ broken' = TRUE
  /\ UNCHANGED <<remoteAddr, sender, datagrams, serviceVars, threadVars, managerVars>>

-----------------------------------------------------------------------------
(* UdpReceiver *)

\* Fault: the next receive is registered as soon as the event is dequeued.
DispatchRearms(t) ==
  /\ pc[t] = "idle"
  /\ receive = "completed"
  /\ receive' = "armed"
  /\ datagramOf' = [datagramOf EXCEPT ![t] = sender]
  /\ Goto(t, "dispatch")
  /\ UNCHANGED <<remoteAddr, sender, datagrams, broken, from, session, key, serviceVars,
                 managerVars>>

Dispatch(t) ==
  /\ pc[t] = "idle"
  /\ receive = "completed"
  /\ receive' = "none"
  /\ datagramOf' = [datagramOf EXCEPT ![t] = sender]
  /\ Goto(t, "dispatch")
  /\ UNCHANGED <<remoteAddr, sender, datagrams, broken, from, session, key, serviceVars,
                 managerVars>>

\* No bytes: Dispatch returns, and nothing is received any more.
DispatchNothing(t) ==
  /\ pc[t] = "idle"
  /\ receive = "failed"
  /\ receive' = "none"
  /\ UNCHANGED <<remoteAddr, sender, datagrams, broken, threadVars, serviceVars, managerVars>>

\* NetAddress from(_remoteAddr)
ReadAddress(t) ==
  /\ pc[t] = "dispatch"
  /\ from' = [from EXCEPT ![t] = remoteAddr]
  /\ Goto(t, "find")
  /\ UNCHANGED <<receiverVars, serviceVars, session, datagramOf, key, managerVars>>

\* Under the service's lock: a registered session with that address, or a new
\* one, which ProcessConnect connects and CompleteUdpHandshake moves from the
\* pending sessions to the registered ones before the lock is released.
Registered(a) == {s \in udpSessions : address[s] = a}

Fresh == {s \in Sessions : address[s] = NoAddress}

FindOrCreateUdpSession(t) ==
  /\ pc[t] = "find"
  /\ \/ /\ \E s \in Registered(from[t]) : session' = [session EXCEPT ![t] = s]
        /\ UNCHANGED serviceVars
     \/ /\ Registered(from[t]) = {}
        /\ \E s \in Fresh :
             /\ session' = [session EXCEPT ![t] = s]
             /\ address' = [address EXCEPT ![s] = from[t]]
             /\ connected' = connected \cup {s}
             /\ udpSessions' = udpSessions \cup {s}
  /\ Goto(t, "handle")
  /\ UNCHANGED <<receiverVars, from, datagramOf, key, managerVars>>

\* Whether the handshake of s meets its disconnect.
Overlap(s) ==
  overlapped' = IF s \in connected THEN overlapped ELSE overlapped \cup {s}

\* Handle_C_HANDSHAKE: the session takes the user id the datagram names.
HandleHandshake(t) ==
  /\ pc[t] = "handle"
  /\ \E u \in Users : id' = [id EXCEPT ![session[t]] = u]
  /\ Overlap(session[t])
  /\ Goto(t, "add")
  /\ UNCHANGED <<receiverVars, serviceVars, from, session, datagramOf, key, bundles>>

\* Fault: the handler returns without the next receive.
AddReturns(t) ==
  /\ pc[t] = "add"
  /\ bundles' = [bundles EXCEPT ![id[session[t]]] = session[t]]
  /\ Overlap(session[t])
  /\ Goto(t, "idle")
  /\ UNCHANGED <<receiverVars, serviceVars, from, session, datagramOf, key, id>>

\* SessionManager::Add replaces the UDP session of the bundle; GetId comes before
\* the lock, but only the one thread that handles packets changes the id.
Add(t) ==
  /\ pc[t] = "add"
  /\ bundles' = [bundles EXCEPT ![id[session[t]]] = session[t]]
  /\ Overlap(session[t])
  /\ Goto(t, "register")
  /\ UNCHANGED <<receiverVars, serviceVars, from, session, datagramOf, key, id>>

\* The other handlers change neither ids nor bundles.
HandleOther(t) ==
  /\ pc[t] = "handle"
  /\ Goto(t, "register")
  /\ UNCHANGED <<receiverVars, serviceVars, from, session, datagramOf, key, managerVars>>

\* WSARecvFrom may refuse; the receiver prints the error.
RegisterRecv(t) ==
  /\ pc[t] = "register"
  /\ \/ receive' = "armed" /\ UNCHANGED broken
     \/ broken' = TRUE /\ UNCHANGED receive
  /\ Goto(t, "idle")
  /\ from' = [from EXCEPT ![t] = NoAddress]
  /\ session' = [session EXCEPT ![t] = NoSession]
  /\ datagramOf' = [datagramOf EXCEPT ![t] = NoAddress]
  /\ UNCHANGED <<remoteAddr, sender, datagrams, serviceVars, key, managerVars>>

-----------------------------------------------------------------------------
(* UdpSession::Disconnect *)

\* A send of the session failed or completed without bytes.  A handler whose
\* own send fails does the same steps before it returns; here another thread
\* does them, which can also come between any two steps of the handler.
Disconnect(t) ==
  /\ pc[t] = "idle"
  /\ \E s \in connected :
       /\ connected' = connected \ {s}
       /\ session' = [session EXCEPT ![t] = s]
  /\ Goto(t, "disconnected")
  /\ UNCHANGED <<receiverVars, udpSessions, address, from, datagramOf, key, managerVars>>

\* GetId in SessionManager::Remove, before the lock.
OnDisconnected(t) ==
  /\ pc[t] = "disconnected"
  /\ key' = [key EXCEPT ![t] = id[session[t]]]
  /\ Goto(t, "remove")
  /\ UNCHANGED <<receiverVars, serviceVars, from, session, datagramOf, managerVars>>

\* Fault: Remove leaves the session in the bundle.
RemoveKeeps(t) ==
  /\ pc[t] = "remove"
  /\ key' = [key EXCEPT ![t] = FirstId]
  /\ Goto(t, "release")
  /\ UNCHANGED <<receiverVars, serviceVars, from, session, datagramOf, managerVars>>

\* The bundle loses its UDP session, this one or another.
Remove(t) ==
  /\ pc[t] = "remove"
  /\ bundles' = [bundles EXCEPT ![key[t]] = NoSession]
  /\ key' = [key EXCEPT ![t] = FirstId]
  /\ Goto(t, "release")
  /\ UNCHANGED <<receiverVars, serviceVars, from, session, datagramOf, id, overlapped>>

\* ASSERT_CRASH(_udpSessions.erase(session) != 0)
ReleaseUdpSession(t) ==
  /\ pc[t] = "release"
  /\ session[t] \in udpSessions
  /\ udpSessions' = udpSessions \ {session[t]}
  /\ Goto(t, "idle")
  /\ session' = [session EXCEPT ![t] = NoSession]
  /\ UNCHANGED <<receiverVars, address, connected, from, datagramOf, key, managerVars>>

-----------------------------------------------------------------------------

Next ==
  \/ \E a \in Addresses : Arrive(a)
  \/ Fail
  \/ \E t \in Threads :
       \/ Dispatch(t) \/ DispatchNothing(t) \/ ReadAddress(t)
       \/ FindOrCreateUdpSession(t)
       \/ HandleHandshake(t) \/ Add(t) \/ HandleOther(t) \/ RegisterRecv(t)
       \/ Disconnect(t) \/ OnDisconnected(t) \/ Remove(t) \/ ReleaseUdpSession(t)

Spec == Init /\ [][Next]_vars

-----------------------------------------------------------------------------
(* Correctness *)

InReceive == {"dispatch", "find", "handle", "add", "register"}
Leaving == {"disconnected", "remove", "release"}

\* Every variable keeps to its values, and only registered sessions are connected.
TypeOK ==
  /\ receive \in {"armed", "completed", "failed", "none"}
  /\ remoteAddr \in Addresses \cup {NoAddress} /\ sender \in Addresses \cup {NoAddress}
  /\ datagrams \in 0..MaxDatagrams
  /\ udpSessions \subseteq Sessions /\ connected \subseteq udpSessions
  /\ id \in [Sessions -> Users] /\ overlapped \subseteq Sessions
  /\ bundles \in [Users -> Sessions \cup {NoSession}]
  /\ address \in [Sessions -> Addresses \cup {NoAddress}]
  /\ pc \in [Threads -> InReceive \cup Leaving \cup {"idle"}]
  /\ from \in [Threads -> Addresses \cup {NoAddress}]
  /\ session \in [Threads -> Sessions \cup {NoSession}]
  /\ datagramOf \in [Threads -> Addresses \cup {NoAddress}]
  /\ key \in [Threads -> Users]
  /\ broken \in BOOLEAN

\* A packet is handled in the session of the one who sent it.  _remoteAddr is
\* shared by all threads and read after the event was dequeued; what makes
\* that safe is that no receive is outstanding until the packet is handled.
RightSession ==
  \A t \in Threads : pc[t] \in {"handle", "add", "register"} =>
    address[session[t]] = datagramOf[t]

\* The server goes deaf only after a receive has failed: otherwise a receive is
\* outstanding, its completion waits, or exactly one thread is going to
\* register the next one.
OneListener ==
  /\ \A t, u \in Threads : pc[t] \in InReceive /\ pc[u] \in InReceive => t = u
  /\ receive # "none" => \A t \in Threads : pc[t] \notin InReceive
  /\ receive = "none" /\ (\A t \in Threads : pc[t] \notin InReceive) => broken

\* SessionManager hands out a session that has been released only under an id
\* the session had before it shook hands again under another, or when it shook
\* hands while it was disconnecting.
ListedAlive ==
  \A u \in Users : bundles[u] # NoSession =>
    \/ bundles[u] \in udpSessions
    \/ id[bundles[u]] # u
    \/ bundles[u] \in overlapped

\* Service::ReleaseUdpSession finds the session it releases.
ReleaseFinds ==
  \A t \in Threads : pc[t] = "release" => session[t] \in udpSessions
=============================================================================
