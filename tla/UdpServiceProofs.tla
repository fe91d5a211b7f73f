-------------------------- MODULE UdpServiceProofs --------------------------
(***************************************************************************)
(* What UdpService promises for every number of threads, clients, sessions *)
(* and datagrams: packets are handled in the session of their sender, one  *)
(* listener at a time, and sessions leave the service exactly once.        *)
(***************************************************************************)
EXTENDS UdpService, TLAPS

\* A thread between Dispatch and ReadAddress finds in _remoteAddr the sender of
\* its datagram, and after ReadAddress it has the address in `from'.  Registered
\* sessions have an address.
ReceiverInv ==
  /\ \A s \in udpSessions : address[s] # NoAddress
  /\ receive = "failed" => broken
  /\ receive = "completed" => remoteAddr = sender /\ sender \in Addresses
  /\ \A t \in Threads :
       /\ pc[t] \in InReceive => datagramOf[t] \in Addresses
       /\ pc[t] = "dispatch" => remoteAddr = datagramOf[t]
       /\ pc[t] = "find" => from[t] = datagramOf[t]
       /\ pc[t] \in {"handle", "add", "register"} => session[t] \in Sessions

\* The session a thread disconnects is its own until it is released.
LeavingInv ==
  /\ \A t \in Threads : pc[t] \in Leaving => session[t] \in udpSessions \ connected
  /\ \A t, u \in Threads :
       pc[t] \in Leaving /\ pc[u] \in Leaving /\ session[t] = session[u] => t = u

\* While a session is being removed under an id that is still its own, it can be
\* listed there; after Remove only an overlapping handshake lists it again.
RemovedInv ==
  /\ \A t \in Threads : pc[t] = "remove" /\ session[t] \notin overlapped =>
       key[t] = id[session[t]]
  /\ \A t \in Threads : pc[t] = "release" =>
       \A u \in Users : bundles[u] = session[t] =>
         id[session[t]] # u \/ session[t] \in overlapped

IInv ==
  /\ TypeOK
  /\ OneListener
  /\ ReceiverInv /\ RightSession
  /\ LeavingInv /\ RemovedInv /\ ListedAlive

-----------------------------------------------------------------------------

LEMMA InitIInv == Init => IInv
<1> SUFFICES ASSUME Init PROVE IInv
  OBVIOUS
<1> USE ServiceAssumption DEF ServiceAssumption, Init, InReceive, Leaving
<1>1. TypeOK
  <2>0. broken \in BOOLEAN
    BY Zenon
  <2>1. /\ receive \in {"armed", "completed", "failed", "none"}
        /\ datagrams \in 0..MaxDatagrams
        /\ remoteAddr \in Addresses \cup {NoAddress} /\ sender \in Addresses \cup {NoAddress}
    OBVIOUS
  <2>2. /\ udpSessions \subseteq Sessions /\ connected \subseteq udpSessions
        /\ id \in [Sessions -> Users] /\ overlapped \subseteq Sessions
        /\ bundles \in [Users -> Sessions \cup {NoSession}]
    OBVIOUS
  <2>3. /\ pc \in [Threads -> InReceive \cup Leaving \cup {"idle"}]
        /\ address \in [Sessions -> Addresses \cup {NoAddress}]
    OBVIOUS
  <2>4. /\ from \in [Threads -> Addresses \cup {NoAddress}]
        /\ session \in [Threads -> Sessions \cup {NoSession}]
        /\ datagramOf \in [Threads -> Addresses \cup {NoAddress}]
        /\ key \in [Threads -> Users]
    OBVIOUS
  <2> QED
    BY <2>0, <2>1, <2>2, <2>3, <2>4 DEF TypeOK
<1>2. OneListener /\ ReceiverInv /\ RightSession
  BY DEF OneListener, ReceiverInv, RightSession
<1>3. LeavingInv /\ RemovedInv /\ ListedAlive
  BY DEF LeavingInv, RemovedInv, ListedAlive
<1> QED
  BY <1>1, <1>2, <1>3 DEF IInv

LEMMA TypeStep == TypeOK /\ LeavingInv /\ ReceiverInv /\ [Next]_vars => TypeOK'
<1> SUFFICES ASSUME TypeOK, LeavingInv, ReceiverInv, [Next]_vars PROVE TypeOK'
  OBVIOUS
<1> USE ServiceAssumption DEF ServiceAssumption, TypeOK, InReceive, Leaving, Goto
<1>1. ASSUME NEW a \in Addresses, Arrive(a) PROVE TypeOK'
  BY <1>1 DEF Arrive, serviceVars, threadVars, managerVars
<1>2. CASE Fail
  BY <1>2 DEF Fail, serviceVars, threadVars, managerVars
<1>3. ASSUME NEW t \in Threads, Dispatch(t) PROVE TypeOK'
  BY <1>3 DEF Dispatch, managerVars, serviceVars
<1>4. ASSUME NEW t \in Threads, DispatchNothing(t) PROVE TypeOK'
  BY <1>4 DEF DispatchNothing, serviceVars, threadVars, managerVars
<1>5. ASSUME NEW t \in Threads, ReadAddress(t) PROVE TypeOK'
  BY <1>5 DEF ReadAddress, managerVars, serviceVars, receiverVars
<1>6. ASSUME NEW t \in Threads, FindOrCreateUdpSession(t) PROVE TypeOK'
  BY <1>6 DEF FindOrCreateUdpSession, managerVars, Registered, Fresh, serviceVars, receiverVars
<1>7. ASSUME NEW t \in Threads, HandleHandshake(t) PROVE TypeOK'
  <2>1. session[t] \in Sessions
    BY <1>7 DEF HandleHandshake, ReceiverInv
  <2> QED
    BY <1>7, <2>1 DEF HandleHandshake, Overlap, serviceVars, receiverVars
<1>8. ASSUME NEW t \in Threads, HandleOther(t) PROVE TypeOK'
  BY <1>8 DEF HandleOther, managerVars, serviceVars, receiverVars
<1>9. ASSUME NEW t \in Threads, RegisterRecv(t) PROVE TypeOK'
  BY <1>9 DEF RegisterRecv, managerVars, serviceVars
<1>10. ASSUME NEW t \in Threads, Disconnect(t) PROVE TypeOK'
  BY <1>10 DEF Disconnect, managerVars, receiverVars
<1>11. ASSUME NEW t \in Threads, OnDisconnected(t) PROVE TypeOK'
  BY <1>11 DEF OnDisconnected, LeavingInv, managerVars, serviceVars, receiverVars
<1>14. ASSUME NEW t \in Threads, Remove(t) PROVE TypeOK'
  BY <1>14 DEF Remove, serviceVars, receiverVars
<1>15. ASSUME NEW t \in Threads, Add(t) PROVE TypeOK'
  <2>1. session[t] \in Sessions
    BY <1>15 DEF Add, ReceiverInv
  <2> QED
    BY <1>15, <2>1 DEF Add, Overlap, serviceVars, receiverVars
<1>12. ASSUME NEW t \in Threads, ReleaseUdpSession(t) PROVE TypeOK'
  <2>1. session[t] \notin connected
    BY <1>12 DEF ReleaseUdpSession, managerVars, LeavingInv, Leaving
  <2> QED
    BY <1>12, <2>1 DEF ReleaseUdpSession, managerVars, receiverVars
<1>13. CASE UNCHANGED vars
  BY <1>13 DEF vars, receiverVars, serviceVars, threadVars, managerVars
<1> QED
  BY <1>1, <1>2, <1>3, <1>4, <1>5, <1>6, <1>7, <1>8, <1>9, <1>10, <1>11, <1>12, <1>13, <1>14, <1>15 DEF Next

\* The receiver's half: who listens, and for whom.
LEMMA ReceiverStep ==
  TypeOK /\ OneListener /\ ReceiverInv /\ RightSession /\ [Next]_vars
    => OneListener' /\ ReceiverInv' /\ RightSession'
<1> DEFINE Goal == OneListener' /\ ReceiverInv' /\ RightSession'
<1> SUFFICES ASSUME TypeOK, OneListener, ReceiverInv, RightSession, [Next]_vars PROVE Goal
  OBVIOUS
<1> USE ServiceAssumption
    DEF ServiceAssumption, TypeOK, InReceive, Leaving, Goto, OneListener, ReceiverInv, RightSession
<1>1. ASSUME NEW a \in Addresses, Arrive(a) PROVE Goal
  BY <1>1 DEF Arrive, serviceVars, threadVars, managerVars
<1>2. CASE Fail
  BY <1>2 DEF Fail, serviceVars, threadVars, managerVars
<1>3. ASSUME NEW t \in Threads, Dispatch(t) PROVE Goal
  BY <1>3 DEF Dispatch, managerVars, serviceVars
<1>4. ASSUME NEW t \in Threads, DispatchNothing(t) PROVE Goal
  BY <1>4 DEF DispatchNothing, serviceVars, threadVars, managerVars
<1>5. ASSUME NEW t \in Threads, ReadAddress(t) PROVE Goal
  BY <1>5 DEF ReadAddress, managerVars, serviceVars, receiverVars
<1>6. ASSUME NEW t \in Threads, FindOrCreateUdpSession(t) PROVE Goal
  <2>1. \A s \in udpSessions' : address'[s] # NoAddress
    <3>1. from[t] # NoAddress
      BY <1>6 DEF FindOrCreateUdpSession
    <3> QED
      BY <3>1, <1>6 DEF FindOrCreateUdpSession, managerVars, Registered, Fresh, serviceVars, receiverVars
  <2>2. session'[t] \in Sessions
    BY <1>6 DEF FindOrCreateUdpSession, managerVars, Registered, Fresh
  <2>3. \A u \in Threads \ {t} : pc'[u] = pc[u] /\ session'[u] = session[u]
    BY <1>6 DEF FindOrCreateUdpSession, managerVars, Registered, Fresh
  <2>4. UNCHANGED <<receive, remoteAddr, sender, from, datagramOf, broken>> /\ pc'[t] = "handle"
    BY <1>6 DEF FindOrCreateUdpSession, receiverVars
  <2>5. OneListener' /\ ReceiverInv'
    BY <2>1, <2>2, <2>3, <2>4, <1>6 DEF FindOrCreateUdpSession
  <2>6. address'[session'[t]] = from[t] /\ from[t] = datagramOf[t] /\ datagramOf' = datagramOf
    BY <1>6 DEF FindOrCreateUdpSession, managerVars, Registered, Fresh, serviceVars, receiverVars
  <2>7. \A u \in Threads \ {t} : pc'[u] \notin {"handle", "add", "register"}
    BY <1>6 DEF FindOrCreateUdpSession
  <2>8. \A u \in Threads : pc'[u] \in {"handle", "add", "register"} =>
          address'[session'[u]] = datagramOf'[u]
    BY <2>6, <2>7
  <2> QED
    BY <2>5, <2>8 DEF RightSession
<1>7. ASSUME NEW t \in Threads, HandleHandshake(t) PROVE Goal
  BY <1>7 DEF HandleHandshake, Overlap, serviceVars, receiverVars
<1>8. ASSUME NEW t \in Threads, HandleOther(t) PROVE Goal
  BY <1>8 DEF HandleOther, managerVars, serviceVars, receiverVars
<1>9. ASSUME NEW t \in Threads, RegisterRecv(t) PROVE Goal
  BY <1>9 DEF RegisterRecv, managerVars, serviceVars
<1>10. ASSUME NEW t \in Threads, Disconnect(t) PROVE Goal
  BY <1>10 DEF Disconnect, managerVars, receiverVars
<1>11. ASSUME NEW t \in Threads, OnDisconnected(t) PROVE Goal
  BY <1>11 DEF OnDisconnected, managerVars, serviceVars, receiverVars
<1>14. ASSUME NEW t \in Threads, Remove(t) PROVE Goal
  BY <1>14 DEF Remove, serviceVars, receiverVars
<1>15. ASSUME NEW t \in Threads, Add(t) PROVE Goal
  BY <1>15 DEF Add, Overlap, serviceVars, receiverVars
<1>12. ASSUME NEW t \in Threads, ReleaseUdpSession(t) PROVE Goal
  BY <1>12 DEF ReleaseUdpSession, managerVars, receiverVars
<1>13. CASE UNCHANGED vars
  BY <1>13 DEF vars, receiverVars, serviceVars, threadVars, managerVars
<1> QED
  BY <1>1, <1>2, <1>3, <1>4, <1>5, <1>6, <1>7, <1>8, <1>9, <1>10, <1>11, <1>12, <1>13, <1>14, <1>15 DEF Next

\* The sessions' half: who is leaving, and who is listed.
LEMMA SessionStep ==
  TypeOK /\ ReceiverInv /\ LeavingInv /\ RemovedInv /\ ListedAlive /\ [Next]_vars
    => LeavingInv' /\ RemovedInv' /\ ListedAlive'
<1> DEFINE Goal == LeavingInv' /\ RemovedInv' /\ ListedAlive'
<1> SUFFICES ASSUME TypeOK, ReceiverInv, LeavingInv, RemovedInv, ListedAlive, [Next]_vars PROVE Goal
  OBVIOUS
<1> USE ServiceAssumption
    DEF ServiceAssumption, TypeOK, InReceive, Goto, Leaving, LeavingInv, RemovedInv, ListedAlive
<1>1. ASSUME NEW a \in Addresses, Arrive(a) PROVE Goal
  BY <1>1 DEF Arrive, serviceVars, threadVars, managerVars
<1>2. CASE Fail
  BY <1>2 DEF Fail, serviceVars, threadVars, managerVars
<1>3. ASSUME NEW t \in Threads, Dispatch(t) PROVE Goal
  BY <1>3 DEF Dispatch, managerVars, serviceVars
<1>4. ASSUME NEW t \in Threads, DispatchNothing(t) PROVE Goal
  BY <1>4 DEF DispatchNothing, serviceVars, threadVars, managerVars
<1>5. ASSUME NEW t \in Threads, ReadAddress(t) PROVE Goal
  BY <1>5 DEF ReadAddress, managerVars, serviceVars, receiverVars
<1>6. ASSUME NEW t \in Threads, FindOrCreateUdpSession(t) PROVE Goal
  <2>1. /\ udpSessions \subseteq udpSessions' /\ UNCHANGED <<id, bundles, overlapped, key>>
        /\ \A u \in Threads : pc'[u] \in Leaving => u # t /\ pc'[u] = pc[u] /\ session'[u] = session[u]
    BY <1>6 DEF FindOrCreateUdpSession, managerVars, Registered, Fresh, serviceVars, receiverVars
  <2>2. \A u \in Threads : pc'[u] \in Leaving => session'[u] \notin connected'
    BY <1>6, <2>1 DEF ReceiverInv, FindOrCreateUdpSession, Registered, Fresh, serviceVars, receiverVars
  <2> QED
    BY <2>1, <2>2
<1>7. ASSUME NEW t \in Threads, HandleHandshake(t) PROVE Goal
  BY <1>7 DEF HandleHandshake, Overlap, serviceVars, receiverVars
<1>8. ASSUME NEW t \in Threads, HandleOther(t) PROVE Goal
  BY <1>8 DEF HandleOther, managerVars, serviceVars, receiverVars
<1>9. ASSUME NEW t \in Threads, RegisterRecv(t) PROVE Goal
  BY <1>9 DEF RegisterRecv, managerVars, serviceVars
<1>10. ASSUME NEW t \in Threads, Disconnect(t) PROVE Goal
  BY <1>10 DEF Disconnect, managerVars, receiverVars
<1>11. ASSUME NEW t \in Threads, OnDisconnected(t) PROVE Goal
  BY <1>11 DEF OnDisconnected, managerVars, serviceVars, receiverVars
<1>14. ASSUME NEW t \in Threads, Remove(t) PROVE Goal
  BY <1>14 DEF Remove, serviceVars, receiverVars
<1>15. ASSUME NEW t \in Threads, Add(t) PROVE Goal
  BY <1>15 DEF Add, Overlap, serviceVars, receiverVars
<1>12. ASSUME NEW t \in Threads, ReleaseUdpSession(t) PROVE Goal
  BY <1>12 DEF ReleaseUdpSession, managerVars, receiverVars
<1>13. CASE UNCHANGED vars
  BY <1>13 DEF vars, receiverVars, serviceVars, threadVars, managerVars
<1> QED
  BY <1>1, <1>2, <1>3, <1>4, <1>5, <1>6, <1>7, <1>8, <1>9, <1>10, <1>11, <1>12, <1>13, <1>14, <1>15 DEF Next

\* The inductive invariant holds of every reachable state of the receiver and
\* the service.
THEOREM Inductive == Spec => []IInv
<1>1. IInv /\ [Next]_vars => IInv'
  BY TypeStep, ReceiverStep, SessionStep DEF IInv
<1> QED
  BY <1>1, InitIInv, PTL DEF Spec

-----------------------------------------------------------------------------
(* What follows from it *)

\* Every connected UDP session is registered in Service::_udpSessions, and the
\* other variables keep to their types.
THEOREM TypeCorrect == Spec => []TypeOK
BY Inductive, PTL DEF IInv

\* UdpReceiver::Dispatch hands each packet to the session of its sender although
\* _remoteAddr is shared by all threads.
THEOREM PacketsReachTheirSession == Spec => []RightSession
BY Inductive, PTL DEF IInv

\* As long as no receive fails, UdpReceiver goes on receiving, one receive at a time.
THEOREM ListensUntilFailure == Spec => []OneListener
BY Inductive, PTL DEF IInv

\* SessionManager names a released session only under an id the session had
\* before, or after a handshake handled during the disconnect.
THEOREM ListedUntilReleased == Spec => []ListedAlive
BY Inductive, PTL DEF IInv

\* The assertion of Service::ReleaseUdpSession never fails.
THEOREM ReleaseNeverAsserts == Spec => []ReleaseFinds
<1>1. IInv => ReleaseFinds
  BY DEF IInv, LeavingInv, Leaving, ReleaseFinds
<1> QED BY <1>1, Inductive, PTL
=============================================================================
