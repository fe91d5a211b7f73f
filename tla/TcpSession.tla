----------------------------- MODULE TcpSession -----------------------------
(***************************************************************************)
(* core::network::TcpSession: one session, the threads that call it, and   *)
(* the completion port that calls it back.  Threads send and disconnect at *)
(* any time; completions of the receive, of the send and of the disconnect *)
(* are dispatched by whichever thread dequeues them, at the same time.     *)
(*                                                                         *)
(* _sendRegistered is the token of the single _sendEvent: whoever turns it *)
(* to true runs RegisterSend, and the token travels with the WSASend until *)
(* ProcessSend finds the queue empty.                                      *)
(*                                                                         *)
(* The kernel is external: a WSA call succeeds, fails because the peer is  *)
(* gone (HandleError disconnects) or fails otherwise (HandleError only     *)
(* logs); an operation it took completes with bytes or with none.          *)
(***************************************************************************)
EXTENDS Naturals, Sequences, FiniteSets

CONSTANTS
  Threads,
  NoThread,     \* the session's lock is free
  MaxSends,     \* bound: buffers accepted by Send
  MaxRecvs      \* bound: receives that bring bytes

ASSUME TcpAssumption ==
  /\ NoThread \notin Threads
  /\ MaxSends \in Nat
  /\ MaxRecvs \in Nat

VARIABLES
  connected,        \* _connected
  sendQueue,        \* _sendQueue; a buffer is its number in acceptance order
  sendRegistered,   \* _sendRegistered
  sendBuffers,      \* _sendEvent.sendBuffers
  lock,             \* owner of the session's write lock
  owned,            \* events whose owner pointer keeps the session alive
  service,          \* membership in Service::_tcpSessions
  pc,               \* where each thread is
  after,            \* where a thread goes on when Disconnect returns
  kernel,           \* operations the kernel has taken and not completed
  wire,             \* buffers the kernel took, in order
  accepted,         \* buffers pushed by Send so far
  received,         \* receives with bytes so far
  failed            \* calls that failed without a disconnect: a set

vars == <<connected, sendQueue, sendRegistered, sendBuffers, lock, owned,
          service, pc, after, kernel, wire, accepted, received, failed>>

\* Abbreviations for what most steps leave alone.
sendVars == <<sendQueue, sendRegistered, sendBuffers, wire, accepted>>
restVars == <<service, received, failed>>

Init ==
  /\ connected = FALSE
  /\ sendQueue = <<>> /\ sendRegistered = FALSE /\ sendBuffers = <<>>
  /\ lock = NoThread
  /\ owned = {}
  /\ service = "absent"
  /\ pc = [t \in Threads |-> "idle"]
  /\ after = [t \in Threads |-> "idle"]
  /\ kernel = {"accept"}
  /\ wire = <<>>
  /\ accepted = 0 /\ received = 0
  /\ failed = {}

Goto(t, place) == pc' = [pc EXCEPT ![t] = place]

LockFree(t) == lock \in {NoThread, t}

-----------------------------------------------------------------------------
(* TcpSession::Disconnect and RegisterDisconnect.  CallDisconnect starts    *)
(* the call at the end of a step whose thread then goes on at `next'.       *)

\* Fault: what _connected was before is not looked at.
CallDisconnectAlways(t, next) ==
  /\ connected' = FALSE
  /\ Goto(t, "disconnect")
  /\ after' = [after EXCEPT ![t] = next]

CallDisconnect(t, next) ==
  /\ connected' = FALSE
  /\ IF connected
     THEN Goto(t, "disconnect") /\ after' = [after EXCEPT ![t] = next]
     ELSE Goto(t, next) /\ UNCHANGED after

Disconnect(t) ==
  /\ pc[t] = "idle"
  /\ service # "absent"
  /\ connected
  /\ CallDisconnect(t, "idle")
  /\ UNCHANGED <<sendVars, restVars, lock, owned, kernel>>

\* Fault: the call is never made.
RegisterDisconnectForgets(t) ==
  /\ pc[t] = "disconnect"
  /\ Goto(t, after[t])
  /\ UNCHANGED <<connected, sendVars, restVars, lock, owned, after, kernel>>

\* DisconnectEx taken by the kernel, or refused: then nothing ever completes.
RegisterDisconnect(t) ==
  /\ pc[t] = "disconnect"
  /\ Goto(t, after[t])
  /\ \/ /\ kernel' = kernel \cup {"disconnect"}
        /\ owned' = owned \cup {"disconnect"}
        /\ UNCHANGED failed
     \/ /\ failed' = failed \cup {"disconnect"}
        /\ UNCHANGED <<kernel, owned>>
  /\ UNCHANGED <<connected, sendVars, lock, service, after, received>>

\* Completion: OnDisconnected, then Service::ReleaseTcpSession, whose
\* assertion wants the session in the set.
ProcessDisconnect(t) ==
  /\ pc[t] = "idle"
  /\ "disconnect" \in kernel
  /\ kernel' = kernel \ {"disconnect"}
  /\ owned' = owned \ {"disconnect"}
  /\ service' = IF service = "registered" THEN "released" ELSE "assert failed"
  /\ UNCHANGED <<connected, sendVars, lock, pc, after, received, failed>>

-----------------------------------------------------------------------------
(* TcpSession::Send *)

Send(t) ==
  /\ pc[t] = "idle"
  /\ service # "absent"
  /\ connected
  /\ accepted < MaxSends
  /\ Goto(t, "push")
  /\ UNCHANGED <<connected, sendVars, restVars, lock, owned, after, kernel>>

\* Fault: every Send registers.
SendPushAlways(t) ==
  /\ pc[t] = "push"
  /\ LockFree(t)
  /\ accepted < MaxSends
  /\ accepted' = accepted + 1
  /\ sendQueue' = Append(sendQueue, accepted')
  /\ sendRegistered' = TRUE
  /\ Goto(t, "register send")
  /\ UNCHANGED <<connected, sendBuffers, wire, lock, owned, after, kernel, restVars>>

\* Push and exchange under the lock; the first one registers the send.
SendPush(t) ==
  /\ pc[t] = "push"
  /\ LockFree(t)
  /\ accepted < MaxSends
  /\ accepted' = accepted + 1
  /\ sendQueue' = Append(sendQueue, accepted')
  /\ sendRegistered' = TRUE
  /\ Goto(t, IF sendRegistered THEN "idle" ELSE "register send")
  /\ UNCHANGED <<connected, sendBuffers, wire, lock, owned, after, kernel, restVars>>

-----------------------------------------------------------------------------
(* TcpSession::RegisterSend.  ProcessSend calls it with the lock held and   *)
(* gives the lock back when it returns; Send calls it without.              *)

Unlock(t) == lock' = IF lock = t THEN NoThread ELSE lock

\* Fault: the event's owner is not set.
RegisterSendUnpinned(t) ==
  /\ pc[t] = "register send"
  /\ IF connected
     THEN Goto(t, "drain") /\ UNCHANGED lock
     ELSE Goto(t, "idle") /\ Unlock(t)
  /\ UNCHANGED <<connected, sendVars, restVars, owned, after, kernel>>

RegisterSend(t) ==
  /\ pc[t] = "register send"
  /\ IF connected
     THEN /\ owned' = owned \cup {"send"}
          /\ Goto(t, "drain")
          /\ UNCHANGED lock
     ELSE Goto(t, "idle") /\ Unlock(t) /\ UNCHANGED owned
  /\ UNCHANGED <<connected, sendVars, restVars, after, kernel>>

\* The whole queue moves to the event, under the lock.
DrainQueue(t) ==
  /\ pc[t] = "drain"
  /\ LockFree(t)
  /\ sendBuffers' = sendBuffers \o sendQueue
  /\ sendQueue' = <<>>
  /\ Goto(t, "wsasend")
  /\ UNCHANGED <<connected, sendRegistered, wire, accepted, restVars, lock,
                 owned, after, kernel>>

\* WSASend succeeded or is pending: a completion will come either way.
WsaSend(t) ==
  /\ pc[t] = "wsasend"
  /\ kernel' = kernel \cup {"send"}
  /\ wire' = wire \o sendBuffers
  /\ Goto(t, "idle") /\ Unlock(t)
  /\ UNCHANGED <<connected, sendQueue, sendRegistered, sendBuffers, accepted,
                 restVars, owned, after>>

\* A reset connection is disconnected, any other error is only printed; then
\* the caller goes on at place.
HandleError(t, call, place) ==
  \/ CallDisconnect(t, place) /\ UNCHANGED failed
  \/ /\ failed' = failed \cup {call}
     /\ Goto(t, place)
     /\ UNCHANGED <<connected, after>>

\* WSASend failed: reset or aborted disconnects, any other error is logged.
WsaSendFails(t) ==
  /\ pc[t] = "wsasend"
  /\ HandleError(t, "send", "undo send")
  /\ UNCHANGED <<sendVars, service, received, lock, owned, kernel>>

\* The buffers are dropped before the token is given up.
UndoSend(t) ==
  /\ pc[t] = "undo send"
  /\ owned' = owned \ {"send"}
  /\ sendBuffers' = <<>>
  /\ Goto(t, "release token")
  /\ UNCHANGED <<connected, sendQueue, sendRegistered, wire, accepted, restVars,
                 lock, after, kernel>>

ReleaseToken(t) ==
  /\ pc[t] = "release token"
  /\ sendRegistered' = FALSE
  /\ Goto(t, "idle") /\ Unlock(t)
  /\ UNCHANGED <<connected, sendQueue, sendBuffers, wire, accepted, restVars,
                 owned, after, kernel>>

-----------------------------------------------------------------------------
(* TcpSession::ProcessSend *)

\* Fault: sendBuffers.clear() is missing.
SendCompletedKeeps(t) ==
  /\ "send" \in kernel
  /\ kernel' = kernel \ {"send"}
  /\ owned' = owned \ {"send"}
  /\ UNCHANGED <<sendVars, restVars, lock>>

SendCompleted(t) ==
  /\ "send" \in kernel
  /\ kernel' = kernel \ {"send"}
  /\ owned' = owned \ {"send"}
  /\ sendBuffers' = <<>>
  /\ UNCHANGED <<sendQueue, sendRegistered, wire, accepted, restVars, lock>>

ProcessSend(t) ==
  /\ pc[t] = "idle"
  /\ SendCompleted(t)
  /\ Goto(t, "sent")
  /\ UNCHANGED <<connected, after>>

ProcessSendZero(t) ==
  /\ pc[t] = "idle"
  /\ SendCompleted(t)
  /\ CallDisconnect(t, "idle")

\* Fault: the queue is not looked at.
ProcessSendGivesUp(t) ==
  /\ pc[t] = "sent"
  /\ lock = NoThread
  /\ sendRegistered' = FALSE
  /\ Goto(t, "idle")
  /\ UNCHANGED <<connected, sendQueue, sendBuffers, wire, accepted, restVars,
                 lock, owned, after, kernel>>

\* Under the lock: give the token up, or keep it and the lock for the next
\* RegisterSend.
ProcessSendNext(t) ==
  /\ pc[t] = "sent"
  /\ lock = NoThread
  /\ IF sendQueue = <<>>
     THEN sendRegistered' = FALSE /\ Goto(t, "idle") /\ UNCHANGED lock
     ELSE lock' = t /\ Goto(t, "register send") /\ UNCHANGED sendRegistered
  /\ UNCHANGED <<connected, sendQueue, sendBuffers, wire, accepted, restVars,
                 owned, after, kernel>>

-----------------------------------------------------------------------------
(* TcpSession::ProcessConnect, called when an accept or a connect completes *)

ProcessConnect(t) ==
  /\ pc[t] = "idle"
  /\ "accept" \in kernel
  /\ kernel' = kernel \ {"accept"}
  /\ connected' = TRUE
  /\ Goto(t, "add")
  /\ UNCHANGED <<sendVars, restVars, lock, owned, after>>

\* Service::AddTcpSession, then OnConnected; the session is now known.
AddTcpSession(t) ==
  /\ pc[t] = "add"
  /\ service' = "registered"
  /\ Goto(t, "register recv")
  /\ UNCHANGED <<connected, sendVars, lock, owned, after, kernel, received, failed>>

-----------------------------------------------------------------------------
(* TcpSession::RegisterRecv and ProcessRecv *)

RegisterRecv(t) ==
  /\ pc[t] = "register recv"
  /\ IF connected
     THEN owned' = owned \cup {"recv"} /\ Goto(t, "wsarecv")
     ELSE Goto(t, "idle") /\ UNCHANGED owned
  /\ UNCHANGED <<connected, sendVars, restVars, lock, after, kernel>>

\* Fault: a receive that succeeds at once is followed by another.
WsaRecvTwice(t) ==
  /\ pc[t] = "wsarecv"
  /\ kernel' = kernel \cup {"recv"}
  /\ Goto(t, "register recv")
  /\ UNCHANGED <<connected, sendVars, restVars, lock, owned, after>>

WsaRecv(t) ==
  /\ pc[t] = "wsarecv"
  /\ kernel' = kernel \cup {"recv"}
  /\ Goto(t, "idle")
  /\ UNCHANGED <<connected, sendVars, restVars, lock, owned, after>>

WsaRecvFails(t) ==
  /\ pc[t] = "wsarecv"
  /\ HandleError(t, "recv", "undo recv")
  /\ UNCHANGED <<sendVars, service, received, lock, owned, kernel>>

UndoRecv(t) ==
  /\ pc[t] = "undo recv"
  /\ owned' = owned \ {"recv"}
  /\ Goto(t, "idle")
  /\ UNCHANGED <<connected, sendVars, restVars, lock, after, kernel>>

RecvCompleted(t) ==
  /\ pc[t] = "idle"
  /\ "recv" \in kernel
  /\ kernel' = kernel \ {"recv"}
  /\ owned' = owned \ {"recv"}

\* Fault: there is no next receive.
ProcessRecvOnce(t) ==
  /\ RecvCompleted(t)
  /\ received < MaxRecvs
  /\ received' = received + 1
  /\ UNCHANGED <<connected, sendVars, service, failed, lock, pc, after>>

\* Bytes: OnRecv runs for every whole packet, then the next receive.
ProcessRecv(t) ==
  /\ RecvCompleted(t)
  /\ received < MaxRecvs
  /\ received' = received + 1
  /\ Goto(t, "register recv")
  /\ UNCHANGED <<connected, sendVars, service, failed, lock, after>>

\* No bytes, or a receive buffer that overflows: disconnect, no new receive.
ProcessRecvEnd(t) ==
  /\ RecvCompleted(t)
  /\ CallDisconnect(t, "idle")
  /\ UNCHANGED <<sendVars, restVars, lock>>

-----------------------------------------------------------------------------

\* What a thread does inside a call that has begun.
Continue(t) ==
  \/ RegisterDisconnect(t)
  \/ SendPush(t) \/ RegisterSend(t) \/ DrainQueue(t)
  \/ WsaSend(t) \/ WsaSendFails(t) \/ UndoSend(t) \/ ReleaseToken(t)
  \/ ProcessSendNext(t)
  \/ AddTcpSession(t)
  \/ RegisterRecv(t) \/ WsaRecv(t) \/ WsaRecvFails(t) \/ UndoRecv(t)

DispatchSend(t) == ProcessSend(t) \/ ProcessSendZero(t)

Next == \E t \in Threads :
  \/ Send(t) \/ Disconnect(t)
  \/ Continue(t)
  \/ DispatchSend(t)
  \/ ProcessDisconnect(t)
  \/ ProcessConnect(t)
  \/ ProcessRecv(t) \/ ProcessRecvEnd(t)

Spec == Init /\ [][Next]_vars

\* Running threads are scheduled; completions of sends and of disconnects
\* come and are dispatched by some thread.
Fairness ==
  /\ \A t \in Threads : WF_vars(Continue(t))
  /\ WF_vars(\E t \in Threads : DispatchSend(t))
  /\ WF_vars(\E t \in Threads : ProcessDisconnect(t))

FairSpec == Spec /\ Fairness

-----------------------------------------------------------------------------
(* Correctness *)

Places == {"idle", "disconnect", "push", "register send", "drain", "wsasend",
           "undo send", "release token", "sent", "add", "register recv",
           "wsarecv", "undo recv"}

\* Every variable of the session, the kernel and the threads keeps to its values.
TypeOK ==
  /\ connected \in BOOLEAN
  /\ sendQueue \in Seq(1..MaxSends)
  /\ sendRegistered \in BOOLEAN
  /\ sendBuffers \in Seq(1..MaxSends)
  /\ lock \in Threads \cup {NoThread}
  /\ owned \subseteq {"send", "recv", "disconnect"}
  /\ service \in {"absent", "registered", "released", "assert failed"}
  /\ pc \in [Threads -> Places]
  /\ after \in [Threads -> {"idle", "undo send", "undo recv"}]
  /\ kernel \subseteq {"accept", "send", "recv", "disconnect"}
  /\ wire \in Seq(1..MaxSends)
  /\ accepted \in 0..MaxSends
  /\ received \in 0..MaxRecvs
  /\ failed \subseteq {"send", "recv", "disconnect"}

\* Threads between taking the send token and handing it on.
Sending(t) ==
  \/ pc[t] \in {"register send", "drain", "wsasend", "undo send",
                "release token", "sent"}
  \/ pc[t] = "disconnect" /\ after[t] = "undo send"

Receiving(t) ==
  \/ pc[t] \in {"add", "register recv", "wsarecv", "undo recv"}
  \/ pc[t] = "disconnect" /\ after[t] = "undo recv"

\* The one _sendEvent has one user: the kernel or one thread, and only while
\* the token is out.  Nobody rewrites buffers the kernel is reading.
OneSender ==
  /\ \A t, u \in Threads : Sending(t) /\ Sending(u) => t = u
  /\ \A t \in Threads : Sending(t) => sendRegistered /\ "send" \notin kernel
  /\ "send" \in kernel => sendRegistered

\* The same for the one _recvEvent and the receive buffer behind it.
OneReceiver ==
  /\ \A t, u \in Threads : Receiving(t) /\ Receiving(u) => t = u
  /\ \A t \in Threads : Receiving(t) => kernel \cap {"recv", "accept"} = {}

\* WSASend always gets at least one buffer: an empty one would complete with
\* zero bytes, which ProcessSend takes for the end of the connection.
NeverEmptySend == \A t \in Threads : pc[t] = "wsasend" => sendBuffers # <<>>

\* Buffers reach the kernel in the order Send accepted them, none twice.
WireInOrder ==
  LET s == wire \o (IF "send" \in kernel THEN <<>> ELSE sendBuffers) \o sendQueue
  IN  \A i, j \in DOMAIN s : i < j => s[i] < s[j]

\* While the kernel works on an operation the event pins the session.
Pinned == kernel \cap {"send", "recv", "disconnect"} \subseteq owned

\* A queued buffer on a live session always has somebody who will send it.
\* The premise is a real limit of the code: after WSASend has failed with an
\* error HandleError only logs, buffers queued meanwhile wait for a next Send.
NoStall ==
  connected /\ sendQueue # <<>> /\ "send" \notin failed =>
    "send" \in kernel \/ \E t \in Threads : Sending(t)

\* A live session always has a receive on its way, unless WSARecv failed with
\* an error HandleError only logs.
RecvArmed ==
  connected /\ "recv" \notin failed =>
    "recv" \in kernel \/ \E t \in Threads : Receiving(t)

\* Service::ReleaseTcpSession's assertion never fails: a session leaves the
\* set at most once, and only after it was added.
ReleaseAsserted == service # "assert failed"

\* What Send accepted goes to the kernel unless the session ends or WSASend
\* fails: no interleaving of Send, ProcessSend and RegisterSend forgets it.
EverySendLeaves ==
  \A b \in 1..MaxSends :
    (\E i \in DOMAIN sendQueue : sendQueue[i] = b) ~>
      \/ \E i \in DOMAIN wire : wire[i] = b
      \/ ~ connected
      \/ "send" \in failed

\* A session that loses its connection is taken out of the service, unless
\* DisconnectEx itself failed: then the service keeps it for good.
Reclaimed ==
  (service = "registered" /\ ~ connected) ~>
    (service = "released" \/ "disconnect" \in failed)
=============================================================================
