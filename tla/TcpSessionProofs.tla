--------------------------- MODULE TcpSessionProofs ---------------------------
(***************************************************************************)
(* Proofs about TcpSession for any number of threads, sends and receives:  *)
(* the two overlapped events each have one user, the kernel never works on *)
(* a session nobody holds, the stream stays in order, and a live session   *)
(* neither forgets a queued buffer nor stops listening, whatever fails.    *)
(***************************************************************************)
EXTENDS TcpSession, SequenceTheorems, TLAPS

Step(t) ==
  \/ Send(t) \/ Disconnect(t)
  \/ Continue(t)
  \/ DispatchSend(t)
  \/ ProcessDisconnect(t)
  \/ ProcessConnect(t)
  \/ ProcessRecv(t) \/ ProcessRecvEnd(t)

\* Before the session is known nothing but the accept goes on.
InvFresh ==
  /\ service = "absent" =>
       /\ kernel \subseteq {"accept"}
       /\ sendQueue = <<>> /\ ~ sendRegistered
       /\ \A t \in Threads : pc[t] \in {"idle", "add"}
  /\ "accept" \in kernel =>
       service = "absent" /\ ~ connected /\ \A t \in Threads : pc[t] = "idle"
  /\ \A t \in Threads : pc[t] = "add" => service = "absent"

\* A session is disconnected once: by the one thread that took _connected
\* from it, while the service still has it.
InvEnd ==
  /\ connected =>
       /\ \A t \in Threads : pc[t] # "disconnect"
       /\ "disconnect" \notin kernel
       /\ service \in {"absent", "registered"}
  /\ \A t, u \in Threads : pc[t] = "disconnect" /\ pc[u] = "disconnect" => t = u
  /\ \A t \in Threads :
       pc[t] = "disconnect" => "disconnect" \notin kernel /\ service = "registered"
  /\ "disconnect" \in kernel => service = "registered"
  /\ service # "assert failed"

\* Who is behind a failed WSASend or WSARecv knows why.
InvFailed ==
  \A t \in Threads :
    /\ (\/ pc[t] \in {"undo send", "release token"}
        \/ pc[t] = "disconnect" /\ after[t] = "undo send") => ~ connected \/ "send" \in failed
    /\ (\/ pc[t] = "undo recv"
        \/ pc[t] = "disconnect" /\ after[t] = "undo recv") => ~ connected \/ "recv" \in failed

\* The token is with somebody as long as the session lives.
InvToken ==
  sendRegistered /\ connected => "send" \in kernel \/ \E t \in Threads : Sending(t)

\* Whoever is about to drain the queue finds something in it.
InvQueue ==
  \A t \in Threads :
    /\ pc[t] \in {"register send", "drain"} => sendQueue # <<>>
    /\ pc[t] = "wsasend" => sendBuffers # <<>>

\* The owner pointers are set before the calls that need them.
InvPinned ==
  /\ Pinned
  /\ \A t \in Threads :
       /\ pc[t] \in {"drain", "wsasend"} => "send" \in owned
       /\ pc[t] = "wsarecv" => "recv" \in owned

IInv ==
  /\ TypeOK /\ InvFresh /\ InvEnd /\ OneSender /\ OneReceiver
  /\ InvFailed /\ InvToken /\ InvQueue /\ InvPinned /\ NoStall /\ RecvArmed

-----------------------------------------------------------------------------
\* Sequences of buffers.
LEMMA EmptyTyped == <<>> \in Seq(1..MaxSends)
OBVIOUS

LEMMA AppendTyped == \A s \in Seq(1..MaxSends), b \in 1..MaxSends : Append(s, b) \in Seq(1..MaxSends)
OBVIOUS

LEMMA ConcatTyped == \A r, s \in Seq(1..MaxSends) : r \o s \in Seq(1..MaxSends)
OBVIOUS

\* Every step keeps the types.
LEMMA TypeKeeps == ASSUME IInv, NEW t \in Threads, Step(t) PROVE TypeOK'
<1> USE TcpAssumption
    DEF TcpAssumption, Goto, sendVars, restVars, LockFree, TypeOK, Places
<1>0. TypeOK
  BY DEF IInv
<1>1. CASE Send(t)
  BY <1>0, <1>1 DEF Send
<1>2. CASE Disconnect(t)
  BY <1>0, <1>2 DEF Disconnect, CallDisconnect
<1>3. CASE RegisterDisconnect(t)
  BY <1>0, <1>3 DEF RegisterDisconnect
<1>4. CASE ProcessDisconnect(t)
  BY <1>0, <1>4 DEF ProcessDisconnect
<1>5. CASE SendPush(t)
  <2>1. /\ accepted \in 0..MaxSends /\ accepted < MaxSends /\ accepted' = accepted + 1
        /\ sendQueue \in Seq(1..MaxSends) /\ sendQueue' = Append(sendQueue, accepted')
    BY <1>0, <1>5 DEF SendPush
  <2>2. accepted' \in 1..MaxSends /\ accepted' \in 0..MaxSends
    BY <2>1
  <2>3. sendQueue' \in Seq(1..MaxSends)
    BY <2>1, <2>2, AppendTyped
  <2> QED BY <1>0, <1>5, <2>2, <2>3 DEF SendPush
<1>6. CASE RegisterSend(t)
  BY <1>0, <1>6 DEF RegisterSend, Unlock
<1>7. CASE DrainQueue(t)
  <2>1. sendBuffers' \in Seq(1..MaxSends) /\ sendQueue' \in Seq(1..MaxSends)
    BY <1>0, <1>7, ConcatTyped, EmptyTyped DEF DrainQueue
  <2> QED BY <1>0, <1>7, <2>1 DEF DrainQueue
<1>8. CASE WsaSend(t)
  <2>1. wire' \in Seq(1..MaxSends)
    BY <1>0, <1>8, ConcatTyped DEF WsaSend
  <2> QED BY <1>0, <1>8, <2>1 DEF WsaSend, Unlock
<1>9. CASE WsaSendFails(t)
  BY <1>0, <1>9 DEF WsaSendFails, HandleError, CallDisconnect
<1>10. CASE UndoSend(t)
  <2>1. sendBuffers' \in Seq(1..MaxSends)
    BY <1>0, <1>10, EmptyTyped DEF UndoSend
  <2> QED BY <1>0, <1>10, <2>1 DEF UndoSend
<1>11. CASE ReleaseToken(t)
  BY <1>0, <1>11 DEF ReleaseToken, Unlock
<1>12. CASE ProcessSend(t)
  <2>1. sendBuffers' \in Seq(1..MaxSends)
    BY <1>12, EmptyTyped DEF ProcessSend, SendCompleted
  <2> QED BY <1>0, <1>12, <2>1 DEF ProcessSend, SendCompleted
<1>13. CASE ProcessSendZero(t)
  <2>1. sendBuffers' \in Seq(1..MaxSends)
    BY <1>13, EmptyTyped DEF ProcessSendZero, SendCompleted
  <2> QED BY <1>0, <1>13, <2>1 DEF ProcessSendZero, SendCompleted, CallDisconnect
<1>14. CASE ProcessSendNext(t)
  BY <1>0, <1>14 DEF ProcessSendNext
<1>15. CASE ProcessConnect(t)
  BY <1>0, <1>15 DEF ProcessConnect
<1>16. CASE AddTcpSession(t)
  BY <1>0, <1>16 DEF AddTcpSession
<1>17. CASE RegisterRecv(t)
  BY <1>0, <1>17 DEF RegisterRecv
<1>18. CASE WsaRecv(t)
  BY <1>0, <1>18 DEF WsaRecv
<1>19. CASE WsaRecvFails(t)
  BY <1>0, <1>19 DEF WsaRecvFails, HandleError, CallDisconnect
<1>20. CASE UndoRecv(t)
  BY <1>0, <1>20 DEF UndoRecv
<1>21. CASE ProcessRecv(t)
  <2>1. received \in 0..MaxRecvs /\ received < MaxRecvs /\ received' = received + 1
    BY <1>0, <1>21 DEF ProcessRecv
  <2>2. received' \in 0..MaxRecvs
    BY <2>1
  <2> QED BY <1>0, <1>21, <2>2 DEF ProcessRecv, RecvCompleted
<1>22. CASE ProcessRecvEnd(t)
  BY <1>0, <1>22 DEF ProcessRecvEnd, RecvCompleted, CallDisconnect
<1> QED
  BY <1>1, <1>2, <1>3, <1>4, <1>5, <1>6, <1>7, <1>8, <1>9, <1>10, <1>11, <1>12, <1>13,
     <1>14, <1>15, <1>16, <1>17, <1>18, <1>19, <1>20, <1>21, <1>22 DEF Step, Continue, DispatchSend

\* Nothing starts before the session is known.
LEMMA FreshKeeps == ASSUME IInv, NEW t \in Threads, Step(t) PROVE InvFresh'
<1> USE TcpAssumption
    DEF TcpAssumption, Goto, sendVars, restVars, TypeOK, InvFresh, OneReceiver, Receiving
<1>0. TypeOK /\ InvFresh /\ OneReceiver
  BY DEF IInv
<1>1. CASE Send(t)
  BY <1>0, <1>1 DEF Send
<1>2. CASE Disconnect(t)
  BY <1>0, <1>2 DEF Disconnect, CallDisconnect
<1>3. CASE RegisterDisconnect(t)
  BY <1>0, <1>3 DEF RegisterDisconnect
<1>4. CASE ProcessDisconnect(t)
  BY <1>0, <1>4 DEF ProcessDisconnect
<1>5. CASE SendPush(t)
  BY <1>0, <1>5 DEF SendPush
<1>6. CASE RegisterSend(t)
  BY <1>0, <1>6 DEF RegisterSend, Unlock
<1>7. CASE DrainQueue(t)
  BY <1>0, <1>7 DEF DrainQueue
<1>8. CASE WsaSend(t)
  BY <1>0, <1>8 DEF WsaSend, Unlock
<1>9. CASE WsaSendFails(t)
  BY <1>0, <1>9 DEF WsaSendFails, HandleError, CallDisconnect
<1>10. CASE UndoSend(t)
  BY <1>0, <1>10 DEF UndoSend
<1>11. CASE ReleaseToken(t)
  BY <1>0, <1>11 DEF ReleaseToken, Unlock
<1>12. CASE ProcessSend(t)
  BY <1>0, <1>12 DEF ProcessSend, SendCompleted
<1>13. CASE ProcessSendZero(t)
  BY <1>0, <1>13 DEF ProcessSendZero, SendCompleted, CallDisconnect
<1>14. CASE ProcessSendNext(t)
  BY <1>0, <1>14 DEF ProcessSendNext
<1>15. CASE ProcessConnect(t)
  BY <1>0, <1>15 DEF ProcessConnect
<1>16. CASE AddTcpSession(t)
  BY <1>0, <1>16 DEF AddTcpSession
<1>17. CASE RegisterRecv(t)
  BY <1>0, <1>17 DEF RegisterRecv
<1>18. CASE WsaRecv(t)
  BY <1>0, <1>18 DEF WsaRecv
<1>19. CASE WsaRecvFails(t)
  BY <1>0, <1>19 DEF WsaRecvFails, HandleError, CallDisconnect
<1>20. CASE UndoRecv(t)
  BY <1>0, <1>20 DEF UndoRecv
<1>21. CASE ProcessRecv(t)
  BY <1>0, <1>21 DEF ProcessRecv, RecvCompleted
<1>22. CASE ProcessRecvEnd(t)
  BY <1>0, <1>22 DEF ProcessRecvEnd, RecvCompleted, CallDisconnect
<1> QED
  BY <1>1, <1>2, <1>3, <1>4, <1>5, <1>6, <1>7, <1>8, <1>9, <1>10, <1>11, <1>12, <1>13,
     <1>14, <1>15, <1>16, <1>17, <1>18, <1>19, <1>20, <1>21, <1>22 DEF Step, Continue, DispatchSend

\* Nobody disconnects a session twice.
LEMMA EndKeeps == ASSUME IInv, NEW t \in Threads, Step(t) PROVE InvEnd'
<1> USE TcpAssumption
    DEF TcpAssumption, Goto, sendVars, restVars, TypeOK, InvFresh, InvEnd
<1>0. TypeOK /\ InvFresh /\ InvEnd
  BY DEF IInv
<1>1. CASE Send(t)
  BY <1>0, <1>1 DEF Send
<1>2. CASE Disconnect(t)
  BY ZenonT(40), <1>0, <1>2 DEF Disconnect, CallDisconnect
<1>3. CASE RegisterDisconnect(t)
  BY <1>0, <1>3 DEF RegisterDisconnect
<1>4. CASE ProcessDisconnect(t)
  BY <1>0, <1>4 DEF ProcessDisconnect
<1>5. CASE SendPush(t)
  BY <1>0, <1>5 DEF SendPush
<1>6. CASE RegisterSend(t)
  BY ZenonT(40), <1>0, <1>6 DEF RegisterSend, Unlock
<1>7. CASE DrainQueue(t)
  BY <1>0, <1>7 DEF DrainQueue
<1>8. CASE WsaSend(t)
  BY <1>0, <1>8 DEF WsaSend, Unlock
<1>9. CASE WsaSendFails(t)
  <2>1. CASE CallDisconnect(t, "undo send") /\ UNCHANGED failed /\ connected
    BY ZenonT(40), <1>0, <1>9, <2>1 DEF WsaSendFails, CallDisconnect
  <2>2. CASE CallDisconnect(t, "undo send") /\ UNCHANGED failed /\ ~ connected
    BY ZenonT(40), <1>0, <1>9, <2>2 DEF WsaSendFails, CallDisconnect
  <2>3. CASE /\ failed' = failed \cup {"send"}
             /\ Goto(t, "undo send") /\ UNCHANGED <<connected, after>>
    BY <1>0, <1>9, <2>3 DEF WsaSendFails
  <2> QED BY <1>9, <2>1, <2>2, <2>3 DEF WsaSendFails, HandleError
<1>10. CASE UndoSend(t)
  BY <1>0, <1>10 DEF UndoSend
<1>11. CASE ReleaseToken(t)
  BY <1>0, <1>11 DEF ReleaseToken, Unlock
<1>12. CASE ProcessSend(t)
  BY <1>0, <1>12 DEF ProcessSend, SendCompleted
<1>13. CASE ProcessSendZero(t)
  <2>1. CASE connected
    <3>1. /\ service = "registered" /\ "disconnect" \notin kernel
          /\ \A u \in Threads : pc[u] # "disconnect"
      BY <1>0, <1>13, <2>1 DEF ProcessSendZero, SendCompleted
    <3>2. /\ service' = "registered" /\ ~ connected' /\ "disconnect" \notin kernel'
          /\ pc' = [pc EXCEPT ![t] = "disconnect"]
      BY <1>13, <2>1, <3>1 DEF ProcessSendZero, SendCompleted, CallDisconnect
    <3>3. pc \in [Threads -> Places]
      BY <1>0
    <3> QED BY <3>1, <3>2, <3>3
  <2>2. CASE ~ connected
    BY <1>0, <1>13, <2>2 DEF ProcessSendZero, SendCompleted, CallDisconnect
  <2> QED BY <2>1, <2>2
<1>14. CASE ProcessSendNext(t)
  BY ZenonT(40), <1>0, <1>14 DEF ProcessSendNext
<1>15. CASE ProcessConnect(t)
  BY <1>0, <1>15 DEF ProcessConnect
<1>16. CASE AddTcpSession(t)
  BY <1>0, <1>16 DEF AddTcpSession
<1>17. CASE RegisterRecv(t)
  BY ZenonT(40), <1>0, <1>17 DEF RegisterRecv
<1>18. CASE WsaRecv(t)
  BY <1>0, <1>18 DEF WsaRecv
<1>19. CASE WsaRecvFails(t)
  <2>1. CASE CallDisconnect(t, "undo recv") /\ UNCHANGED failed /\ connected
    BY ZenonT(40), <1>0, <1>19, <2>1 DEF WsaRecvFails, CallDisconnect
  <2>2. CASE CallDisconnect(t, "undo recv") /\ UNCHANGED failed /\ ~ connected
    BY ZenonT(40), <1>0, <1>19, <2>2 DEF WsaRecvFails, CallDisconnect
  <2>3. CASE /\ failed' = failed \cup {"recv"}
             /\ Goto(t, "undo recv") /\ UNCHANGED <<connected, after>>
    BY <1>0, <1>19, <2>3 DEF WsaRecvFails
  <2> QED BY <1>19, <2>1, <2>2, <2>3 DEF WsaRecvFails, HandleError
<1>20. CASE UndoRecv(t)
  BY <1>0, <1>20 DEF UndoRecv
<1>21. CASE ProcessRecv(t)
  BY <1>0, <1>21 DEF ProcessRecv, RecvCompleted
<1>22. CASE ProcessRecvEnd(t)
  <2>1. CASE connected
    BY ZenonT(40), <1>0, <1>22, <2>1 DEF ProcessRecvEnd, RecvCompleted, CallDisconnect
  <2>2. CASE ~ connected
    BY <1>0, <1>22, <2>2 DEF ProcessRecvEnd, RecvCompleted, CallDisconnect
  <2> QED BY <2>1, <2>2
<1> QED
  BY <1>1, <1>2, <1>3, <1>4, <1>5, <1>6, <1>7, <1>8, <1>9, <1>10, <1>11, <1>12, <1>13,
     <1>14, <1>15, <1>16, <1>17, <1>18, <1>19, <1>20, <1>21, <1>22 DEF Step, Continue, DispatchSend

\* The send event passes from one user to the next.
LEMMA SenderKeeps == ASSUME IInv, NEW t \in Threads, Step(t) PROVE OneSender'
<1> USE TcpAssumption
    DEF TcpAssumption, Goto, sendVars, restVars, TypeOK, InvFresh, OneSender, Sending
<1>0. TypeOK /\ InvFresh /\ OneSender
  BY DEF IInv
<1>1. CASE Send(t)
  BY <1>0, <1>1 DEF Send
<1>2. CASE Disconnect(t)
  <2>1. CASE connected
    <3>1. ASSUME NEW u \in Threads, Sending(u)' PROVE Sending(u)
      <4>1. CASE u = t
        BY <1>0, <1>2, <2>1, <3>1, <4>1 DEF Disconnect, CallDisconnect
      <4>2. CASE u # t
        BY <1>0, <1>2, <2>1, <3>1, <4>2 DEF Disconnect, CallDisconnect
      <4> QED BY <4>1, <4>2
    <3> HIDE DEF Sending
    <3> QED BY <1>0, <1>2, <2>1, <3>1 DEF Disconnect, CallDisconnect
  <2>2. CASE ~ connected
    BY <1>0, <1>2, <2>2 DEF Disconnect, CallDisconnect
  <2> QED BY <2>1, <2>2
<1>3. CASE RegisterDisconnect(t)
  BY ZenonT(40), <1>0, <1>3 DEF RegisterDisconnect
<1>4. CASE ProcessDisconnect(t)
  BY <1>0, <1>4 DEF ProcessDisconnect
<1>5. CASE SendPush(t)
  BY ZenonT(40), <1>0, <1>5 DEF SendPush
<1>6. CASE RegisterSend(t)
  <2>1. CASE connected
    <3>1. ASSUME NEW u \in Threads, Sending(u)' PROVE Sending(u)
      <4>1. CASE u = t
        BY <1>0, <1>6, <2>1, <3>1, <4>1 DEF RegisterSend, Unlock
      <4>2. CASE u # t
        BY <1>0, <1>6, <2>1, <3>1, <4>2 DEF RegisterSend, Unlock
      <4> QED BY <4>1, <4>2
    <3> HIDE DEF Sending
    <3> QED BY <1>0, <1>6, <2>1, <3>1 DEF RegisterSend, Unlock
  <2>2. CASE ~ connected
    BY ZenonT(40), <1>0, <1>6, <2>2 DEF RegisterSend, Unlock
  <2> QED BY <2>1, <2>2
<1>7. CASE DrainQueue(t)
  BY ZenonT(40), <1>0, <1>7 DEF DrainQueue
<1>8. CASE WsaSend(t)
  BY <1>0, <1>8 DEF WsaSend, Unlock
<1>9. CASE WsaSendFails(t)
  <2>1. CASE CallDisconnect(t, "undo send") /\ UNCHANGED failed /\ connected
    <3>1. ASSUME NEW u \in Threads, Sending(u)' PROVE Sending(u)
      <4>1. CASE u = t
        BY <1>0, <1>9, <2>1, <3>1, <4>1 DEF WsaSendFails, HandleError, CallDisconnect
      <4>2. CASE u # t
        BY <1>0, <1>9, <2>1, <3>1, <4>2 DEF WsaSendFails, HandleError, CallDisconnect
      <4> QED BY <4>1, <4>2
    <3> HIDE DEF Sending
    <3> QED BY <1>0, <1>9, <2>1, <3>1 DEF WsaSendFails, HandleError, CallDisconnect
  <2>2. CASE CallDisconnect(t, "undo send") /\ UNCHANGED failed /\ ~ connected
    BY ZenonT(40), <1>0, <1>9, <2>2 DEF WsaSendFails, CallDisconnect
  <2>3. CASE /\ failed' = failed \cup {"send"}
             /\ Goto(t, "undo send") /\ UNCHANGED <<connected, after>>
    BY <1>0, <1>9, <2>3 DEF WsaSendFails
  <2> QED BY <1>9, <2>1, <2>2, <2>3 DEF WsaSendFails, HandleError
<1>10. CASE UndoSend(t)
  BY ZenonT(40), <1>0, <1>10 DEF UndoSend
<1>11. CASE ReleaseToken(t)
  BY <1>0, <1>11 DEF ReleaseToken, Unlock
<1>12. CASE ProcessSend(t)
  BY <1>0, <1>12 DEF ProcessSend, SendCompleted
<1>13. CASE ProcessSendZero(t)
  <2>1. CASE connected
    <3>1. ASSUME NEW u \in Threads, Sending(u)' PROVE Sending(u)
      <4>1. CASE u = t
        BY <1>0, <1>13, <2>1, <3>1, <4>1 DEF ProcessSendZero, SendCompleted, CallDisconnect
      <4>2. CASE u # t
        BY <1>0, <1>13, <2>1, <3>1, <4>2 DEF ProcessSendZero, SendCompleted, CallDisconnect
      <4> QED BY <4>1, <4>2
    <3> HIDE DEF Sending
    <3> QED BY <1>0, <1>13, <2>1, <3>1 DEF ProcessSendZero, SendCompleted, CallDisconnect
  <2>2. CASE ~ connected
    <3>1. ASSUME NEW u \in Threads, Sending(u)' PROVE Sending(u)
      <4>1. CASE u = t
        BY <1>0, <1>13, <2>2, <3>1, <4>1 DEF ProcessSendZero, SendCompleted, CallDisconnect
      <4>2. CASE u # t
        BY <1>0, <1>13, <2>2, <3>1, <4>2 DEF ProcessSendZero, SendCompleted, CallDisconnect
      <4> QED BY <4>1, <4>2
    <3> HIDE DEF Sending
    <3> QED BY <1>0, <1>13, <2>2, <3>1 DEF ProcessSendZero, SendCompleted, CallDisconnect
  <2> QED BY <2>1, <2>2
<1>14. CASE ProcessSendNext(t)
  BY ZenonT(40), <1>0, <1>14 DEF ProcessSendNext
<1>15. CASE ProcessConnect(t)
  BY <1>0, <1>15 DEF ProcessConnect
<1>16. CASE AddTcpSession(t)
  BY <1>0, <1>16 DEF AddTcpSession
<1>17. CASE RegisterRecv(t)
  <2>1. CASE connected
    <3>1. ASSUME NEW u \in Threads, Sending(u)' PROVE Sending(u)
      <4>1. CASE u = t
        BY <1>0, <1>17, <2>1, <3>1, <4>1 DEF RegisterRecv
      <4>2. CASE u # t
        BY <1>0, <1>17, <2>1, <3>1, <4>2 DEF RegisterRecv
      <4> QED BY <4>1, <4>2
    <3> HIDE DEF Sending
    <3> QED BY <1>0, <1>17, <2>1, <3>1 DEF RegisterRecv
  <2>2. CASE ~ connected
    <3>1. ASSUME NEW u \in Threads, Sending(u)' PROVE Sending(u)
      <4>1. CASE u = t
        BY <1>0, <1>17, <2>2, <3>1, <4>1 DEF RegisterRecv
      <4>2. CASE u # t
        BY <1>0, <1>17, <2>2, <3>1, <4>2 DEF RegisterRecv
      <4> QED BY <4>1, <4>2
    <3> HIDE DEF Sending
    <3> QED BY <1>0, <1>17, <2>2, <3>1 DEF RegisterRecv
  <2> QED BY <2>1, <2>2
<1>18. CASE WsaRecv(t)
  BY <1>0, <1>18 DEF WsaRecv
<1>19. CASE WsaRecvFails(t)
  <2>1. CASE CallDisconnect(t, "undo recv") /\ UNCHANGED failed /\ connected
    <3>1. ASSUME NEW u \in Threads, Sending(u)' PROVE Sending(u)
      <4>1. CASE u = t
        BY <1>0, <1>19, <2>1, <3>1, <4>1 DEF WsaRecvFails, HandleError, CallDisconnect
      <4>2. CASE u # t
        BY <1>0, <1>19, <2>1, <3>1, <4>2 DEF WsaRecvFails, HandleError, CallDisconnect
      <4> QED BY <4>1, <4>2
    <3> HIDE DEF Sending
    <3> QED BY <1>0, <1>19, <2>1, <3>1 DEF WsaRecvFails, HandleError, CallDisconnect
  <2>2. CASE CallDisconnect(t, "undo recv") /\ UNCHANGED failed /\ ~ connected
    <3>1. ASSUME NEW u \in Threads, Sending(u)' PROVE Sending(u)
      <4>1. CASE u = t
        BY <1>0, <1>19, <2>2, <3>1, <4>1 DEF WsaRecvFails, HandleError, CallDisconnect
      <4>2. CASE u # t
        BY <1>0, <1>19, <2>2, <3>1, <4>2 DEF WsaRecvFails, HandleError, CallDisconnect
      <4> QED BY <4>1, <4>2
    <3> HIDE DEF Sending
    <3> QED BY <1>0, <1>19, <2>2, <3>1 DEF WsaRecvFails, HandleError, CallDisconnect
  <2>3. CASE /\ failed' = failed \cup {"recv"}
             /\ Goto(t, "undo recv") /\ UNCHANGED <<connected, after>>
    BY <1>0, <1>19, <2>3 DEF WsaRecvFails
  <2> QED BY <1>19, <2>1, <2>2, <2>3 DEF WsaRecvFails, HandleError
<1>20. CASE UndoRecv(t)
  BY <1>0, <1>20 DEF UndoRecv
<1>21. CASE ProcessRecv(t)
  BY <1>0, <1>21 DEF ProcessRecv, RecvCompleted
<1>22. CASE ProcessRecvEnd(t)
  <2>1. CASE connected
    <3>1. ASSUME NEW u \in Threads, Sending(u)' PROVE Sending(u)
      <4>1. CASE u = t
        BY <1>0, <1>22, <2>1, <3>1, <4>1 DEF ProcessRecvEnd, RecvCompleted, CallDisconnect
      <4>2. CASE u # t
        BY <1>0, <1>22, <2>1, <3>1, <4>2 DEF ProcessRecvEnd, RecvCompleted, CallDisconnect
      <4> QED BY <4>1, <4>2
    <3> HIDE DEF Sending
    <3> QED BY <1>0, <1>22, <2>1, <3>1 DEF ProcessRecvEnd, RecvCompleted, CallDisconnect
  <2>2. CASE ~ connected
    BY ZenonT(40), <1>0, <1>22, <2>2 DEF ProcessRecvEnd, RecvCompleted, CallDisconnect
  <2> QED BY <2>1, <2>2
<1> QED
  BY <1>1, <1>2, <1>3, <1>4, <1>5, <1>6, <1>7, <1>8, <1>9, <1>10, <1>11, <1>12, <1>13,
     <1>14, <1>15, <1>16, <1>17, <1>18, <1>19, <1>20, <1>21, <1>22 DEF Step, Continue, DispatchSend

\* So does the receive event.
LEMMA ReceiverKeeps == ASSUME IInv, NEW t \in Threads, Step(t) PROVE OneReceiver'
<1> USE TcpAssumption
    DEF TcpAssumption, Goto, sendVars, restVars, TypeOK, InvFresh, OneReceiver, Receiving
<1>0. TypeOK /\ InvFresh /\ OneReceiver
  BY DEF IInv
<1>1. CASE Send(t)
  BY <1>0, <1>1 DEF Send
<1>2. CASE Disconnect(t)
  <2>1. CASE connected
    <3>1. ASSUME NEW u \in Threads, Receiving(u)' PROVE Receiving(u)
      <4>1. CASE u = t
        BY <1>0, <1>2, <2>1, <3>1, <4>1 DEF Disconnect, CallDisconnect
      <4>2. CASE u # t
        BY <1>0, <1>2, <2>1, <3>1, <4>2 DEF Disconnect, CallDisconnect
      <4> QED BY <4>1, <4>2
    <3> HIDE DEF Receiving
    <3> QED BY <1>0, <1>2, <2>1, <3>1 DEF Disconnect, CallDisconnect
  <2>2. CASE ~ connected
    BY <1>0, <1>2, <2>2 DEF Disconnect, CallDisconnect
  <2> QED BY <2>1, <2>2
<1>3. CASE RegisterDisconnect(t)
  BY ZenonT(40), <1>0, <1>3 DEF RegisterDisconnect
<1>4. CASE ProcessDisconnect(t)
  BY <1>0, <1>4 DEF ProcessDisconnect
<1>5. CASE SendPush(t)
  BY <1>0, <1>5 DEF SendPush
<1>6. CASE RegisterSend(t)
  <2>1. CASE connected
    <3>1. ASSUME NEW u \in Threads, Receiving(u)' PROVE Receiving(u)
      <4>1. CASE u = t
        BY <1>0, <1>6, <2>1, <3>1, <4>1 DEF RegisterSend, Unlock
      <4>2. CASE u # t
        BY <1>0, <1>6, <2>1, <3>1, <4>2 DEF RegisterSend, Unlock
      <4> QED BY <4>1, <4>2
    <3> HIDE DEF Receiving
    <3> QED BY <1>0, <1>6, <2>1, <3>1 DEF RegisterSend, Unlock
  <2>2. CASE ~ connected
    <3>1. ASSUME NEW u \in Threads, Receiving(u)' PROVE Receiving(u)
      <4>1. CASE u = t
        BY <1>0, <1>6, <2>2, <3>1, <4>1 DEF RegisterSend, Unlock
      <4>2. CASE u # t
        BY <1>0, <1>6, <2>2, <3>1, <4>2 DEF RegisterSend, Unlock
      <4> QED BY <4>1, <4>2
    <3> HIDE DEF Receiving
    <3> QED BY <1>0, <1>6, <2>2, <3>1 DEF RegisterSend, Unlock
  <2> QED BY <2>1, <2>2
<1>7. CASE DrainQueue(t)
  BY <1>0, <1>7 DEF DrainQueue
<1>8. CASE WsaSend(t)
  BY <1>0, <1>8 DEF WsaSend, Unlock
<1>9. CASE WsaSendFails(t)
  <2>1. CASE CallDisconnect(t, "undo send") /\ UNCHANGED failed /\ connected
    <3>1. ASSUME NEW u \in Threads, Receiving(u)' PROVE Receiving(u)
      <4>1. CASE u = t
        BY <1>0, <1>9, <2>1, <3>1, <4>1 DEF WsaSendFails, HandleError, CallDisconnect
      <4>2. CASE u # t
        BY <1>0, <1>9, <2>1, <3>1, <4>2 DEF WsaSendFails, HandleError, CallDisconnect
      <4> QED BY <4>1, <4>2
    <3> HIDE DEF Receiving
    <3> QED BY <1>0, <1>9, <2>1, <3>1 DEF WsaSendFails, HandleError, CallDisconnect
  <2>2. CASE CallDisconnect(t, "undo send") /\ UNCHANGED failed /\ ~ connected
    BY ZenonT(40), <1>0, <1>9, <2>2 DEF WsaSendFails, CallDisconnect
  <2>3. CASE /\ failed' = failed \cup {"send"}
             /\ Goto(t, "undo send") /\ UNCHANGED <<connected, after>>
    BY <1>0, <1>9, <2>3 DEF WsaSendFails
  <2> QED BY <1>9, <2>1, <2>2, <2>3 DEF WsaSendFails, HandleError
<1>10. CASE UndoSend(t)
  BY <1>0, <1>10 DEF UndoSend
<1>11. CASE ReleaseToken(t)
  BY <1>0, <1>11 DEF ReleaseToken, Unlock
<1>12. CASE ProcessSend(t)
  BY <1>0, <1>12 DEF ProcessSend, SendCompleted
<1>13. CASE ProcessSendZero(t)
  <2>1. CASE connected
    <3>1. ASSUME NEW u \in Threads, Receiving(u)' PROVE Receiving(u)
      <4>1. CASE u = t
        BY <1>0, <1>13, <2>1, <3>1, <4>1 DEF ProcessSendZero, SendCompleted, CallDisconnect
      <4>2. CASE u # t
        BY <1>0, <1>13, <2>1, <3>1, <4>2 DEF ProcessSendZero, SendCompleted, CallDisconnect
      <4> QED BY <4>1, <4>2
    <3> HIDE DEF Receiving
    <3> QED BY <1>0, <1>13, <2>1, <3>1 DEF ProcessSendZero, SendCompleted, CallDisconnect
  <2>2. CASE ~ connected
    BY ZenonT(40), <1>0, <1>13, <2>2 DEF ProcessSendZero, SendCompleted, CallDisconnect
  <2> QED BY <2>1, <2>2
<1>14. CASE ProcessSendNext(t)
  <2>1. ASSUME NEW u \in Threads, Receiving(u)' PROVE Receiving(u)
    <3>1. CASE u = t
      BY <1>0, <1>14, <2>1, <3>1 DEF ProcessSendNext
    <3>2. CASE u # t
      BY <1>0, <1>14, <2>1, <3>2 DEF ProcessSendNext
    <3> QED BY <3>1, <3>2
  <2> HIDE DEF Receiving
  <2> QED BY <1>0, <1>14, <2>1 DEF ProcessSendNext
<1>15. CASE ProcessConnect(t)
  <2>1. \A u \in Threads : Receiving(u)' => u = t
    BY <1>0, <1>15 DEF ProcessConnect
  <2> HIDE DEF Receiving
  <2> QED BY <1>0, <1>15, <2>1 DEF ProcessConnect
<1>16. CASE AddTcpSession(t)
  BY ZenonT(40), <1>0, <1>16 DEF AddTcpSession
<1>17. CASE RegisterRecv(t)
  <2>1. CASE connected
    <3>1. ASSUME NEW u \in Threads, Receiving(u)' PROVE Receiving(u)
      <4>1. CASE u = t
        BY <1>0, <1>17, <2>1, <3>1, <4>1 DEF RegisterRecv
      <4>2. CASE u # t
        BY <1>0, <1>17, <2>1, <3>1, <4>2 DEF RegisterRecv
      <4> QED BY <4>1, <4>2
    <3> HIDE DEF Receiving
    <3> QED BY <1>0, <1>17, <2>1, <3>1 DEF RegisterRecv
  <2>2. CASE ~ connected
    <3>1. ASSUME NEW u \in Threads, Receiving(u)' PROVE Receiving(u)
      <4>1. CASE u = t
        BY <1>0, <1>17, <2>2, <3>1, <4>1 DEF RegisterRecv
      <4>2. CASE u # t
        BY <1>0, <1>17, <2>2, <3>1, <4>2 DEF RegisterRecv
      <4> QED BY <4>1, <4>2
    <3> HIDE DEF Receiving
    <3> QED BY <1>0, <1>17, <2>2, <3>1 DEF RegisterRecv
  <2> QED BY <2>1, <2>2
<1>18. CASE WsaRecv(t)
  BY <1>0, <1>18 DEF WsaRecv
<1>19. CASE WsaRecvFails(t)
  <2>1. CASE CallDisconnect(t, "undo recv") /\ UNCHANGED failed /\ connected
    <3>1. ASSUME NEW u \in Threads, Receiving(u)' PROVE Receiving(u)
      <4>1. CASE u = t
        BY <1>0, <1>19, <2>1, <3>1, <4>1 DEF WsaRecvFails, HandleError, CallDisconnect
      <4>2. CASE u # t
        BY <1>0, <1>19, <2>1, <3>1, <4>2 DEF WsaRecvFails, HandleError, CallDisconnect
      <4> QED BY <4>1, <4>2
    <3> HIDE DEF Receiving
    <3> QED BY <1>0, <1>19, <2>1, <3>1 DEF WsaRecvFails, HandleError, CallDisconnect
  <2>2. CASE CallDisconnect(t, "undo recv") /\ UNCHANGED failed /\ ~ connected
    BY <1>0, <1>19, <2>2 DEF WsaRecvFails, CallDisconnect
  <2>3. CASE /\ failed' = failed \cup {"recv"}
             /\ Goto(t, "undo recv") /\ UNCHANGED <<connected, after>>
    BY <1>0, <1>19, <2>3 DEF WsaRecvFails
  <2> QED BY <1>19, <2>1, <2>2, <2>3 DEF WsaRecvFails, HandleError
<1>20. CASE UndoRecv(t)
  BY <1>0, <1>20 DEF UndoRecv
<1>21. CASE ProcessRecv(t)
  BY <1>0, <1>21 DEF ProcessRecv, RecvCompleted
<1>22. CASE ProcessRecvEnd(t)
  <2>1. CASE connected
    BY ZenonT(40), <1>0, <1>22, <2>1 DEF ProcessRecvEnd, RecvCompleted, CallDisconnect
  <2>2. CASE ~ connected
    BY <1>0, <1>22, <2>2 DEF ProcessRecvEnd, RecvCompleted, CallDisconnect
  <2> QED BY <2>1, <2>2
<1> QED
  BY <1>1, <1>2, <1>3, <1>4, <1>5, <1>6, <1>7, <1>8, <1>9, <1>10, <1>11, <1>12, <1>13,
     <1>14, <1>15, <1>16, <1>17, <1>18, <1>19, <1>20, <1>21, <1>22 DEF Step, Continue, DispatchSend

\* A failed call is either recorded or has disconnected the session.
LEMMA FailedKeeps == ASSUME IInv, NEW t \in Threads, Step(t) PROVE InvFailed'
<1> USE TcpAssumption
    DEF TcpAssumption, Goto, sendVars, restVars, TypeOK, InvFresh, InvFailed
<1>0. TypeOK /\ InvFresh /\ InvFailed
  BY DEF IInv
<1>1. CASE Send(t)
  BY <1>0, <1>1 DEF Send
<1>2. CASE Disconnect(t)
  BY <1>0, <1>2 DEF Disconnect, CallDisconnect
<1>3. CASE RegisterDisconnect(t)
  BY <1>0, <1>3 DEF RegisterDisconnect
<1>4. CASE ProcessDisconnect(t)
  BY <1>0, <1>4 DEF ProcessDisconnect
<1>5. CASE SendPush(t)
  BY <1>0, <1>5 DEF SendPush
<1>6. CASE RegisterSend(t)
  BY <1>0, <1>6 DEF RegisterSend, Unlock
<1>7. CASE DrainQueue(t)
  BY <1>0, <1>7 DEF DrainQueue
<1>8. CASE WsaSend(t)
  BY <1>0, <1>8 DEF WsaSend, Unlock
<1>9. CASE WsaSendFails(t)
  BY <1>0, <1>9 DEF WsaSendFails, HandleError, CallDisconnect
<1>10. CASE UndoSend(t)
  BY <1>0, <1>10 DEF UndoSend
<1>11. CASE ReleaseToken(t)
  BY <1>0, <1>11 DEF ReleaseToken, Unlock
<1>12. CASE ProcessSend(t)
  BY <1>0, <1>12 DEF ProcessSend, SendCompleted
<1>13. CASE ProcessSendZero(t)
  BY <1>0, <1>13 DEF ProcessSendZero, SendCompleted, CallDisconnect
<1>14. CASE ProcessSendNext(t)
  BY <1>0, <1>14 DEF ProcessSendNext
<1>15. CASE ProcessConnect(t)
  BY <1>0, <1>15 DEF ProcessConnect
<1>16. CASE AddTcpSession(t)
  BY <1>0, <1>16 DEF AddTcpSession
<1>17. CASE RegisterRecv(t)
  BY <1>0, <1>17 DEF RegisterRecv
<1>18. CASE WsaRecv(t)
  BY <1>0, <1>18 DEF WsaRecv
<1>19. CASE WsaRecvFails(t)
  BY <1>0, <1>19 DEF WsaRecvFails, HandleError, CallDisconnect
<1>20. CASE UndoRecv(t)
  BY <1>0, <1>20 DEF UndoRecv
<1>21. CASE ProcessRecv(t)
  BY <1>0, <1>21 DEF ProcessRecv, RecvCompleted
<1>22. CASE ProcessRecvEnd(t)
  BY <1>0, <1>22 DEF ProcessRecvEnd, RecvCompleted, CallDisconnect
<1> QED
  BY <1>1, <1>2, <1>3, <1>4, <1>5, <1>6, <1>7, <1>8, <1>9, <1>10, <1>11, <1>12, <1>13,
     <1>14, <1>15, <1>16, <1>17, <1>18, <1>19, <1>20, <1>21, <1>22 DEF Step, Continue, DispatchSend

\* The token is not dropped while the session lives.
LEMMA TokenKeeps == ASSUME IInv, NEW t \in Threads, Step(t) PROVE InvToken'
<1> USE TcpAssumption
    DEF TcpAssumption, Goto, sendVars, restVars, TypeOK, InvFresh, OneSender, InvFailed,
        InvToken, Sending
<1>0. TypeOK /\ InvFresh /\ OneSender /\ InvFailed /\ InvToken
  BY DEF IInv
<1>1. CASE Send(t)
  BY <1>0, <1>1 DEF Send
<1>2. CASE Disconnect(t)
  BY <1>0, <1>2 DEF Disconnect, CallDisconnect
<1>3. CASE RegisterDisconnect(t)
  BY <1>0, <1>3 DEF RegisterDisconnect
<1>4. CASE ProcessDisconnect(t)
  BY <1>0, <1>4 DEF ProcessDisconnect
<1>5. CASE SendPush(t)
  BY <1>0, <1>5 DEF SendPush
<1>6. CASE RegisterSend(t)
  BY <1>0, <1>6 DEF RegisterSend, Unlock
<1>7. CASE DrainQueue(t)
  BY <1>0, <1>7 DEF DrainQueue
<1>8. CASE WsaSend(t)
  BY <1>0, <1>8 DEF WsaSend, Unlock
<1>9. CASE WsaSendFails(t)
  BY <1>0, <1>9 DEF WsaSendFails, HandleError, CallDisconnect
<1>10. CASE UndoSend(t)
  BY <1>0, <1>10 DEF UndoSend
<1>11. CASE ReleaseToken(t)
  BY <1>0, <1>11 DEF ReleaseToken, Unlock
<1>12. CASE ProcessSend(t)
  BY <1>0, <1>12 DEF ProcessSend, SendCompleted
<1>13. CASE ProcessSendZero(t)
  BY <1>0, <1>13 DEF ProcessSendZero, SendCompleted, CallDisconnect
<1>14. CASE ProcessSendNext(t)
  BY <1>0, <1>14 DEF ProcessSendNext
<1>15. CASE ProcessConnect(t)
  BY <1>0, <1>15 DEF ProcessConnect
<1>16. CASE AddTcpSession(t)
  BY <1>0, <1>16 DEF AddTcpSession
<1>17. CASE RegisterRecv(t)
  BY <1>0, <1>17 DEF RegisterRecv
<1>18. CASE WsaRecv(t)
  BY <1>0, <1>18 DEF WsaRecv
<1>19. CASE WsaRecvFails(t)
  BY <1>0, <1>19 DEF WsaRecvFails, HandleError, CallDisconnect
<1>20. CASE UndoRecv(t)
  BY <1>0, <1>20 DEF UndoRecv
<1>21. CASE ProcessRecv(t)
  BY <1>0, <1>21 DEF ProcessRecv, RecvCompleted
<1>22. CASE ProcessRecvEnd(t)
  BY <1>0, <1>22 DEF ProcessRecvEnd, RecvCompleted, CallDisconnect
<1> QED
  BY <1>1, <1>2, <1>3, <1>4, <1>5, <1>6, <1>7, <1>8, <1>9, <1>10, <1>11, <1>12, <1>13,
     <1>14, <1>15, <1>16, <1>17, <1>18, <1>19, <1>20, <1>21, <1>22 DEF Step, Continue, DispatchSend

\* Nobody takes the buffers a sender is about to take.
LEMMA QueueKeeps == ASSUME IInv, NEW t \in Threads, Step(t) PROVE InvQueue'
<1> USE TcpAssumption
    DEF TcpAssumption, Goto, sendVars, restVars, TypeOK, OneSender, InvQueue, Sending
<1>0. TypeOK /\ OneSender /\ InvQueue
  BY DEF IInv
<1>1. CASE Send(t)
  BY <1>0, <1>1 DEF Send
<1>2. CASE Disconnect(t)
  BY <1>0, <1>2 DEF Disconnect, CallDisconnect
<1>3. CASE RegisterDisconnect(t)
  BY <1>0, <1>3 DEF RegisterDisconnect
<1>4. CASE ProcessDisconnect(t)
  BY <1>0, <1>4 DEF ProcessDisconnect
<1>5. CASE SendPush(t)
  <2>1. sendQueue' # <<>> /\ UNCHANGED sendBuffers
    <3>1. \A s \in Seq(1..MaxSends), b \in Nat : Append(s, b) # <<>>
      OBVIOUS
    <3>2. sendQueue \in Seq(1..MaxSends) /\ accepted \in 0..MaxSends
      BY <1>0
    <3>3. sendQueue' = Append(sendQueue, accepted + 1) /\ UNCHANGED sendBuffers
      BY <1>5 DEF SendPush
    <3> QED BY <3>1, <3>2, <3>3
  <2> QED BY <1>0, <1>5, <2>1 DEF SendPush
<1>6. CASE RegisterSend(t)
  BY <1>0, <1>6 DEF RegisterSend, Unlock
<1>7. CASE DrainQueue(t)
  <2>1. sendQueue # <<>>
    BY <1>0, <1>7 DEF DrainQueue
  <2>2. \A r, s \in Seq(1..MaxSends) : s # <<>> => r \o s # <<>>
    OBVIOUS
  <2>3. sendBuffers' # <<>>
    BY <1>0, <1>7, <2>1, <2>2 DEF DrainQueue
  <2>4. \A u \in Threads : pc'[u] \notin {"register send", "drain"}
    BY <1>0, <1>7 DEF DrainQueue
  <2>5. \A u \in Threads : u # t => pc'[u] # "wsasend"
    BY <1>0, <1>7 DEF DrainQueue
  <2> QED BY <1>0, <1>7, <2>3, <2>4, <2>5 DEF DrainQueue
<1>8. CASE WsaSend(t)
  BY <1>0, <1>8 DEF WsaSend, Unlock
<1>9. CASE WsaSendFails(t)
  BY <1>0, <1>9 DEF WsaSendFails, HandleError, CallDisconnect
<1>10. CASE UndoSend(t)
  BY <1>0, <1>10 DEF UndoSend
<1>11. CASE ReleaseToken(t)
  BY <1>0, <1>11 DEF ReleaseToken, Unlock
<1>12. CASE ProcessSend(t)
  BY <1>0, <1>12 DEF ProcessSend, SendCompleted
<1>13. CASE ProcessSendZero(t)
  BY <1>0, <1>13 DEF ProcessSendZero, SendCompleted, CallDisconnect
<1>14. CASE ProcessSendNext(t)
  BY <1>0, <1>14 DEF ProcessSendNext
<1>15. CASE ProcessConnect(t)
  BY <1>0, <1>15 DEF ProcessConnect
<1>16. CASE AddTcpSession(t)
  BY <1>0, <1>16 DEF AddTcpSession
<1>17. CASE RegisterRecv(t)
  BY <1>0, <1>17 DEF RegisterRecv
<1>18. CASE WsaRecv(t)
  BY <1>0, <1>18 DEF WsaRecv
<1>19. CASE WsaRecvFails(t)
  BY <1>0, <1>19 DEF WsaRecvFails, HandleError, CallDisconnect
<1>20. CASE UndoRecv(t)
  BY <1>0, <1>20 DEF UndoRecv
<1>21. CASE ProcessRecv(t)
  BY <1>0, <1>21 DEF ProcessRecv, RecvCompleted
<1>22. CASE ProcessRecvEnd(t)
  BY <1>0, <1>22 DEF ProcessRecvEnd, RecvCompleted, CallDisconnect
<1> QED
  BY <1>1, <1>2, <1>3, <1>4, <1>5, <1>6, <1>7, <1>8, <1>9, <1>10, <1>11, <1>12, <1>13,
     <1>14, <1>15, <1>16, <1>17, <1>18, <1>19, <1>20, <1>21, <1>22 DEF Step, Continue, DispatchSend

\* The owner stays set while the kernel may use the event.
LEMMA PinnedKeeps == ASSUME IInv, NEW t \in Threads, Step(t) PROVE InvPinned'
<1> USE TcpAssumption
    DEF TcpAssumption, Goto, sendVars, restVars, TypeOK, OneSender, OneReceiver, Sending,
        Receiving, InvEnd, InvPinned, Pinned
<1>0. TypeOK /\ OneSender /\ OneReceiver /\ InvEnd /\ InvPinned
  BY DEF IInv
<1>1. CASE Send(t)
  BY <1>0, <1>1 DEF Send
<1>2. CASE Disconnect(t)
  BY ZenonT(40), <1>0, <1>2 DEF Disconnect, CallDisconnect
<1>3. CASE RegisterDisconnect(t)
  BY <1>0, <1>3 DEF RegisterDisconnect
<1>4. CASE ProcessDisconnect(t)
  BY <1>0, <1>4 DEF ProcessDisconnect
<1>5. CASE SendPush(t)
  BY <1>0, <1>5 DEF SendPush
<1>6. CASE RegisterSend(t)
  BY ZenonT(40), <1>0, <1>6 DEF RegisterSend, Unlock
<1>7. CASE DrainQueue(t)
  BY <1>0, <1>7 DEF DrainQueue
<1>8. CASE WsaSend(t)
  BY <1>0, <1>8 DEF WsaSend, Unlock
<1>9. CASE WsaSendFails(t)
  BY ZenonT(40), <1>0, <1>9 DEF WsaSendFails, HandleError, CallDisconnect
<1>10. CASE UndoSend(t)
  BY <1>0, <1>10 DEF UndoSend
<1>11. CASE ReleaseToken(t)
  BY <1>0, <1>11 DEF ReleaseToken, Unlock
<1>12. CASE ProcessSend(t)
  BY <1>0, <1>12 DEF ProcessSend, SendCompleted
<1>13. CASE ProcessSendZero(t)
  BY ZenonT(40), <1>0, <1>13 DEF ProcessSendZero, SendCompleted, CallDisconnect
<1>14. CASE ProcessSendNext(t)
  BY ZenonT(40), <1>0, <1>14 DEF ProcessSendNext
<1>15. CASE ProcessConnect(t)
  BY <1>0, <1>15 DEF ProcessConnect
<1>16. CASE AddTcpSession(t)
  BY <1>0, <1>16 DEF AddTcpSession
<1>17. CASE RegisterRecv(t)
  BY ZenonT(40), <1>0, <1>17 DEF RegisterRecv
<1>18. CASE WsaRecv(t)
  BY <1>0, <1>18 DEF WsaRecv
<1>19. CASE WsaRecvFails(t)
  BY ZenonT(40), <1>0, <1>19 DEF WsaRecvFails, HandleError, CallDisconnect
<1>20. CASE UndoRecv(t)
  BY <1>0, <1>20 DEF UndoRecv
<1>21. CASE ProcessRecv(t)
  BY <1>0, <1>21 DEF ProcessRecv, RecvCompleted
<1>22. CASE ProcessRecvEnd(t)
  BY <1>0, <1>22 DEF ProcessRecvEnd, RecvCompleted, CallDisconnect
<1> QED
  BY <1>1, <1>2, <1>3, <1>4, <1>5, <1>6, <1>7, <1>8, <1>9, <1>10, <1>11, <1>12, <1>13,
     <1>14, <1>15, <1>16, <1>17, <1>18, <1>19, <1>20, <1>21, <1>22 DEF Step, Continue, DispatchSend

\* A queued buffer keeps its sender.
LEMMA StallKeeps == ASSUME IInv, NEW t \in Threads, Step(t) PROVE NoStall'
<1> USE TcpAssumption
    DEF TcpAssumption, Goto, sendVars, restVars, TypeOK, InvFresh, OneSender, InvFailed,
        InvToken, NoStall, Sending
<1>0. TypeOK /\ InvFresh /\ OneSender /\ InvFailed /\ InvToken /\ NoStall
  BY DEF IInv
<1>1. CASE Send(t)
  BY <1>0, <1>1 DEF Send
<1>2. CASE Disconnect(t)
  BY <1>0, <1>2 DEF Disconnect, CallDisconnect
<1>3. CASE RegisterDisconnect(t)
  BY <1>0, <1>3 DEF RegisterDisconnect
<1>4. CASE ProcessDisconnect(t)
  BY <1>0, <1>4 DEF ProcessDisconnect
<1>5. CASE SendPush(t)
  BY <1>0, <1>5 DEF SendPush
<1>6. CASE RegisterSend(t)
  BY <1>0, <1>6 DEF RegisterSend, Unlock
<1>7. CASE DrainQueue(t)
  BY <1>0, <1>7 DEF DrainQueue
<1>8. CASE WsaSend(t)
  BY <1>0, <1>8 DEF WsaSend, Unlock
<1>9. CASE WsaSendFails(t)
  BY <1>0, <1>9 DEF WsaSendFails, HandleError, CallDisconnect
<1>10. CASE UndoSend(t)
  BY <1>0, <1>10 DEF UndoSend
<1>11. CASE ReleaseToken(t)
  BY <1>0, <1>11 DEF ReleaseToken, Unlock
<1>12. CASE ProcessSend(t)
  BY <1>0, <1>12 DEF ProcessSend, SendCompleted
<1>13. CASE ProcessSendZero(t)
  BY <1>0, <1>13 DEF ProcessSendZero, SendCompleted, CallDisconnect
<1>14. CASE ProcessSendNext(t)
  BY <1>0, <1>14 DEF ProcessSendNext
<1>15. CASE ProcessConnect(t)
  BY <1>0, <1>15 DEF ProcessConnect
<1>16. CASE AddTcpSession(t)
  BY <1>0, <1>16 DEF AddTcpSession
<1>17. CASE RegisterRecv(t)
  BY <1>0, <1>17 DEF RegisterRecv
<1>18. CASE WsaRecv(t)
  BY <1>0, <1>18 DEF WsaRecv
<1>19. CASE WsaRecvFails(t)
  BY <1>0, <1>19 DEF WsaRecvFails, HandleError, CallDisconnect
<1>20. CASE UndoRecv(t)
  BY <1>0, <1>20 DEF UndoRecv
<1>21. CASE ProcessRecv(t)
  BY <1>0, <1>21 DEF ProcessRecv, RecvCompleted
<1>22. CASE ProcessRecvEnd(t)
  BY <1>0, <1>22 DEF ProcessRecvEnd, RecvCompleted, CallDisconnect
<1> QED
  BY <1>1, <1>2, <1>3, <1>4, <1>5, <1>6, <1>7, <1>8, <1>9, <1>10, <1>11, <1>12, <1>13,
     <1>14, <1>15, <1>16, <1>17, <1>18, <1>19, <1>20, <1>21, <1>22 DEF Step, Continue, DispatchSend

\* The receive is posted again.
LEMMA ArmedKeeps == ASSUME IInv, NEW t \in Threads, Step(t) PROVE RecvArmed'
<1> USE TcpAssumption
    DEF TcpAssumption, Goto, sendVars, restVars, TypeOK, InvFresh, OneReceiver, InvFailed,
        RecvArmed, Receiving
<1>0. TypeOK /\ InvFresh /\ OneReceiver /\ InvFailed /\ RecvArmed
  BY DEF IInv
<1>1. CASE Send(t)
  BY <1>0, <1>1 DEF Send
<1>2. CASE Disconnect(t)
  BY <1>0, <1>2 DEF Disconnect, CallDisconnect
<1>3. CASE RegisterDisconnect(t)
  BY <1>0, <1>3 DEF RegisterDisconnect
<1>4. CASE ProcessDisconnect(t)
  BY <1>0, <1>4 DEF ProcessDisconnect
<1>5. CASE SendPush(t)
  BY <1>0, <1>5 DEF SendPush
<1>6. CASE RegisterSend(t)
  BY <1>0, <1>6 DEF RegisterSend, Unlock
<1>7. CASE DrainQueue(t)
  BY <1>0, <1>7 DEF DrainQueue
<1>8. CASE WsaSend(t)
  BY <1>0, <1>8 DEF WsaSend, Unlock
<1>9. CASE WsaSendFails(t)
  BY <1>0, <1>9 DEF WsaSendFails, HandleError, CallDisconnect
<1>10. CASE UndoSend(t)
  BY <1>0, <1>10 DEF UndoSend
<1>11. CASE ReleaseToken(t)
  BY <1>0, <1>11 DEF ReleaseToken, Unlock
<1>12. CASE ProcessSend(t)
  BY <1>0, <1>12 DEF ProcessSend, SendCompleted
<1>13. CASE ProcessSendZero(t)
  BY <1>0, <1>13 DEF ProcessSendZero, SendCompleted, CallDisconnect
<1>14. CASE ProcessSendNext(t)
  BY <1>0, <1>14 DEF ProcessSendNext
<1>15. CASE ProcessConnect(t)
  <2>1. Receiving(t)'
    BY <1>0, <1>15 DEF ProcessConnect
  <2> QED BY <2>1
<1>16. CASE AddTcpSession(t)
  <2>1. pc \in [Threads -> Places] /\ pc' = [pc EXCEPT ![t] = "register recv"]
    BY <1>0, <1>16 DEF AddTcpSession
  <2>2. Receiving(t)'
    BY <2>1
  <2> QED BY <2>2
<1>17. CASE RegisterRecv(t)
  BY <1>0, <1>17 DEF RegisterRecv
<1>18. CASE WsaRecv(t)
  BY <1>0, <1>18 DEF WsaRecv
<1>19. CASE WsaRecvFails(t)
  BY <1>0, <1>19 DEF WsaRecvFails, HandleError, CallDisconnect
<1>20. CASE UndoRecv(t)
  BY <1>0, <1>20 DEF UndoRecv
<1>21. CASE ProcessRecv(t)
  BY <1>0, <1>21 DEF ProcessRecv, RecvCompleted
<1>22. CASE ProcessRecvEnd(t)
  BY <1>0, <1>22 DEF ProcessRecvEnd, RecvCompleted, CallDisconnect
<1> QED
  BY <1>1, <1>2, <1>3, <1>4, <1>5, <1>6, <1>7, <1>8, <1>9, <1>10, <1>11, <1>12, <1>13,
     <1>14, <1>15, <1>16, <1>17, <1>18, <1>19, <1>20, <1>21, <1>22 DEF Step, Continue, DispatchSend


-----------------------------------------------------------------------------
(* The order of the stream *)

Increasing(s) == \A i, j \in DOMAIN s : i < j => s[i] < s[j]
Below(r, s) == \A i \in DOMAIN r, j \in DOMAIN s : r[i] < s[j]
UpTo(s, n) == \A i \in DOMAIN s : s[i] <= n

\* The buffers of the event, until the kernel has them.
Held == IF "send" \in kernel THEN <<>> ELSE sendBuffers

\* What is on the wire comes before what the event holds, and that before
\* what is queued; each in order, and nothing is above the last number.
InvWire ==
  /\ Increasing(wire) /\ Increasing(Held) /\ Increasing(sendQueue)
  /\ Below(wire, Held) /\ Below(wire, sendQueue) /\ Below(Held, sendQueue)
  /\ UpTo(wire, accepted) /\ UpTo(Held, accepted) /\ UpTo(sendQueue, accepted)

\* Where the elements of a concatenation come from.
LEMMA ConcatElements ==
  ASSUME NEW r \in Seq(Nat), NEW s \in Seq(Nat)
  PROVE  /\ r \o s \in Seq(Nat)
         /\ \A i \in DOMAIN (r \o s) :
              \/ i \in DOMAIN r /\ (r \o s)[i] = r[i]
              \/ i > Len(r) /\ i - Len(r) \in DOMAIN s /\ (r \o s)[i] = s[i - Len(r)]
OBVIOUS

\* Two increasing sequences, one below the other, make one.
LEMMA ConcatIncreasing ==
  ASSUME NEW r \in Seq(Nat), NEW s \in Seq(Nat), Increasing(r), Increasing(s), Below(r, s)
  PROVE  Increasing(r \o s)
<1> DEFINE c == r \o s
<1>1. /\ Len(r) \in Nat /\ DOMAIN r = 1..Len(r) /\ DOMAIN s \subseteq Nat
      /\ DOMAIN c \subseteq Nat
  OBVIOUS
<1>2. \A i \in DOMAIN c : \/ i \in DOMAIN r /\ c[i] = r[i]
                          \/ /\ i > Len(r) /\ i - Len(r) \in DOMAIN s
                             /\ c[i] = s[i - Len(r)]
  BY ConcatElements
<1> HIDE DEF c
<1>3. ASSUME NEW i \in DOMAIN c, NEW j \in DOMAIN c, i < j PROVE c[i] < c[j]
  <2>1. CASE j \in DOMAIN r /\ c[j] = r[j]
    <3>1. i \in DOMAIN r /\ c[i] = r[i]
      BY <1>1, <1>2, <1>3, <2>1
    <3> QED BY <1>3, <2>1, <3>1 DEF Increasing
  <2>2. CASE j > Len(r) /\ j - Len(r) \in DOMAIN s /\ c[j] = s[j - Len(r)]
    <3>1. CASE i \in DOMAIN r /\ c[i] = r[i]
      BY <2>2, <3>1 DEF Below
    <3>2. CASE i > Len(r) /\ i - Len(r) \in DOMAIN s /\ c[i] = s[i - Len(r)]
      <4>1. i - Len(r) < j - Len(r)
        BY <1>1, <1>3
      <4> QED BY <2>2, <3>2, <4>1 DEF Increasing
    <3> QED BY <1>2, <3>1, <3>2
  <2> QED BY <1>2, <2>1, <2>2
<1> QED BY <1>3 DEF Increasing, c

\* What is below or above both parts of a concatenation is so of the whole.
LEMMA ConcatBelow ==
  ASSUME NEW r \in Seq(Nat), NEW s \in Seq(Nat), NEW x \in Seq(Nat), NEW n \in Nat
  PROVE  /\ Below(r, x) /\ Below(s, x) => Below(r \o s, x)
         /\ Below(x, r) /\ Below(x, s) => Below(x, r \o s)
         /\ UpTo(r, n) /\ UpTo(s, n) => UpTo(r \o s, n)
<1> DEFINE c == r \o s
<1>1. \A i \in DOMAIN c : \/ i \in DOMAIN r /\ c[i] = r[i]
                          \/ i - Len(r) \in DOMAIN s /\ c[i] = s[i - Len(r)]
  BY ConcatElements
<1> HIDE DEF c
<1> QED BY <1>1 DEF Below, UpTo, c

LEMMA NothingOrdered ==
  ASSUME NEW x, NEW n PROVE Increasing(<<>>) /\ Below(x, <<>>) /\ Below(<<>>, x) /\ UpTo(<<>>, n)
BY DEF Increasing, Below, UpTo

\* The next number goes behind everything.
LEMMA AppendOrdered ==
  ASSUME NEW s \in Seq(Nat), NEW n \in Nat, Increasing(s), UpTo(s, n)
  PROVE  Increasing(Append(s, n + 1)) /\ UpTo(Append(s, n + 1), n + 1)
BY DEF Increasing, UpTo

LEMMA AppendAbove ==
  ASSUME NEW s \in Seq(Nat), NEW r \in Seq(Nat), NEW n \in Nat, Below(r, s), UpTo(r, n)
  PROVE  Below(r, Append(s, n + 1)) /\ UpTo(r, n + 1)
<1>1. ASSUME NEW i \in DOMAIN r PROVE r[i] \in Nat /\ r[i] < n + 1
  BY DEF UpTo
<1>2. UpTo(r, n + 1)
  BY <1>1 DEF UpTo
<1>3. ASSUME NEW i \in DOMAIN r, NEW j \in DOMAIN Append(s, n + 1)
      PROVE  r[i] < Append(s, n + 1)[j]
  BY <1>1 DEF Below
<1> QED BY <1>2, <1>3 DEF Below

\* The sequences of the session are sequences of numbers.
LEMMA Numbers ==
  TypeOK => /\ wire \in Seq(Nat) /\ Held \in Seq(Nat) /\ sendBuffers \in Seq(Nat)
            /\ sendQueue \in Seq(Nat) /\ accepted \in Nat
<1> SUFFICES ASSUME TypeOK PROVE Numbers!2
  OBVIOUS
<1>1. ASSUME NEW s \in Seq(1..MaxSends) PROVE s \in Seq(Nat)
  <2>1. s \in [1..Len(s) -> 1..MaxSends] /\ Len(s) \in Nat
    BY LenProperties
  <2>2. s \in [1..Len(s) -> Nat]
    BY <2>1
  <2> QED BY <2>1, <2>2
<1>2. /\ wire \in Seq(1..MaxSends) /\ sendBuffers \in Seq(1..MaxSends)
      /\ sendQueue \in Seq(1..MaxSends) /\ accepted \in 0..MaxSends
  BY DEF TypeOK
<1>3. Held \in Seq(1..MaxSends)
  BY <1>2, EmptyTyped DEF Held
<1>4. accepted \in Nat
  BY <1>2, TcpAssumption DEF TcpAssumption
<1> QED BY <1>1, <1>2, <1>3, <1>4

\* No step puts a buffer before one that Send accepted earlier.
LEMMA WireKeeps == ASSUME IInv, InvWire, NEW t \in Threads, Step(t) PROVE InvWire'
<1>0. TypeOK /\ OneSender
  BY DEF IInv
<1>n. /\ wire \in Seq(Nat) /\ Held \in Seq(Nat) /\ sendBuffers \in Seq(Nat)
      /\ sendQueue \in Seq(Nat) /\ accepted \in Nat
  BY <1>0, Numbers
<1>1. CASE SendPush(t)
  <2>1. /\ sendQueue' = Append(sendQueue, accepted + 1) /\ accepted' = accepted + 1
        /\ wire' = wire /\ Held' = Held
    BY <1>1 DEF SendPush, Held
  <2> HIDE DEF Held
  <2> QED BY <1>n, <2>1, AppendOrdered, AppendAbove DEF InvWire
<1>2. CASE DrainQueue(t)
  <2>1. "send" \notin kernel
    BY <1>0, <1>2 DEF OneSender, Sending, DrainQueue
  <2>2. /\ sendQueue' = <<>> /\ Held' = Held \o sendQueue
        /\ wire' = wire /\ accepted' = accepted
    BY <1>2, <2>1 DEF DrainQueue, Held, restVars
  <2> HIDE DEF Held
  <2>3. Increasing(Held \o sendQueue)
    BY <1>n, ConcatIncreasing DEF InvWire
  <2>4. Below(wire, Held \o sendQueue) /\ UpTo(Held \o sendQueue, accepted)
    BY <1>n, ConcatBelow DEF InvWire
  <2> QED BY <2>2, <2>3, <2>4, NothingOrdered DEF InvWire
<1>3. CASE WsaSend(t)
  <2>1. "send" \notin kernel
    BY <1>0, <1>3 DEF OneSender, Sending, WsaSend
  <2>2. /\ wire' = wire \o Held /\ Held' = <<>>
        /\ sendQueue' = sendQueue /\ accepted' = accepted
    BY <1>3, <2>1 DEF WsaSend, Held, restVars
  <2> HIDE DEF Held
  <2>3. Increasing(wire \o Held)
    BY <1>n, ConcatIncreasing DEF InvWire
  <2>4. Below(wire \o Held, sendQueue) /\ UpTo(wire \o Held, accepted)
    BY <1>n, ConcatBelow DEF InvWire
  <2> QED BY <2>2, <2>3, <2>4, NothingOrdered DEF InvWire
<1>4. CASE UndoSend(t) \/ ProcessSend(t) \/ ProcessSendZero(t)
  <2>1. Held' = <<>> /\ UNCHANGED <<wire, sendQueue, accepted>>
    BY <1>4 DEF UndoSend, ProcessSend, ProcessSendZero, SendCompleted, restVars, Held
  <2> HIDE DEF Held
  <2> QED BY <2>1, NothingOrdered DEF InvWire
<1>5. CASE UNCHANGED <<wire, sendBuffers, sendQueue, accepted>>
           /\ ("send" \in kernel' <=> "send" \in kernel)
  <2>1. Held' = Held
    BY <1>5 DEF Held
  <2> HIDE DEF Held
  <2> QED BY <1>5, <2>1 DEF InvWire
<1>6. Step(t) => \/ SendPush(t) \/ DrainQueue(t) \/ WsaSend(t)
                 \/ UndoSend(t) \/ ProcessSend(t) \/ ProcessSendZero(t)
                 \/ /\ UNCHANGED <<wire, sendBuffers, sendQueue, accepted>>
                    /\ "send" \in kernel' <=> "send" \in kernel
  <2> USE DEF sendVars, restVars
  <2>1. ASSUME \/ Send(t) \/ Disconnect(t) \/ RegisterDisconnect(t) \/ ProcessDisconnect(t)
               \/ RegisterSend(t) \/ WsaSendFails(t) \/ ReleaseToken(t) \/ ProcessSendNext(t)
        PROVE  /\ UNCHANGED <<wire, sendBuffers, sendQueue, accepted>>
               /\ "send" \in kernel' <=> "send" \in kernel
    BY <2>1 DEF Send, Disconnect, RegisterDisconnect, ProcessDisconnect, RegisterSend,
                WsaSendFails, ReleaseToken, ProcessSendNext
  <2>2. ASSUME \/ ProcessConnect(t) \/ AddTcpSession(t) \/ RegisterRecv(t) \/ WsaRecv(t)
               \/ WsaRecvFails(t) \/ UndoRecv(t) \/ ProcessRecv(t) \/ ProcessRecvEnd(t)
        PROVE  /\ UNCHANGED <<wire, sendBuffers, sendQueue, accepted>>
               /\ "send" \in kernel' <=> "send" \in kernel
    BY <2>2 DEF ProcessConnect, AddTcpSession, RegisterRecv, WsaRecv, WsaRecvFails, UndoRecv,
                ProcessRecv, ProcessRecvEnd, RecvCompleted
  <2> QED BY <2>1, <2>2 DEF Step, Continue, DispatchSend
<1> QED BY <1>1, <1>2, <1>3, <1>4, <1>5, <1>6

\* The three parts together are the sequence of WireInOrder.
LEMMA WireWhole == TypeOK /\ InvWire => WireInOrder
<1> SUFFICES ASSUME TypeOK, InvWire PROVE WireInOrder
  OBVIOUS
<1>1. /\ wire \in Seq(Nat) /\ Held \in Seq(Nat) /\ sendQueue \in Seq(Nat) /\ accepted \in Nat
  BY Numbers
<1> DEFINE s == wire \o Held \o sendQueue
<1>2. WireInOrder <=> \A i, j \in DOMAIN s : i < j => s[i] < s[j]
  BY DEF WireInOrder, Held
<1> HIDE DEF Held
<1>3. Increasing(wire \o Held) /\ wire \o Held \in Seq(Nat)
  BY <1>1, ConcatIncreasing, ConcatElements DEF InvWire
<1>4. Below(wire \o Held, sendQueue)
  BY <1>1, ConcatBelow DEF InvWire
<1>5. Increasing(s)
  BY <1>1, <1>3, <1>4, ConcatIncreasing DEF InvWire
<1> QED BY <1>2, <1>5 DEF Increasing

-----------------------------------------------------------------------------

\* An accepted socket and nothing else.
LEMMA InitIInv == Init => IInv /\ InvWire
<1> SUFFICES ASSUME Init PROVE IInv /\ InvWire
  OBVIOUS
<1> USE TcpAssumption DEF TcpAssumption, Init
<1>1. TypeOK
  <2>1. connected \in BOOLEAN /\ sendRegistered \in BOOLEAN
    BY Zenon
  <2>2. /\ sendQueue \in Seq(1..MaxSends) /\ sendBuffers \in Seq(1..MaxSends)
        /\ wire \in Seq(1..MaxSends)
    BY EmptyTyped
  <2>3. /\ lock \in Threads \cup {NoThread} /\ accepted \in 0..MaxSends
        /\ received \in 0..MaxRecvs
    OBVIOUS
  <2>4. /\ owned \subseteq {"send", "recv", "disconnect"}
        /\ kernel \subseteq {"accept", "send", "recv", "disconnect"}
        /\ failed \subseteq {"send", "recv", "disconnect"}
        /\ service \in {"absent", "registered", "released", "assert failed"}
    OBVIOUS
  <2>5. /\ pc \in [Threads -> Places]
        /\ after \in [Threads -> {"idle", "undo send", "undo recv"}]
    BY DEF Places
  <2> QED BY <2>1, <2>2, <2>3, <2>4, <2>5 DEF TypeOK
<1>2. InvFresh /\ InvEnd /\ OneSender /\ OneReceiver
  BY DEF InvFresh, InvEnd, OneSender, OneReceiver, Sending, Receiving
<1>3. InvFailed /\ InvToken /\ InvQueue /\ InvPinned /\ NoStall /\ RecvArmed
  BY DEF InvFailed, InvToken, InvQueue, InvPinned, NoStall, RecvArmed, Pinned
<1>4. InvWire
  BY NothingOrdered DEF InvWire, Held
<1> QED BY <1>1, <1>2, <1>3, <1>4 DEF IInv

\* The invariant holds in every reachable state.
LEMMA Invariance == Spec => [](IInv /\ InvWire)
<1>1. IInv /\ InvWire /\ [Next]_vars => (IInv /\ InvWire)'
  <2> SUFFICES ASSUME IInv, InvWire, [Next]_vars PROVE (IInv /\ InvWire)'
    OBVIOUS
  <2>1. ASSUME NEW t \in Threads, Step(t) PROVE (IInv /\ InvWire)'
    <3>1. TypeOK' /\ InvFresh' /\ InvEnd' /\ OneSender' /\ OneReceiver'
      BY <2>1, TypeKeeps, FreshKeeps, EndKeeps, SenderKeeps, ReceiverKeeps
    <3>2. InvFailed' /\ InvToken' /\ InvQueue' /\ InvPinned' /\ NoStall' /\ RecvArmed'
      BY <2>1, FailedKeeps, TokenKeeps, QueueKeeps, PinnedKeeps, StallKeeps, ArmedKeeps
    <3>3. InvWire'
      BY <2>1, WireKeeps
    <3> QED BY <3>1, <3>2, <3>3 DEF IInv
  <2>2. CASE UNCHANGED vars
    <3>1. IInv'
      BY ZenonT(40), <2>2 DEF IInv, vars, TypeOK, InvFresh, InvEnd, OneSender, OneReceiver, InvFailed,
                  InvToken, InvQueue, InvPinned, NoStall, RecvArmed, Pinned, Sending, Receiving
    <3>2. InvWire'
      BY <2>2 DEF vars, InvWire, Held
    <3> QED BY <3>1, <3>2
  <2>3. Next => \E t \in Threads : Step(t)
    BY DEF Next, Step
  <2> QED BY <2>1, <2>2, <2>3
<1> QED BY <1>1, InitIInv, PTL DEF Spec

\* Every variable keeps its type, whatever number of threads use the session.
THEOREM TypeCorrect == Spec => []TypeOK
<1>1. IInv => TypeOK
  BY DEF IInv
<1> QED BY <1>1, Invariance, PTL

\* _sendEvent is used by one thread or by the kernel, never by two of them.
THEOREM SendEventOwned == Spec => []OneSender
<1>1. IInv => OneSender
  BY DEF IInv
<1> QED BY <1>1, Invariance, PTL

\* The same for _recvEvent and the receive buffer.
THEOREM RecvEventOwned == Spec => []OneReceiver
<1>1. IInv => OneReceiver
  BY DEF IInv
<1> QED BY <1>1, Invariance, PTL

\* While the kernel works on an operation, its event holds the session.
THEOREM KernelPins == Spec => []Pinned
<1>1. IInv => Pinned
  BY DEF IInv, InvPinned
<1> QED BY <1>1, Invariance, PTL

\* Buffers go to the kernel in the order Send accepted them, each once.
THEOREM StreamInOrder == Spec => []WireInOrder
<1>1. IInv /\ InvWire => WireInOrder
  BY WireWhole DEF IInv
<1> QED BY <1>1, Invariance, PTL

\* WSASend never gets an empty list of buffers.
THEOREM SendsSomething == Spec => []NeverEmptySend
<1>1. IInv => NeverEmptySend
  BY DEF IInv, InvQueue, NeverEmptySend
<1> QED BY <1>1, Invariance, PTL

\* On a live session whose sends have not failed, a queued buffer has a sender.
THEOREM QueueServed == Spec => []NoStall
<1>1. IInv => NoStall
  BY DEF IInv
<1> QED BY <1>1, Invariance, PTL

\* A live session whose receives have not failed is listening.
THEOREM KeepsListening == Spec => []RecvArmed
<1>1. IInv => RecvArmed
  BY DEF IInv
<1> QED BY <1>1, Invariance, PTL

\* Service::ReleaseTcpSession's assertion holds: a session is released once.
THEOREM ReleasedOnce == Spec => []ReleaseAsserted
<1>1. IInv => ReleaseAsserted
  BY DEF IInv, InvEnd, ReleaseAsserted
<1> QED BY <1>1, Invariance, PTL
=============================================================================
