----------------------------- MODULE UdpSession -----------------------------
(***************************************************************************)
(* core::network::UdpSession: the reliable half of the UDP protocol.  One  *)
(* endpoint numbers packets, remembers each one until it is acknowledged   *)
(* and sends it; the other records which numbers came and answers a new    *)
(* one with its number and a bitfield of the numbers just below.  Both     *)
(* endpoints run the code of UdpSession; the network between them loses,   *)
(* duplicates and reorders packets and acknowledgements.                   *)
(*                                                                         *)
(* Several threads send on one session (the tick, the job queue and the    *)
(* handlers), and `_sendSeq++' is done outside the session's lock: it is a *)
(* load and a store here.  UdpSession::Update, which would send again, has *)
(* no caller, so nothing is ever sent twice by the code itself.            *)
(***************************************************************************)
EXTENDS Naturals, FiniteSets

CONSTANTS
  Threads,
  SeqMod,         \* size of the sequence space, 2^16 in the code
  WindowSize,     \* WINDOW_SIZE
  BitfieldSize,   \* BITFIELD_SIZE
  MaxSends        \* bound: calls of SendReliable

ASSUME UdpAssumption ==
  /\ {SeqMod, WindowSize, BitfieldSize, MaxSends} \subseteq Nat
  /\ WindowSize > 0
  /\ BitfieldSize < WindowSize
  /\ 4 * WindowSize + 1 < SeqMod

Seqs == 0 .. SeqMod - 1

VARIABLES
  \* the sending endpoint
  connected,        \* _connected
  sendSeq,          \* _sendSeq
  pending,          \* keys of _pendingAckMap
  pc, seq,          \* threads inside SendReliable, and the number each took
  sent,             \* calls of SendReliable so far
  \* the network
  wire,             \* packets sent: each may arrive never, once or often
  acks,             \* acknowledgements sent, likewise
  \* the receiving endpoint
  latestSeq,        \* _latestSeq
  receiveHistory,   \* bits set in _receiveHistory
  \* history
  entered,          \* numbers ever put in _pendingAckMap
  acked,            \* numbers HandleAck has looked up
  records,          \* how often each number was recorded
  delivered,        \* numbers that arrived
  missed,           \* new numbers, inside the window, that were not recorded
  raced             \* two threads have been inside `_sendSeq++' at once

sendVars == <<connected, sendSeq, pending, pc, seq, sent, entered, raced>>
recvVars == <<latestSeq, receiveHistory, records, delivered, missed>>
vars == <<sendVars, recvVars, wire, acks, acked>>

Init ==
  /\ connected = TRUE
  /\ sendSeq = 1
  /\ pending = {}
  /\ pc = [t \in Threads |-> "idle"]
  /\ seq = [t \in Threads |-> 0]
  /\ sent = 0
  /\ wire = {} /\ acks = {}
  /\ latestSeq = 0
  /\ receiveHistory = {}
  /\ entered = {} /\ acked = {} /\ delivered = {} /\ missed = {}
  /\ records = [s \in Seqs |-> 0]
  /\ raced = FALSE

Goto(t, place) == pc' = [pc EXCEPT ![t] = place]

\* A number k below s on the circle.
Below(s, k) == (s + SeqMod - k) % SeqMod

\* static_cast<int16>(a - b) > 0
IsSeqGreater(a, b) == Below(a, b) \in 1 .. SeqMod \div 2 - 1

-----------------------------------------------------------------------------
(* SendReliable *)

\* The load of `_sendSeq++'.
SendReliable(t) ==
  /\ pc[t] = "idle"
  /\ sent < MaxSends
  /\ sent' = sent + 1
  /\ seq' = [seq EXCEPT ![t] = sendSeq]
  /\ raced' = (raced \/ \E u \in Threads : pc[u] = "increment")
  /\ Goto(t, "increment")
  /\ UNCHANGED <<connected, sendSeq, pending, entered, recvVars, wire, acks, acked>>

\* The store of `_sendSeq++', and the number into the packet's header.
Increment(t) ==
  /\ pc[t] = "increment"
  /\ sendSeq' = (seq[t] + 1) % SeqMod
  /\ Goto(t, "record")
  /\ UNCHANGED <<connected, pending, seq, sent, entered, raced,
                 recvVars, wire, acks, acked>>

\* Fault: the packet is on its way before it is recorded.
RecordSent(t) ==
  /\ pc[t] = "record"
  /\ \/ wire' = wire \cup {seq[t]} /\ UNCHANGED <<pending, entered, pc>>
     \/ /\ pending' = pending \cup {seq[t]}
        /\ entered' = entered \cup {seq[t]}
        /\ Goto(t, "send")
        /\ UNCHANGED wire
  /\ UNCHANGED <<connected, sendSeq, seq, sent, raced, recvVars, acks, acked>>

\* Under the lock, before the packet can reach anybody.
Record(t) ==
  /\ pc[t] = "record"
  /\ pending' = pending \cup {seq[t]}
  /\ entered' = entered \cup {seq[t]}
  /\ Goto(t, "send")
  /\ UNCHANGED <<connected, sendSeq, seq, sent, raced, recvVars, wire, acks, acked>>

\* Send and RegisterSend: nothing leaves a session that is not connected.
Send(t) ==
  /\ pc[t] = "send"
  /\ wire' = IF connected THEN wire \cup {seq[t]} ELSE wire
  /\ Goto(t, "idle")
  /\ UNCHANGED <<connected, sendSeq, pending, seq, sent, entered, raced,
                 recvVars, acks, acked>>

\* WSASendTo refused the packet: HandleError disconnects or only logs.
SendFails(t) ==
  /\ pc[t] = "send"
  /\ connected
  /\ connected' \in BOOLEAN
  /\ Goto(t, "idle")
  /\ UNCHANGED <<sendSeq, pending, seq, sent, entered, raced,
                 recvVars, wire, acks, acked>>

-----------------------------------------------------------------------------
(* HandlePacket, CheckAndRecordReceiveHistory, GenerateAckBitfield *)

\* The bit of _receiveHistory that stands for s.
Bit(s) == s % WindowSize

InWindow(s) == IsSeqGreater(s, (latestSeq + SeqMod - WindowSize) % SeqMod)

\* Fault: the window's test alone decides.
RecordsAgain(s) == s > 0 /\ InWindow(s)

RecordsAhead(s) ==
  /\ s > 0
  /\ IsSeqGreater(s, latestSeq)
  /\ Bit(s) \notin receiveHistory

\* What CheckAndRecordReceiveHistory answers; number 0 marks an unnumbered
\* packet and is not asked about.
Records(s) ==
  /\ s > 0
  /\ InWindow(s)
  /\ Bit(s) \notin receiveHistory

\* Fault: bit i - 1 is set for the number i + 1 below.
AckBitfieldShifted(s, history) ==
  {i \in 1..BitfieldSize :
     IsSeqGreater(s, Below(s, i)) /\ Bit(Below(s, i + 1)) \in history}

\* The i for which bit i - 1 of the bitfield is set.
AckBitfield(s, history) ==
  {i \in 1..BitfieldSize :
     IsSeqGreater(s, Below(s, i)) /\ Bit(Below(s, i)) \in history}

HandlePacket(s) ==
  /\ s \in wire
  /\ delivered' = delivered \cup {s}
  /\ IF Records(s)
     THEN /\ receiveHistory' = receiveHistory \cup {Bit(s)}
          /\ latestSeq' = IF IsSeqGreater(s, latestSeq) THEN s ELSE latestSeq
          /\ records' = [records EXCEPT ![s] = @ + 1]
          /\ acks' = acks \cup {[latest |-> s, bits |-> AckBitfield(s, receiveHistory')]}
          /\ UNCHANGED missed
     ELSE /\ missed' = IF s > 0 /\ InWindow(s) /\ records[s] = 0
                       THEN missed \cup {s} ELSE missed
          /\ UNCHANGED <<receiveHistory, latestSeq, records, acks>>
  /\ UNCHANGED <<sendVars, wire, acked>>

-----------------------------------------------------------------------------
(* HandleAck *)

AckedBy(a) == {Below(a.latest, i) : i \in {0} \cup a.bits}

HandleAck(a) ==
  /\ a \in acks
  /\ pending' = pending \ AckedBy(a)
  /\ acked' = acked \cup AckedBy(a)
  /\ UNCHANGED <<connected, sendSeq, pc, seq, sent, entered, raced,
                 recvVars, wire, acks>>

-----------------------------------------------------------------------------

Next ==
  \/ \E t \in Threads :
       SendReliable(t) \/ Increment(t) \/ Record(t) \/ Send(t) \/ SendFails(t)
  \/ \E s \in wire : HandlePacket(s)
  \/ \E a \in acks : HandleAck(a)

Spec == Init /\ [][Next]_vars

-----------------------------------------------------------------------------
(* Correctness *)

Ack == [latest : Seqs, bits : SUBSET (1..BitfieldSize)]

\* Numbers stay on the circle of 16 bits, bits in the history and the bitfield.
TypeOK ==
  /\ connected \in BOOLEAN /\ raced \in BOOLEAN
  /\ sendSeq \in Seqs /\ latestSeq \in Seqs
  /\ pending \subseteq Seqs /\ wire \subseteq Seqs
  /\ pc \in [Threads -> {"idle", "increment", "record", "send"}]
  /\ seq \in [Threads -> Seqs]
  /\ sent \in 0..MaxSends
  /\ acks \subseteq Ack
  /\ receiveHistory \subseteq 0 .. WindowSize - 1
  /\ entered \subseteq Seqs /\ acked \subseteq Seqs
  /\ delivered \subseteq Seqs /\ missed \subseteq Seqs
  /\ records \in [Seqs -> Nat]

\* The numbers handed out so far fit the receiver's window once.  The code
\* never clears a bit of _receiveHistory, so what it promises beyond is less.
FirstWindow == sent <= WindowSize

\* No number is recorded, and so acknowledged as new, a second time, however
\* often the network repeats the packet.
RecordedOnce == \A s \in Seqs : records[s] <= 1

\* Whatever the order of arrival, the first packet with a number is new.
FreshRecorded ==
  FirstWindow => missed = {} /\ \A s \in delivered : records[s] = 1

\* HandleAck gives up on a number only if the receiver has recorded it: an
\* acknowledgement never covers a packet that was lost.
NoFalseAck ==
  FirstWindow => \A s \in acked \cap entered : records[s] = 1

\* _pendingAckMap holds exactly the numbers recorded there and not
\* acknowledged: none is dropped early, and none stays although its
\* acknowledgement has been handled.
PendingExact ==
  FirstWindow /\ ~ raced => pending = entered \ acked

\* Two packets get the same number only if two threads were inside
\* `_sendSeq++' at the same time.
NumbersDistinct ==
  ~ raced => \A t, u \in Threads :
    t # u /\ pc[t] \in {"increment", "record"} /\ pc[u] \in {"increment", "record"}
      => seq[t] # seq[u]

\* The receiver records every new packet inside the last WINDOW_SIZE numbers.
WindowSlides == missed = {}
=============================================================================
