-------------------------- MODULE UdpSessionProofs --------------------------
(***************************************************************************)
(* What UdpSession promises, for every number of threads and all sizes of  *)
(* the sequence space, the window and the bitfield that UdpAssumption      *)
(* allows.  The sender's half holds until its numbers wrap, the receiver's *)
(* until they outgrow the window, which the code never clears.             *)
(***************************************************************************)
EXTENDS UdpSession, TLAPS

(* The sizes, and arithmetic on the circle. *)

LEMMA Sizes ==
  /\ SeqMod \in Nat /\ WindowSize \in Nat /\ BitfieldSize \in Nat /\ MaxSends \in Nat
  /\ WindowSize > 0 /\ BitfieldSize < WindowSize /\ 4 * WindowSize + 1 < SeqMod
  /\ 1..BitfieldSize \subseteq Seqs /\ 1..WindowSize \subseteq Seqs
BY UdpAssumption DEF UdpAssumption, Seqs

LEMMA BelowSeq ==
  ASSUME NEW s \in Seqs, NEW k \in Seqs
  PROVE  Below(s, k) \in Seqs
BY Sizes DEF Below, Seqs

LEMMA BitRange ==
  ASSUME NEW s \in Seqs
  PROVE  Bit(s) \in 0 .. WindowSize - 1
BY Sizes DEF Bit, Seqs

\* One window of consecutive numbers has one bit each.
LEMMA BitInjective ==
  ASSUME NEW r \in 1..WindowSize, NEW s \in 1..WindowSize, Bit(r) = Bit(s)
  PROVE  r = s
BY Sizes DEF Bit

\* In the first window every number is inside the window.
LEMMA FirstInWindow ==
  ASSUME latestSeq \in 0..WindowSize, NEW s \in 1..WindowSize
  PROVE  InWindow(s)
<1> DEFINE low == (latestSeq + SeqMod - WindowSize) % SeqMod
<1>1. SeqMod \div 2 \in Nat /\ SeqMod \div 2 > 2 * WindowSize
  BY Sizes
<1>2. CASE latestSeq = WindowSize
  <2>1. low = 0
    BY <1>2, Sizes
  <2>2. Below(s, low) = s
    BY <2>1, Sizes DEF Below
  <2> QED
    BY <1>1, <2>2, Sizes DEF InWindow, IsSeqGreater
<1>3. CASE latestSeq < WindowSize
  <2>1. low = latestSeq + SeqMod - WindowSize
    BY <1>3, Sizes
  <2>2. Below(s, low) = (s + WindowSize - latestSeq) % SeqMod
    BY <2>1, Sizes DEF Below
  <2>3. Below(s, low) = s + WindowSize - latestSeq
    BY <2>2, <1>3, Sizes
  <2> QED
    BY <1>1, <2>3, <1>3, Sizes DEF InWindow, IsSeqGreater
<1> QED
  BY <1>2, <1>3, Sizes

LEMMA AckType ==
  ASSUME NEW s \in Seqs, NEW history
  PROVE  [latest |-> s, bits |-> AckBitfield(s, history)] \in Ack
BY DEF Ack, AckBitfield

LEMMA AckedByType ==
  ASSUME NEW a \in Ack
  PROVE  AckedBy(a) \subseteq Seqs
<1> SUFFICES ASSUME NEW i \in {0} \cup a.bits PROVE Below(a.latest, i) \in Seqs
  BY DEF AckedBy
<1>1. i \in Seqs /\ a.latest \in Seqs
  BY Sizes DEF Ack, Seqs
<1> QED
  BY <1>1, BelowSeq

-----------------------------------------------------------------------------
(* Type correctness *)

LEMMA TypeInit == Init => TypeOK
<1>1. 0 \in Seqs /\ 1 \in Seqs /\ 0 \in 0..MaxSends
  BY Sizes DEF Seqs
<1>2. ASSUME Init
      PROVE  /\ pc \in [Threads -> {"idle", "increment", "record", "send"}]
             /\ seq \in [Threads -> Seqs] /\ records \in [Seqs -> Nat]
  BY <1>1, <1>2 DEF Init
<1>3. ASSUME Init
      PROVE  /\ acks \subseteq Ack /\ receiveHistory \subseteq 0 .. WindowSize - 1
             /\ connected \in BOOLEAN /\ raced \in BOOLEAN
  BY <1>3 DEF Init
<1> QED
  BY <1>1, <1>2, <1>3 DEF Init, TypeOK

LEMMA TypeNext == TypeOK /\ [Next]_vars => TypeOK'
<1> SUFFICES ASSUME TypeOK, [Next]_vars PROVE TypeOK'
  OBVIOUS
<1> USE DEF TypeOK
<1>1. ASSUME NEW t \in Threads, SendReliable(t) PROVE TypeOK'
  BY <1>1, Sizes DEF SendReliable, Goto, recvVars
<1>2. ASSUME NEW t \in Threads, Increment(t) PROVE TypeOK'
  <2>1. (seq[t] + 1) % SeqMod \in Seqs
    BY Sizes DEF Seqs
  <2> QED
    BY <1>2, <2>1 DEF Increment, Goto, recvVars
<1>3. ASSUME NEW t \in Threads, Record(t) PROVE TypeOK'
  BY <1>3 DEF Record, Goto, recvVars
<1>4. ASSUME NEW t \in Threads, Send(t) PROVE TypeOK'
  BY <1>4 DEF Send, Goto, recvVars
<1>5. ASSUME NEW t \in Threads, SendFails(t) PROVE TypeOK'
  BY <1>5 DEF SendFails, Goto, recvVars
<1>6. ASSUME NEW s \in wire, HandlePacket(s) PROVE TypeOK'
  <2>1. s \in Seqs
    OBVIOUS
  <2>2. CASE Records(s)
    <3>0. [latest |-> s, bits |-> AckBitfield(s, receiveHistory')] \in Ack
      BY <2>1, AckType
    <3>1. receiveHistory' \subseteq 0 .. WindowSize - 1
      <4>1. receiveHistory' = receiveHistory \cup {Bit(s)}
        BY <1>6, <2>2 DEF HandlePacket
      <4>2. Bit(s) \in 0 .. WindowSize - 1
        BY <2>1, BitRange
      <4> QED
        BY <4>1, <4>2
    <3>2. acks' = acks \cup {[latest |-> s, bits |-> AckBitfield(s, receiveHistory')]}
      BY <1>6, <2>2 DEF HandlePacket
    <3>3. acks' \subseteq Ack
      BY <3>0, <3>2
    <3>4. records' \in [Seqs -> Nat] /\ latestSeq' \in Seqs /\ delivered' \subseteq Seqs
      BY <1>6, <2>1, <2>2 DEF HandlePacket
    <3> QED
      BY <1>6, <2>2, <3>1, <3>3, <3>4 DEF HandlePacket, sendVars
  <2>3. CASE ~ Records(s)
    <3>1. missed' \subseteq Seqs /\ delivered' \subseteq Seqs
      BY <1>6, <2>1, <2>3 DEF HandlePacket
    <3> QED
      BY <1>6, <2>3, <3>1 DEF HandlePacket, sendVars
  <2> QED
    BY <2>2, <2>3
<1>7. ASSUME NEW a \in acks, HandleAck(a) PROVE TypeOK'
  <2>1. AckedBy(a) \subseteq Seqs
    BY AckedByType
  <2> QED
    BY <1>7, <2>1 DEF HandleAck, recvVars
<1>8. CASE UNCHANGED vars
  BY <1>8 DEF vars, sendVars, recvVars
<1> QED
  BY <1>1, <1>2, <1>3, <1>4, <1>5, <1>6, <1>7, <1>8 DEF Next

\* Every variable keeps its type: numbers stay in the sequence space, bits in
\* the history and in the bitfield.
THEOREM TypeCorrect == Spec => []TypeOK
<1>1. Init => TypeOK
  BY TypeInit
<1>2. TypeOK /\ [Next]_vars => TypeOK'
  BY TypeNext
<1> QED
  BY <1>1, <1>2, PTL DEF Spec

-----------------------------------------------------------------------------
(* A number is recorded at most once *)

\* The bit of a recorded number is set, and no bit is ever cleared.
RecordedInv ==
  \A s \in Seqs : records[s] \in 0..1 /\ (records[s] = 1 => Bit(s) \in receiveHistory)

LEMMA RecordedInit == Init => RecordedInv
BY DEF Init, RecordedInv

LEMMA RecordedNext == TypeOK /\ RecordedInv /\ [Next]_vars => RecordedInv'
<1> SUFFICES ASSUME TypeOK, RecordedInv, [Next]_vars PROVE RecordedInv'
  OBVIOUS
<1>1. CASE UNCHANGED <<records, receiveHistory>>
  BY <1>1 DEF RecordedInv, Bit
<1>2. ASSUME NEW s \in wire, HandlePacket(s) PROVE RecordedInv'
  <2>1. CASE Records(s)
    <3>1. s \in Seqs /\ records[s] = 0
      BY <2>1 DEF Records, RecordedInv, TypeOK
    <3>2. records' = [records EXCEPT ![s] = 1] /\ receiveHistory' = receiveHistory \cup {Bit(s)}
      BY <1>2, <2>1, <3>1 DEF HandlePacket, TypeOK
    <3> QED
      BY <3>1, <3>2 DEF RecordedInv, TypeOK, Bit
  <2>2. CASE ~ Records(s)
    BY <1>1, <1>2, <2>2 DEF HandlePacket
  <2> QED
    BY <2>1, <2>2
<1>3. CASE ~ \E s \in wire : HandlePacket(s)
  BY <1>1, <1>3 DEF Next, vars, SendReliable, Increment, Record, Send, SendFails,
                   HandleAck, recvVars
<1> QED
  BY <1>2, <1>3

\* No number is recorded, and so acknowledged as new, a second time, whatever
\* the network repeats and however many numbers are sent: a bit once set stays.
THEOREM RecordedAtMostOnce == Spec => []RecordedOnce
<1>1. Init => TypeOK /\ RecordedInv
  BY TypeInit, RecordedInit
<1>2. TypeOK /\ RecordedInv /\ [Next]_vars => (TypeOK /\ RecordedInv)'
  BY TypeNext, RecordedNext
<1>3. RecordedInv => RecordedOnce
  BY DEF RecordedInv, RecordedOnce
<1> QED
  BY <1>1, <1>2, <1>3, PTL DEF Spec

-----------------------------------------------------------------------------
(* The sender until its numbers wrap *)

NoWrap == sent + 1 < SeqMod

Numbered(t) == pc[t] # "idle"

\* Only numbers handed out are used, and nothing leaves unrecorded.
NumbersInv ==
  /\ sendSeq \in 1 .. sent + 1
  /\ \A t \in Threads : Numbered(t) => seq[t] \in 1..sent
  /\ \A t \in Threads : pc[t] = "send" => seq[t] \in entered
  /\ entered \subseteq 1..sent
  /\ wire \subseteq entered
  /\ delivered \subseteq wire

\* Without a race on the counter the numbers in flight are distinct and new.
OrderInv ==
  ~ raced =>
    /\ \A t, u \in Threads : pc[t] = "increment" /\ pc[u] = "increment" => t = u
    /\ \A t \in Threads : pc[t] = "increment" => seq[t] = sendSeq
    /\ \A t \in Threads : pc[t] = "record" => seq[t] < sendSeq /\ seq[t] \notin entered
    /\ \A t, u \in Threads : pc[t] = "record" /\ pc[u] = "record" /\ seq[t] = seq[u] => t = u
    /\ \A s \in entered : s < sendSeq

SenderInv == NoWrap => NumbersInv /\ OrderInv

LEMMA SenderInit == Init => SenderInv
BY DEF Init, SenderInv, NumbersInv, OrderInv, Numbered

LEMMA SenderNext == TypeOK /\ SenderInv /\ [Next]_vars => SenderInv'
<1> SUFFICES ASSUME TypeOK, SenderInv, [Next]_vars, sent' + 1 < SeqMod
             PROVE  NumbersInv' /\ OrderInv'
  BY DEF SenderInv, NoWrap
<1>m. SeqMod \in Nat
  BY Sizes
<1>0. sent \in Nat /\ sent' \in Nat /\ sent <= sent'
  <2>1. sent' \in {sent, sent + 1}
    BY DEF Next, vars, SendReliable, Increment, Record, Send, SendFails,
           HandlePacket, HandleAck, sendVars
  <2> QED
    BY <2>1 DEF TypeOK
<1>a. NumbersInv /\ OrderInv
  <2>1. \A a, b \in Nat : a <= b /\ b + 1 < SeqMod => a + 1 < SeqMod
    BY <1>m
  <2>2. sent + 1 < SeqMod
    BY <1>0, <2>1
  <2> QED
    BY <2>2 DEF SenderInv, NoWrap
<1>1. ASSUME NEW t \in Threads, SendReliable(t) PROVE NumbersInv' /\ OrderInv'
  <2>1. /\ sent' = sent + 1 /\ pc' = [pc EXCEPT ![t] = "increment"]
        /\ seq' = [seq EXCEPT ![t] = sendSeq] /\ pc[t] = "idle"
        /\ UNCHANGED <<sendSeq, entered, wire, delivered>>
        /\ ~ raced' => ~ raced /\ \A u \in Threads : pc[u] # "increment"
    BY <1>1 DEF SendReliable, Goto, recvVars
  <2>2. NumbersInv'
    BY <1>0, <1>a, <2>1 DEF NumbersInv, Numbered, TypeOK
  <2>3. OrderInv'
    BY <1>0, <1>a, <2>1 DEF OrderInv, NumbersInv, TypeOK
  <2> QED
    BY <2>2, <2>3
<1>2. ASSUME NEW t \in Threads, Increment(t) PROVE NumbersInv' /\ OrderInv'
  <2>1. /\ pc[t] = "increment" /\ pc' = [pc EXCEPT ![t] = "record"]
        /\ sendSeq' = (seq[t] + 1) % SeqMod
        /\ UNCHANGED <<sent, seq, entered, wire, delivered, raced>>
    BY <1>2 DEF Increment, Goto, recvVars
  <2>2. seq[t] \in 1..sent /\ sent + 1 < SeqMod
    BY <1>0, <1>a, <1>m, <2>1 DEF NumbersInv, Numbered
  <2>3. sendSeq' = seq[t] + 1
    BY <1>0, <1>m, <2>1, <2>2
  <2>4. NumbersInv'
    BY <1>0, <1>a, <2>1, <2>2, <2>3 DEF NumbersInv, Numbered, TypeOK
  <2>5. ASSUME ~ raced' PROVE OrderInv'
    <3>1. seq[t] = sendSeq /\ sendSeq' = sendSeq + 1 /\ sendSeq \in Nat
      BY <1>0, <1>a, <2>1, <2>3, <2>5 DEF OrderInv, TypeOK, Seqs
    <3>2. \A u \in Threads : pc'[u] = "record" =>
             u = t \/ (pc[u] = "record" /\ seq[u] < sendSeq /\ seq[u] \notin entered)
      BY <1>a, <2>1, <2>5 DEF OrderInv, TypeOK
    <3>3. \A u \in Threads : pc'[u] # "increment"
      BY <1>a, <2>1, <2>5 DEF OrderInv, TypeOK
    <3>4. \A u \in Threads : seq[u] \in Nat
      BY DEF TypeOK, Seqs
    <3>5. seq[t] \notin entered /\ \A s \in entered : s \in Nat /\ s < sendSeq'
      BY <1>0, <1>a, <2>1, <2>5, <3>1 DEF OrderInv, NumbersInv
    <3>6. \A u \in Threads : pc'[u] = "record" => seq'[u] < sendSeq' /\ seq'[u] \notin entered'
      BY <2>1, <3>1, <3>2, <3>4, <3>5
    <3>7. \A u, v \in Threads :
            pc'[u] = "record" /\ pc'[v] = "record" /\ seq'[u] = seq'[v] => u = v
      BY <1>a, <2>1, <2>5, <3>1, <3>2, <3>4 DEF OrderInv
    <3> QED
      BY <2>1, <3>3, <3>5, <3>6, <3>7 DEF OrderInv
  <2> QED
    BY <2>4, <2>5 DEF OrderInv
<1>3. ASSUME NEW t \in Threads, Record(t) PROVE NumbersInv' /\ OrderInv'
  <2>1. /\ pc[t] = "record" /\ pc' = [pc EXCEPT ![t] = "send"]
        /\ entered' = entered \cup {seq[t]}
        /\ UNCHANGED <<sent, seq, sendSeq, wire, delivered, raced>>
    BY <1>3 DEF Record, Goto, recvVars
  <2>2. NumbersInv'
    BY <1>0, <1>a, <2>1 DEF NumbersInv, Numbered, TypeOK
  <2>3. OrderInv'
    BY <1>0, <1>a, <2>1 DEF OrderInv, NumbersInv, TypeOK
  <2> QED
    BY <2>2, <2>3
<1>4. ASSUME NEW t \in Threads, Send(t) \/ SendFails(t) PROVE NumbersInv' /\ OrderInv'
  <2>1. /\ pc[t] = "send" /\ pc' = [pc EXCEPT ![t] = "idle"]
        /\ wire' \in {wire, wire \cup {seq[t]}}
        /\ UNCHANGED <<sent, seq, sendSeq, entered, delivered, raced>>
    BY <1>4 DEF Send, SendFails, Goto, recvVars
  <2>2. NumbersInv'
    BY <1>0, <1>a, <2>1 DEF NumbersInv, Numbered, TypeOK
  <2>3. OrderInv'
    BY <1>0, <1>a, <2>1 DEF OrderInv, TypeOK
  <2> QED
    BY <2>2, <2>3
<1>5. CASE /\ UNCHANGED <<sendVars, wire>>
           /\ delivered' \subseteq wire
  BY <1>a, <1>5 DEF NumbersInv, OrderInv, Numbered, sendVars
<1>6. ASSUME NEW s \in wire, HandlePacket(s) PROVE NumbersInv' /\ OrderInv'
  BY <1>a, <1>5, <1>6 DEF HandlePacket, NumbersInv
<1>7. ASSUME NEW a \in acks, HandleAck(a) PROVE NumbersInv' /\ OrderInv'
  BY <1>a, <1>7 DEF HandleAck, recvVars, NumbersInv, OrderInv, Numbered
<1>8. CASE UNCHANGED vars
  BY <1>a, <1>5, <1>8 DEF vars, recvVars, NumbersInv
<1> QED
  BY <1>1, <1>2, <1>3, <1>4, <1>6, <1>7, <1>8 DEF Next

\* Two packets get the same number only if two threads were inside `_sendSeq++'
\* at the same time, as long as the numbers do not wrap.
THEOREM DistinctNumbers ==
  ASSUME MaxSends + 1 < SeqMod
  PROVE  Spec => []NumbersDistinct
<1>1. Init => TypeOK /\ SenderInv
  BY TypeInit, SenderInit
<1>2. TypeOK /\ SenderInv /\ [Next]_vars => (TypeOK /\ SenderInv)'
  BY TypeNext, SenderNext
<1>3. TypeOK /\ SenderInv => NumbersDistinct
  <2> SUFFICES ASSUME TypeOK, SenderInv, ~ raced, NEW t \in Threads, NEW u \in Threads, t # u,
                      pc[t] \in {"increment", "record"}, pc[u] \in {"increment", "record"}
               PROVE  seq[t] # seq[u]
    BY DEF NumbersDistinct
  <2>1. sent + 1 < SeqMod
    BY Sizes DEF TypeOK
  <2>2. OrderInv
    BY <2>1 DEF SenderInv, NoWrap
  <2>3. seq[t] \in Nat /\ seq[u] \in Nat /\ sendSeq \in Nat
    BY DEF TypeOK, Seqs
  <2> QED
    BY <2>2, <2>3 DEF OrderInv
<1> QED
  BY <1>1, <1>2, <1>3, PTL DEF Spec

-----------------------------------------------------------------------------
(* The receiver in its first window *)

\* A set bit stands for one number, which has been recorded, and an
\* acknowledgement covers recorded numbers only.
HistoryInv ==
  /\ latestSeq \in 0..WindowSize
  /\ \A b \in receiveHistory : \E s \in 1..WindowSize : records[s] = 1 /\ Bit(s) = b
  /\ \A s \in delivered : records[s] = 1
  /\ \A s \in Seqs : records[s] = 1 => s \in delivered
  /\ missed = {}

AcksInv ==
  /\ \A a \in acks : \A s \in AckedBy(a) \cap 1..WindowSize : records[s] = 1
  /\ \A s \in acked \cap 1..WindowSize : records[s] = 1

PendingInv == ~ raced => pending = entered \ acked

ReceiverInv == FirstWindow => HistoryInv /\ AcksInv /\ PendingInv

Inv == TypeOK /\ RecordedInv /\ SenderInv /\ ReceiverInv

LEMMA ReceiverInit == Init => ReceiverInv
BY Sizes DEF Init, ReceiverInv, HistoryInv, AcksInv, PendingInv

\* In the first window the sender's invariant is in force.
LEMMA FirstNumbers ==
  ASSUME TypeOK, SenderInv, sent \in 0..WindowSize
  PROVE  NumbersInv /\ OrderInv /\ entered \subseteq 1..WindowSize
<1>1. sent + 1 < SeqMod
  BY Sizes
<1>2. NumbersInv /\ OrderInv
  BY <1>1 DEF SenderInv, NoWrap
<1> QED
  BY <1>2, Sizes DEF NumbersInv

\* A packet of the first window that comes for the first time is recorded.
LEMMA NewIsRecorded ==
  ASSUME TypeOK, HistoryInv, NEW s \in 1..WindowSize, records[s] = 0
  PROVE  Records(s)
<1>1. InWindow(s)
  BY FirstInWindow DEF HistoryInv
<1>2. ASSUME Bit(s) \in receiveHistory PROVE FALSE
  <2>1. PICK r \in 1..WindowSize : records[r] = 1 /\ Bit(r) = Bit(s)
    BY <1>2 DEF HistoryInv
  <2>2. r = s
    BY <2>1, BitInjective
  <2> QED
    BY <2>1, <2>2
<1> QED
  BY <1>1, <1>2, Sizes DEF Records

\* What the bitfield of an acknowledgement says is true.
LEMMA AckTruthful ==
  ASSUME NEW s \in 1..WindowSize, NEW history, NEW recorded,
         \A b \in history : \E r \in 1..WindowSize : r \in recorded /\ Bit(r) = b,
         s \in recorded,
         NEW x \in AckedBy([latest |-> s, bits |-> AckBitfield(s, history)]),
         x \in 1..WindowSize
  PROVE  x \in recorded
<1>1. PICK i \in {0} \cup AckBitfield(s, history) : x = Below(s, i)
  BY DEF AckedBy
<1>2. CASE i = 0
  <2>1. Below(s, 0) = s
    BY Sizes DEF Below
  <2> QED
    BY <1>1, <1>2, <2>1
<1>3. CASE i \in AckBitfield(s, history)
  <2>1. Bit(x) \in history
    BY <1>1, <1>3 DEF AckBitfield
  <2>2. PICK r \in 1..WindowSize : r \in recorded /\ Bit(r) = Bit(x)
    BY <2>1
  <2> QED
    BY <2>2, BitInjective
<1> QED
  BY <1>1, <1>2, <1>3

LEMMA ReceiverNext == Inv /\ [Next]_vars => ReceiverInv'
<1> SUFFICES ASSUME Inv, [Next]_vars, FirstWindow'
             PROVE  HistoryInv' /\ AcksInv' /\ PendingInv'
  BY DEF ReceiverInv
<1>0. FirstWindow /\ sent \in 0..WindowSize
  <2>1. sent' \in {sent, sent + 1}
    BY DEF Next, vars, SendReliable, Increment, Record, Send, SendFails,
           HandlePacket, HandleAck, sendVars
  <2>2. \A a \in Nat : a <= WindowSize \/ a + 1 <= WindowSize => a \in 0..WindowSize
    BY Sizes
  <2>3. sent \in Nat
    BY DEF Inv, TypeOK
  <2> QED
    BY <2>1, <2>2, <2>3 DEF FirstWindow
<1>a. HistoryInv /\ AcksInv /\ PendingInv /\ TypeOK /\ RecordedInv
  BY <1>0 DEF Inv, ReceiverInv
<1>b. NumbersInv /\ OrderInv /\ entered \subseteq 1..WindowSize
  BY <1>0, FirstNumbers DEF Inv
<1>1. CASE UNCHANGED <<recvVars, acks, acked>>
           /\ PendingInv'
  BY <1>a, <1>1 DEF recvVars, HistoryInv, AcksInv, AckedBy, Below, Bit
<1>2. ASSUME NEW t \in Threads,
             SendReliable(t) \/ Increment(t) \/ Send(t) \/ SendFails(t)
      PROVE  HistoryInv' /\ AcksInv' /\ PendingInv'
  <2>1. PendingInv'
    BY <1>a, <1>2 DEF PendingInv, SendReliable, Increment, Send, SendFails, TypeOK
  <2> QED
    BY <1>1, <1>2, <2>1 DEF SendReliable, Increment, Send, SendFails
<1>3. ASSUME NEW t \in Threads, Record(t) PROVE HistoryInv' /\ AcksInv' /\ PendingInv'
  <2>1. ASSUME ~ raced PROVE seq[t] \notin acked
    <3>1. seq[t] \notin entered /\ seq[t] \in 1..WindowSize /\ seq[t] \in Seqs
      BY <1>0, <1>3, <1>b, <2>1, Sizes DEF Record, OrderInv, NumbersInv, Numbered
    <3> QED
      BY <1>a, <1>b, <3>1 DEF AcksInv, HistoryInv, NumbersInv
  <2>2. PendingInv'
    BY <1>a, <1>3, <2>1 DEF PendingInv, Record
  <2> QED
    BY <1>1, <1>3, <2>2 DEF Record
<1>4. ASSUME NEW s \in wire, HandlePacket(s) PROVE HistoryInv' /\ AcksInv' /\ PendingInv'
  <2>1. s \in 1..WindowSize /\ s \in Seqs
    BY <1>b, Sizes DEF NumbersInv
  <2>2. PendingInv'
    BY <1>a, <1>4 DEF PendingInv, HandlePacket, sendVars
  <2>3. CASE records[s] = 0
    <3>1. Records(s)
      BY <1>a, <2>1, <2>3, NewIsRecorded
    <3> DEFINE ack == [latest |-> s, bits |-> AckBitfield(s, receiveHistory')]
    <3>2. /\ receiveHistory' = receiveHistory \cup {Bit(s)}
          /\ latestSeq' \in {s, latestSeq}
          /\ records' = [records EXCEPT ![s] = 1]
          /\ acks' = acks \cup {ack}
          /\ delivered' = delivered \cup {s}
          /\ UNCHANGED <<missed, acked>>
      BY <1>4, <1>a, <2>1, <2>3, <3>1 DEF HandlePacket, TypeOK
    <3>3. \A x \in Seqs : records'[x] = IF x = s THEN 1 ELSE records[x]
      BY <1>a, <3>2 DEF TypeOK
    <3>4. \A b \in receiveHistory' : \E r \in 1..WindowSize : records'[r] = 1 /\ Bit(r) = b
      BY <1>a, <2>1, <3>2, <3>3, Sizes DEF HistoryInv
    <3>5. HistoryInv'
      <4>1. latestSeq' \in 0..WindowSize
        BY <1>a, <2>1, <3>2 DEF HistoryInv
      <4>2. \A x \in delivered' : records'[x] = 1
        BY <1>a, <2>1, <3>2, <3>3 DEF HistoryInv, TypeOK
      <4>3. \A x \in Seqs : records'[x] = 1 => x \in delivered'
        BY <1>a, <3>2, <3>3 DEF HistoryInv
      <4> QED
        BY <1>a, <3>2, <3>4, <4>1, <4>2, <4>3 DEF HistoryInv, Bit
    <3>6. ASSUME NEW x \in AckedBy(ack) \cap 1..WindowSize PROVE records'[x] = 1
      <4> DEFINE recorded == {r \in Seqs : records'[r] = 1}
      <4>1. s \in recorded
        BY <2>1, <3>3
      <4>2. \A b \in receiveHistory' : \E r \in 1..WindowSize : r \in recorded /\ Bit(r) = b
        BY <3>4, Sizes
      <4>3. x \in recorded
        BY <2>1, <4>1, <4>2, AckTruthful
      <4> QED
        BY <4>3
    <3>7. \A x \in 1..WindowSize : records[x] = 1 => records'[x] = 1
      BY <3>3, Sizes
    <3>8. AcksInv'
      BY <1>a, <3>2, <3>6, <3>7 DEF AcksInv, AckedBy, Below
    <3> QED
      BY <2>2, <3>5, <3>8
  <2>4. CASE records[s] # 0
    <3>1. records[s] = 1 /\ ~ Records(s)
      BY <1>a, <2>1, <2>4 DEF RecordedInv, Records
    <3>2. UNCHANGED <<receiveHistory, latestSeq, records, acks, missed, acked>>
          /\ delivered' = delivered \cup {s}
      BY <1>4, <2>4, <3>1 DEF HandlePacket
    <3> QED
      BY <1>a, <2>2, <3>1, <3>2 DEF HistoryInv, AcksInv, AckedBy, Below, Bit
  <2> QED
    BY <2>3, <2>4
<1>5. ASSUME NEW a \in acks, HandleAck(a) PROVE HistoryInv' /\ AcksInv' /\ PendingInv'
  <2>1. /\ pending' = pending \ AckedBy(a) /\ acked' = acked \cup AckedBy(a)
        /\ UNCHANGED <<entered, raced, latestSeq, receiveHistory, records, delivered, missed, acks>>
    BY <1>5 DEF HandleAck, recvVars
  <2>2. PendingInv'
    BY <1>a, <2>1 DEF PendingInv
  <2>3. HistoryInv'
    BY <1>a, <2>1 DEF HistoryInv, Bit
  <2>4. AcksInv'
    BY <1>a, <2>1 DEF AcksInv, AckedBy, Below
  <2> QED
    BY <2>2, <2>3, <2>4
<1>6. CASE UNCHANGED vars
  <2>1. PendingInv'
    BY <1>a, <1>6 DEF vars, sendVars, PendingInv
  <2> QED
    BY <1>1, <1>6, <2>1 DEF vars
<1> QED
  BY <1>2, <1>3, <1>4, <1>5, <1>6 DEF Inv, Next

LEMMA Invariance == Spec => []Inv
<1>1. Init => Inv
  BY TypeInit, RecordedInit, SenderInit, ReceiverInit DEF Inv
<1>2. Inv /\ [Next]_vars => Inv'
  BY TypeNext, RecordedNext, SenderNext, ReceiverNext DEF Inv
<1> QED
  BY <1>1, <1>2, PTL DEF Spec

LEMMA InvFirst ==
  ASSUME Inv, FirstWindow
  PROVE  /\ HistoryInv /\ AcksInv /\ PendingInv
         /\ NumbersInv /\ entered \subseteq 1..WindowSize
<1>1. sent \in 0..WindowSize
  BY Sizes DEF Inv, TypeOK, FirstWindow
<1> QED
  BY <1>1, FirstNumbers DEF Inv, ReceiverInv

\* Whatever order the network chooses, the first packet with a number of the
\* first window is recorded when it arrives.
THEOREM FreshIsRecorded == Spec => []FreshRecorded
<1>1. Inv => FreshRecorded
  BY InvFirst DEF FreshRecorded, HistoryInv
<1> QED
  BY <1>1, Invariance, PTL

\* In the first window HandleAck gives up only on numbers the receiver has
\* recorded, for every loss, repetition and order of acknowledgements.
THEOREM AcksAreTrue == Spec => []NoFalseAck
<1>1. Inv => NoFalseAck
  BY InvFirst DEF NoFalseAck, AcksInv
<1> QED
  BY <1>1, Invariance, PTL

\* In the first window, and without a race on the counter, _pendingAckMap holds
\* exactly what was recorded there and has not been acknowledged.
THEOREM PendingIsExact == Spec => []PendingExact
<1>1. Inv => PendingExact
  BY InvFirst DEF PendingExact, PendingInv
<1> QED
  BY <1>1, Invariance, PTL
=============================================================================
