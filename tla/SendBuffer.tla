----------------------------- MODULE SendBuffer -----------------------------
(***************************************************************************)
(* core::network::SendBuffer, SendBufferChunk and SendBufferManager with   *)
(* the code that fills, shares and drops the buffers: MakeSendBufferImpl   *)
(* opens one in the thread's current chunk and closes it when written, the *)
(* sends hand it to a TCP session and to UDP sessions, and the last of a   *)
(* chunk's references to go returns the chunk to the manager's pool, from  *)
(* where it is reset and written again.                                    *)
(*                                                                         *)
(* The kernel reads a buffer at any time between the call of WSASend or    *)
(* WSASendTo and its completion.  A byte of a chunk is the number of the   *)
(* buffer that wrote it last.                                              *)
(*                                                                         *)
(* The number a reliable UDP packet carries is in the shared buffer, is    *)
(* taken from a plain uint16 by any thread, and is the key under which the *)
(* packet stays pending.  The client may acknowledge any number.           *)
(***************************************************************************)
EXTENDS Naturals, Sequences, FiniteSets, Functions

CONSTANTS
  Threads,
  Peers,        \* UDP sessions
  Tcp,          \* the TCP session
  ChunkSize,    \* SEND_BUFFER_CHUNK_SIZE
  Sizes,        \* the sizes of packets that are made
  MaxBuffers,   \* bound: buffers opened
  MaxChunks,    \* bound: chunks allocated
  MaxDatagrams  \* bound: calls of SendReliable

ASSUME SendBufferAssumption ==
  /\ Tcp \notin Peers /\ Threads \cap (Peers \cup {Tcp}) = {}
  /\ {ChunkSize, MaxBuffers, MaxChunks, MaxDatagrams} \subseteq Nat
  /\ Sizes \subseteq Nat \ {0}

Buffers == 1..MaxBuffers
Chunks == 1..MaxChunks
None == 0

VARIABLES
  chunks,      \* each chunk: used (_usedSize), open (_open) and its bytes
  made,        \* chunks allocated so far
  pool,        \* SendBufferManager::_sendBufferChunks
  current,     \* LSendBufferChunk of each thread
  maker,       \* where a thread is between Open and the end of its sends
  opened,      \* buffers opened so far; numbers them
  area,        \* each buffer: its chunk, where it begins, its size
  holders,     \* who has a SendBufferRef of each buffer
  number,      \* UdpPacketHeader::sequence in each buffer
  sendQueue,   \* Tcp's buffers the kernel has not read, in order
  batch,       \* how many at its head RegisterSend moved to _sendEvent
  sent,        \* the rest of _sendEvent: read by the kernel, or never to be
  sendSeq,     \* _sendSeq of each peer
  pending,     \* _pendingAckMap of each peer: its entries
  datagrams,   \* UDP sends the kernel has not read
  got,         \* history: <<peer, number>> of the datagrams that left
  taken,       \* history: <<peer, number>> taken from _sendSeq
  twice,       \* history: those that two threads took
  astray,      \* history: those that left in another packet's place, or were
               \*   acknowledged though none had left
  crash        \* an ASSERT_CRASH, or a null buffer dereferenced

bufferVars == <<chunks, made, pool, current, opened, area, crash>>
numberVars == <<sendSeq, taken, twice>>
udpVars == <<number, numberVars, pending, datagrams, got, astray>>
tcpVars == <<sendQueue, batch, sent>>
sendVars == <<bufferVars, udpVars, tcpVars, maker, holders>>

NoArea == [chunk |-> None, at |-> 0, size |-> 0]
NotMaking == [pc |-> "idle", size |-> 0, chunk |-> None, buffer |-> None,
              targets |-> {}, peer |-> Tcp, seq |-> 0]

SendInit ==
  /\ chunks = [c \in Chunks |-> [used |-> 0, open |-> FALSE,
                                 bytes |-> [i \in 1..ChunkSize |-> None]]]
  /\ made = 0 /\ pool = <<>>
  /\ current = [t \in Threads |-> None]
  /\ maker = [t \in Threads |-> NotMaking]
  /\ opened = 0
  /\ area = [b \in Buffers |-> NoArea]
  /\ holders = [b \in Buffers |-> {}]
  /\ number = [b \in Buffers |-> 0]
  /\ sendQueue = <<>> /\ batch = 0 /\ sent = <<>>
  /\ sendSeq = [p \in Peers |-> 1]
  /\ pending = {} /\ datagrams = {}
  /\ got = {} /\ taken = {} /\ twice = {} /\ astray = {}
  /\ crash = FALSE

At(t, place) == maker[t].pc = place /\ ~ crash
Goto(t, place) == maker' = [maker EXCEPT ![t].pc = place]

ChunkFree(c) == ChunkSize - chunks[c].used

\* Buffers whose SendBuffer keeps chunk c alive.
LiveIn(c) == {b \in Buffers : holders[b] # {} /\ area[b].chunk = c}

-----------------------------------------------------------------------------
(* SendBufferManager::Open *)

\* MakeSendBufferTcp or MakeSendBufferUdp: whom a buffer may be sent to.
Targets == {{Tcp}, Peers}

\* The chunk's Open with its assertions: buffer b of the given size begins at
\* the first free byte.  No room means a null buffer, which MakeSendBufferImpl
\* dereferences.
OpenIn(t, c, table, size) ==
  /\ opened < MaxBuffers
  /\ opened' = opened + 1
  /\ IF size > ChunkSize \/ table[c].open \/ table[c].used + size > ChunkSize
     THEN /\ crash' = TRUE
          /\ chunks' = table
          /\ maker' = [maker EXCEPT ![t].pc = "write", ![t].size = size]
          /\ UNCHANGED <<area, holders>>
     ELSE /\ chunks' = [table EXCEPT ![c].open = TRUE]
          /\ area' = [area EXCEPT ![opened'] = [chunk |-> c, at |-> table[c].used, size |-> size]]
          /\ holders' = [holders EXCEPT ![opened'] = {t}]
          /\ \E targets \in Targets : maker' = [maker EXCEPT ![t] =
               [NotMaking EXCEPT !.pc = "write", !.size = size, !.buffer = opened',
                                 !.targets = targets]]
          /\ UNCHANGED crash

HasRoom(t, size) == current[t] # None /\ ChunkFree(current[t]) >= size

\* The thread's current chunk has room.
Open(t, size) ==
  /\ At(t, "idle")
  /\ HasRoom(t, size)
  /\ OpenIn(t, current[t], chunks, size)
  /\ UNCHANGED <<made, pool, current, udpVars, tcpVars>>

\* It has none, or there is no chunk: Pop takes the last one of the pool,
\* under the lock, or makes a new one.
PopChunk(t, size) ==
  /\ At(t, "idle")
  /\ opened < MaxBuffers /\ (pool = <<>> => made < MaxChunks)
  /\ ~ HasRoom(t, size)
  /\ IF pool = <<>> THEN made' = made + 1 /\ UNCHANGED pool
     ELSE pool' = SubSeq(pool, 1, Len(pool) - 1) /\ UNCHANGED made
  /\ maker' = [maker EXCEPT ![t] =
       [NotMaking EXCEPT !.pc = "swap", !.size = size,
                         !.chunk = IF pool = <<>> THEN made' ELSE pool[Len(pool)]]]
  /\ UNCHANGED <<chunks, current, opened, area, crash, udpVars, tcpVars, holders>>

\* SendBufferChunk::Reset
Reset(c) == [chunks EXCEPT ![c].open = FALSE, ![c].used = 0]

\* Fault: the old chunk goes to the pool whether a buffer holds it or not.
SwapChunkReturns(t) ==
  LET old == current[t]
      new == maker[t].chunk
  IN  /\ At(t, "swap")
      /\ current' = [current EXCEPT ![t] = new]
      /\ pool' = IF old # None THEN Append(pool, old) ELSE pool
      /\ OpenIn(t, new, Reset(new), maker[t].size)
      /\ UNCHANGED <<made, udpVars, tcpVars>>

\* LSendBufferChunk = Pop(); Reset(); Open.  The assignment gives up the old
\* chunk, which goes to the pool if no buffer holds it.
SwapChunk(t) ==
  LET old == current[t]
      new == maker[t].chunk
  IN  /\ At(t, "swap")
      /\ current' = [current EXCEPT ![t] = new]
      /\ pool' = IF old # None /\ LiveIn(old) = {} THEN Append(pool, old) ELSE pool
      /\ OpenIn(t, new, Reset(new), maker[t].size)
      /\ UNCHANGED <<made, udpVars, tcpVars>>

Cells(b) == area[b].at + 1 .. area[b].at + area[b].size

\* Fault: the bytes written are not counted.
WriteUncounted(t) ==
  LET b == maker[t].buffer
      c == area[b].chunk
  IN  /\ At(t, "write")
      /\ crash' = ~ chunks[c].open
      /\ chunks' = [chunks EXCEPT ![c] =
           [open |-> FALSE, used |-> @.used,
            bytes |-> [i \in 1..ChunkSize |-> IF i \in Cells(b) THEN b ELSE @.bytes[i]]]]
      /\ Goto(t, "send")
      /\ UNCHANGED <<made, pool, current, opened, area, udpVars, tcpVars, holders>>

\* The header and the message are written, then SendBuffer::Close goes through
\* to the chunk and its assertion.
Write(t) ==
  LET b == maker[t].buffer
      c == area[b].chunk
  IN  /\ At(t, "write")
      /\ crash' = ~ chunks[c].open
      /\ chunks' = [chunks EXCEPT ![c] =
           [open |-> FALSE, used |-> @.used + area[b].size,
            bytes |-> [i \in 1..ChunkSize |-> IF i \in Cells(b) THEN b ELSE @.bytes[i]]]]
      /\ Goto(t, "send")
      /\ UNCHANGED <<made, pool, current, opened, area, udpVars, tcpVars, holders>>

-----------------------------------------------------------------------------
(* The references of a buffer *)

\* Holder h gives its reference to b up.  The last one takes the SendBuffer
\* with it, and the last reference of the chunk pushes the chunk to the pool.
Release(b, h) ==
  LET c == area[b].chunk
      last == /\ holders[b] = {h} /\ LiveIn(c) = {b}
              /\ \A t \in Threads : current[t] # c
  IN  /\ holders' = [holders EXCEPT ![b] = @ \ {h}]
      /\ pool' = IF last THEN Append(pool, c) ELSE pool
      /\ IF holders[b] = {h}
         THEN area' = [area EXCEPT ![b] = NoArea] /\ number' = [number EXCEPT ![b] = 0]
         ELSE UNCHANGED <<area, number>>
      /\ UNCHANGED <<chunks, made, current, opened, crash>>

\* TcpSession::Send: the queue keeps the reference.
SendTcp(t) ==
  LET b == maker[t].buffer
  IN  /\ At(t, "send")
      /\ Tcp \in maker[t].targets
      /\ maker' = [maker EXCEPT ![t].targets = @ \ {Tcp}]
      /\ holders' = [holders EXCEPT ![b] = @ \cup {Tcp}]
      /\ sendQueue' = Append(sendQueue, b)
      /\ UNCHANGED <<bufferVars, udpVars, batch, sent>>

\* RegisterSend moves the whole queue to _sendEvent and calls WSASend.
RegisterSend ==
  /\ ~ crash
  /\ batch = 0 /\ sent = <<>> /\ sendQueue # <<>>
  /\ batch' = Len(sendQueue)
  /\ UNCHANGED <<bufferVars, udpVars, maker, holders, sendQueue, sent>>

\* The kernel reads the next buffer of the WSASend.
TcpRead ==
  /\ ~ crash
  /\ batch > 0
  /\ batch' = batch - 1
  /\ sent' = Append(sent, Head(sendQueue))
  /\ sendQueue' = Tail(sendQueue)
  /\ UNCHANGED <<bufferVars, udpVars, maker, holders>>

\* WSASend fails, with an error that HandleError only logs: the kernel reads
\* none of the batch, and the session goes on with what Send queues next.
SendFails ==
  /\ ~ crash
  /\ batch > 0 /\ sent = <<>>
  /\ batch' = 0
  /\ sent' = SubSeq(sendQueue, 1, batch)
  /\ sendQueue' = SubSeq(sendQueue, batch + 1, Len(sendQueue))
  /\ UNCHANGED <<bufferVars, udpVars, maker, holders>>

\* _sendEvent.sendBuffers.clear(), one buffer after the other, in ProcessSend or
\* where WSASend failed.
TcpDrop ==
  /\ ~ crash
  /\ batch = 0 /\ sent # <<>>
  /\ Release(Head(sent), Tcp)
  /\ sent' = Tail(sent)
  /\ UNCHANGED <<numberVars, pending, datagrams, got, astray, maker, sendQueue, batch>>

-----------------------------------------------------------------------------
(* UdpSession *)

MayNumber == FoldFunction(+, 0, sendSeq) < MaxDatagrams + Cardinality(Peers)

\* SendReliable: _sendSeq++ reads the counter,
TakeNumber(t, p) ==
  /\ At(t, "send")
  /\ p \in maker[t].targets
  /\ MayNumber
  /\ maker' = [maker EXCEPT ![t].pc = "increment", ![t].seq = sendSeq[p],
                           ![t].targets = @ \ {p}, ![t].peer = p]
  /\ taken' = taken \cup {<<p, sendSeq[p]>>}
  /\ twice' = twice \cup (taken \cap {<<p, sendSeq[p]>>})
  /\ UNCHANGED <<bufferVars, tcpVars, holders, number, sendSeq, pending, datagrams, got, astray>>

\* and stores the next number: nothing keeps another thread from doing the same.
Increment(t) ==
  /\ At(t, "increment")
  /\ sendSeq' = [sendSeq EXCEPT ![maker[t].peer] = maker[t].seq + 1]
  /\ Goto(t, "stamp")
  /\ UNCHANGED <<bufferVars, tcpVars, holders, number, taken, twice, pending, datagrams,
                 got, astray>>

\* Fault: the packet is on its way before its header has a number.
StampNothing(t) ==
  /\ At(t, "stamp")
  /\ Goto(t, "insert")
  /\ UNCHANGED <<bufferVars, tcpVars, holders, udpVars>>

\* header->sequence = seq: in the buffer, which other sessions may be sending.
Stamp(t) ==
  LET b == maker[t].buffer
  IN  /\ At(t, "stamp")
      /\ number' = [number EXCEPT ![b] = maker[t].seq]
      /\ datagrams' = {IF d.buffer = b THEN [d EXCEPT !.restamped = TRUE] ELSE d :
                         d \in datagrams}
      /\ Goto(t, "insert")
      /\ UNCHANGED <<bufferVars, tcpVars, holders, numberVars, pending, got, astray>>

Entry(t) == [peer |-> maker[t].peer, seq |-> maker[t].seq, buffer |-> maker[t].buffer]
Under(p, n) == {e \in pending : e.peer = p /\ e.seq = n}

\* _pendingAckMap[seq] = pkt, under the lock: the entry an equal number has
\* there already is overwritten,
Overwrite(t) ==
  /\ At(t, "insert")
  /\ \E e \in Under(maker[t].peer, maker[t].seq) :
       /\ Release(e.buffer, e.peer)
       /\ pending' = pending \ {e}
  /\ UNCHANGED <<numberVars, datagrams, got, astray, maker, tcpVars>>

\* and the entry keeps a reference.
Insert(t) ==
  LET b == maker[t].buffer
  IN  /\ At(t, "insert")
      /\ Under(maker[t].peer, maker[t].seq) = {}
      /\ pending' = pending \cup {Entry(t)}
      /\ holders' = [holders EXCEPT ![b] = @ \cup {maker[t].peer}]
      /\ Goto(t, "send udp")
      /\ UNCHANGED <<bufferVars, tcpVars, number, numberVars, datagrams, got, astray>>

\* RegisterSend: WSASendTo of the numbered packet, for which no reference is
\* kept; or no call when the session is not connected, or one that fails.
SendUdp(t) ==
  /\ At(t, "send udp")
  /\ datagrams' \in {datagrams, datagrams \cup
       {[peer |-> maker[t].peer, buffer |-> maker[t].buffer, seq |-> maker[t].seq,
         restamped |-> FALSE]}}
  /\ Goto(t, "send")
  /\ UNCHANGED <<bufferVars, tcpVars, number, numberVars, pending, got, astray, holders>>

\* What the header of a buffer says: anything once nobody holds the buffer and
\* its bytes may have been given out again.
Reads(b) == IF holders[b] = {} THEN 0..MaxDatagrams ELSE {number[b]}

\* The kernel reads a datagram, with the number its header has by now.
UdpRead(d) ==
  /\ ~ crash
  /\ d \in datagrams
  /\ datagrams' = datagrams \ {d}
  /\ \E n \in Reads(d.buffer) :
       /\ got' = got \cup {<<d.peer, n>>}
       /\ astray' = IF n = d.seq THEN astray ELSE astray \cup {<<d.peer, n>>}
  /\ UNCHANGED <<bufferVars, tcpVars, maker, holders, number, numberVars, pending>>

\* HandleAck of a number, latestSeq or one of the bitfield's, that has an entry.
HandleAck(e) ==
  /\ ~ crash
  /\ e \in pending
  /\ Release(e.buffer, e.peer)
  /\ pending' = pending \ {e}
  /\ astray' = IF <<e.peer, e.seq>> \in got THEN astray
               ELSE astray \cup {<<e.peer, e.seq>>}
  /\ UNCHANGED <<maker, tcpVars, numberVars, datagrams, got>>

\* The maker's own SendBufferRef goes out of scope.
Forget(t) ==
  /\ At(t, "send")
  /\ Release(maker[t].buffer, t)
  /\ maker' = [maker EXCEPT ![t] = NotMaking]
  /\ UNCHANGED <<numberVars, pending, datagrams, got, astray, tcpVars>>

MakerStep(t) ==
  \/ \E size \in Sizes : Open(t, size) \/ PopChunk(t, size)
  \/ SwapChunk(t) \/ Write(t)
  \/ SendTcp(t) \/ \E p \in Peers : TakeNumber(t, p)
  \/ Increment(t) \/ Stamp(t) \/ Overwrite(t) \/ Insert(t)
  \/ SendUdp(t) \/ Forget(t)

KernelStep ==
  \/ RegisterSend \/ SendFails \/ TcpDrop
  \/ \E d \in datagrams : UdpRead(d)
  \/ \E e \in pending : HandleAck(e)

SendNext == (\E t \in Threads : MakerStep(t)) \/ TcpRead \/ KernelStep

SendSpec == SendInit /\ [][SendNext]_sendVars

-----------------------------------------------------------------------------
(* Correctness *)

Closed(b) ==
  /\ area[b].chunk # None
  /\ ~ \E t \in Threads : maker[t].buffer = b /\ maker[t].pc = "write"

\* As long as anybody holds a finished buffer its bytes stay as they were
\* written: no other buffer of its chunk overlaps it, and the chunk is not
\* given out again.
BuffersIntact ==
  \A b \in Buffers :
    Closed(b) /\ holders[b] # {} =>
      \A i \in Cells(b) : chunks[area[b].chunk].bytes[i] = b

InPool(c) == {i \in DOMAIN pool : pool[i] = c}
InUse(c) ==
  \/ \E t \in Threads : current[t] = c \/ maker[t].chunk = c
  \/ LiveIn(c) # {}

\* Every chunk ever made is used by a thread or a buffer, or it is in the
\* pool, once: none is lost and none is given to two threads.
ChunksAccounted ==
  \A c \in 1..made :
    /\ InUse(c) <=> InPool(c) = {}
    /\ \A i, j \in InPool(c) : i = j
    /\ \A t, u \in Threads : current[t] = c /\ current[u] = c => t = u

\* No assertion of the chunks fails and no buffer is null, unless a packet
\* longer than a chunk is made.
CrashExplained ==
  crash => \E t \in Threads : maker[t].size > ChunkSize

\* A packet on its way over UDP is still pending under its number, and says so
\* in its header unless the buffer was numbered for another session meanwhile;
\* so it stays until the client has it.  Excepted are numbers that two threads
\* took, that another packet's datagram carried, or that the client acknowledged
\* without having got them.
NumberExplained ==
  \A d \in datagrams :
    \/ <<d.peer, d.seq>> \in twice \cup astray
    \/ /\ [peer |-> d.peer, seq |-> d.seq, buffer |-> d.buffer] \in pending
       /\ number[d.buffer] = d.seq \/ d.restamped
=============================================================================
