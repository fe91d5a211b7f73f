--------------------------- MODULE PacketPipeProofs ---------------------------
(***************************************************************************)
(* Proofs about PacketPipe and its two halves, for every number of         *)
(* threads, peers, buffers and chunks, every size of buffers and packets.  *)
(*                                                                         *)
(* SendBuffer: the bytes of a buffer stay as long as anybody holds it, no  *)
(* chunk is lost or given out twice, no assertion of a chunk fails but for *)
(* a packet longer than a chunk, and a packet on its way over UDP stays    *)
(* pending under the number it has, but for what the property excepts.     *)
(*                                                                         *)
(* RecvBuffer: the parser hands out the packets of the stream whole and in *)
(* order, and receives that leave space for a packet and BufferSize bytes  *)
(* never close the session for want of room.                               *)
(*                                                                         *)
(* PacketPipe: its steps are steps of the halves, and what Send is given   *)
(* is what OnRecv gets.                                                    *)
(***************************************************************************)
EXTENDS PacketPipe, TLAPS

-----------------------------------------------------------------------------
(* The sending half: SendBuffer *)

\* The steps of a thread that makes a packet.
Places == {"idle", "swap", "write", "send", "increment", "stamp", "insert", "send udp"}

Holder == Threads \cup Peers \cup {Tcp}

TypeOK ==
  /\ chunks \in [Chunks -> [used : Nat, open : BOOLEAN, bytes : [1..ChunkSize -> Nat]]]
  /\ made \in 0..MaxChunks /\ pool \in Seq(Chunks)
  /\ current \in [Threads -> Chunks \cup {None}]
  /\ maker \in [Threads ->
       [pc : Places, size : Nat, chunk : Chunks \cup {None}, buffer : Buffers \cup {None},
        targets : SUBSET (Peers \cup {Tcp}), peer : Peers \cup {Tcp}, seq : Nat]]
  /\ opened \in 0..MaxBuffers
  /\ area \in [Buffers -> [chunk : Chunks \cup {None}, at : Nat, size : Nat]]
  /\ holders \in [Buffers -> SUBSET Holder]
  /\ number \in [Buffers -> Nat]
  /\ sendQueue \in Seq(Buffers) /\ sent \in Seq(Buffers)
  /\ batch \in 0..Len(sendQueue)
  /\ sendSeq \in [Peers -> Nat]
  /\ pending \subseteq [peer : Peers, seq : Nat, buffer : Buffers]
  /\ datagrams \subseteq [peer : Peers, buffer : Buffers, seq : Nat, restamped : BOOLEAN]
  /\ got \cup taken \cup twice \cup astray \subseteq Peers \X Nat
  /\ crash \in BOOLEAN

\* What a thread has in its hands at each of its steps.
InvMaker ==
  /\ \A t \in Threads :
       /\ maker[t].pc \in {"idle", "swap"} => maker[t].buffer = None
       /\ maker[t].pc \notin {"idle", "swap"} /\ ~ crash => maker[t].buffer # None
       /\ maker[t].pc = "swap" => maker[t].chunk # None
       /\ maker[t].pc # "swap" => maker[t].chunk \in {None, current[t]}
  /\ crash => \E t \in Threads : maker[t].size > ChunkSize

\* A buffer is somewhere as long as somebody holds it.  A thread holds the
\* buffer it makes, and no other.
InvHolders ==
  /\ \A b \in Buffers :
       /\ holders[b] = {} <=> area[b].chunk = None
       /\ b > opened => holders[b] = {}
       /\ \A t \in Threads : t \in holders[b] <=> maker[t].buffer = b
  /\ \A t, u \in Threads : maker[t].buffer = maker[u].buffer /\ maker[t].buffer # None => t = u

\* A chunk is the current one of at most one thread; one out of the pool is
\* nobody else's; one in the pool is nobody's and there once; and each that
\* was made is somewhere.
InvCurrent ==
  /\ \A t \in Threads : current[t] \in 0..made
  /\ \A t, u \in Threads : current[t] = current[u] /\ current[t] # None => t = u

Popped(t, c) == maker[t].pc = "swap" /\ maker[t].chunk = c

InvPopped ==
  \A t \in Threads, c \in Chunks : Popped(t, c) =>
    /\ c <= made
    /\ \A u \in Threads : current[u] # c /\ (Popped(u, c) => u = t)
    /\ \A b \in Buffers : area[b].chunk # c

InvPool ==
  \A i \in DOMAIN pool :
    /\ pool[i] <= made
    /\ \A t \in Threads : current[t] # pool[i] /\ ~ Popped(t, pool[i])
    /\ \A b \in Buffers : area[b].chunk # pool[i]
    /\ \A j \in DOMAIN pool : pool[i] = pool[j] => i = j

InvKept ==
  \A c \in 1..made :
    \/ \E t \in Threads : current[t] = c \/ Popped(t, c)
    \/ \E b \in Buffers : area[b].chunk = c
    \/ \E i \in DOMAIN pool : pool[i] = c

Writing(b) == \E t \in Threads : maker[t].pc = "write" /\ maker[t].buffer = b

End(b) == area[b].at + area[b].size

\* Where the buffers of a chunk lie: one behind the other, below the used part
\* but for the one that is being written, which begins there.
InvArea ==
  /\ \A b \in Buffers : area[b].chunk <= made
  /\ \A b \in Buffers : area[b].chunk # None /\ ~ Writing(b) =>
       End(b) <= chunks[area[b].chunk].used
  /\ \A b, d \in Buffers : b # d /\ area[b].chunk = area[d].chunk /\ area[b].chunk # None =>
       End(b) <= area[d].at \/ End(d) <= area[b].at

InvChunk ==
  /\ \A c \in Chunks : chunks[c].used <= ChunkSize
  /\ \A t \in Threads : maker[t].pc # "write" /\ current[t] # None => ~ chunks[current[t]].open
  /\ \A t \in Threads : \A b \in Buffers :
       maker[t].pc = "write" /\ maker[t].buffer = b =>
         /\ area[b].chunk = current[t] /\ chunks[current[t]].open
         /\ area[b].at = chunks[current[t]].used /\ End(b) <= ChunkSize

InvBytes ==
  \A b \in Buffers : area[b].chunk # None /\ ~ Writing(b) =>
    \A i \in Cells(b) : chunks[area[b].chunk].bytes[i] = b

ChunkInv ==
  /\ TypeOK /\ InvMaker /\ InvHolders
  /\ InvCurrent /\ InvPopped /\ InvPool /\ InvKept
  /\ InvArea /\ InvChunk /\ InvBytes

\* A thread has a number for a packet, and has not called RegisterSend yet.
Numbered(t) == maker[t].pc \in {"increment", "stamp", "insert", "send udp"}

\* Buffer b is on its way to peer p as number n: with a thread, or as a datagram.
InFlight(p, b, n) ==
  \/ \E t \in Threads :
       Numbered(t) /\ maker[t].peer = p /\ maker[t].buffer = b /\ maker[t].seq = n
  \/ \E d \in datagrams : d.peer = p /\ d.buffer = b /\ d.seq = n

\* Thread t has still to send its buffer to p, or to put it down as pending.
Unsent(t, p) == p \in maker[t].targets \/ (Numbered(t) /\ maker[t].peer = p)
Unlisted(t, p) ==
  p \in maker[t].targets \/ (Numbered(t) /\ maker[t].pc # "send udp" /\ maker[t].peer = p)

\* An entry keeps its buffer, for a peer that has one entry of it at most.
InvPending ==
  \A e \in pending :
    /\ e.peer \in holders[e.buffer]
    /\ \A f \in pending : f.peer = e.peer /\ f.buffer = e.buffer => f = e

\* A buffer is put down and sent once for each peer.
InvOnce ==
  /\ \A d \in datagrams :
       /\ d.buffer <= opened
       /\ \A e \in datagrams : e.peer = d.peer /\ e.buffer = d.buffer => e = d
  /\ \A t \in Threads, p \in Peers :
       /\ Unsent(t, p) => \A d \in datagrams : d.peer # p \/ d.buffer # maker[t].buffer
       /\ Unlisted(t, p) => \A e \in pending : e.peer # p \/ e.buffer # maker[t].buffer
  /\ \A t \in Threads : Numbered(t) => /\ maker[t].peer \in Peers
                                       /\ maker[t].peer \notin maker[t].targets

\* What is known of a number: it was taken, two buffers have it only if it was
\* taken twice, and nobody has got it before.
InvNumbers ==
  /\ \A p, b, n : InFlight(p, b, n) =>
       /\ <<p, n>> \in taken
       /\ <<p, n>> \in got => <<p, n>> \in twice \cup astray
       /\ \A c : InFlight(p, c, n) => c = b \/ <<p, n>> \in twice
  /\ got \subseteq taken \cup astray

\* What a thread has done of SendReliable.
InvPosted ==
  \A t \in Threads :
    /\ maker[t].pc \in {"insert", "send udp"} => number[maker[t].buffer] = maker[t].seq
    /\ maker[t].pc = "send udp" =>
         Entry(t) \in pending \/ <<maker[t].peer, maker[t].seq>> \in twice \cup astray

UdpInv == InvPending /\ InvOnce /\ InvNumbers /\ InvPosted /\ NumberExplained

IInv == ChunkInv /\ UdpInv

-----------------------------------------------------------------------------

\* The assumption, one fact at a time.
LEMMA Constants ==
  /\ ChunkSize \in Nat /\ MaxBuffers \in Nat /\ MaxChunks \in Nat /\ MaxDatagrams \in Nat
  /\ Tcp \notin Peers /\ Tcp \notin Threads
  /\ \A t \in Threads : t \notin Peers
  /\ \A size \in Sizes : size \in Nat /\ size > 0
BY SendBufferAssumption DEF SendBufferAssumption

\* What appending to a sequence adds, and what taking its last element leaves.
LEMMA AppendFacts ==
  ASSUME NEW S, NEW q \in Seq(S), NEW x \in S
  PROVE  /\ Append(q, x) \in Seq(S)
         /\ DOMAIN q = 1..Len(q) /\ Len(q) \in Nat
         /\ DOMAIN Append(q, x) = 1..(Len(q) + 1)
         /\ \A i \in DOMAIN q : Append(q, x)[i] = q[i]
         /\ Append(q, x)[Len(q) + 1] = x
OBVIOUS

LEMMA FrontFacts ==
  ASSUME NEW S, NEW q \in Seq(S), q # <<>>
  PROVE  LET front == SubSeq(q, 1, Len(q) - 1)
         IN  /\ front \in Seq(S) /\ q[Len(q)] \in S
             /\ DOMAIN q = 1..Len(q) /\ Len(q) \in Nat /\ Len(q) > 0
             /\ DOMAIN front = 1..(Len(q) - 1)
             /\ \A i \in DOMAIN front : front[i] = q[i]
OBVIOUS

LEMMA EmptyFacts == ASSUME NEW S PROVE <<>> \in Seq(S)
OBVIOUS

LEMMA TailFacts ==
  ASSUME NEW S, NEW q \in Seq(S), q # <<>> PROVE Head(q) \in S /\ Tail(q) \in Seq(S)
OBVIOUS

\* The types of what the chunks are about, one fact at a time.
LEMMA Typed ==
  ASSUME TypeOK
  PROVE  /\ pool \in Seq(Chunks) /\ DOMAIN pool = 1..Len(pool) /\ Len(pool) \in Nat
         /\ \A i \in DOMAIN pool : pool[i] \in Chunks
         /\ made \in Nat /\ made <= MaxChunks /\ opened \in Nat /\ opened <= MaxBuffers
         /\ \A c \in Nat : c \in 1..made => c \in Chunks
         /\ \A c \in Chunks : c \in Nat /\ c # None
         /\ \A b \in Buffers : b \in Nat /\ b # None
         /\ \A t \in Threads : current[t] \in Nat /\ (current[t] # None => current[t] \in Chunks)
         /\ \A t \in Threads : /\ maker[t].chunk \in Nat
                               /\ maker[t].chunk # None => maker[t].chunk \in Chunks
                               /\ maker[t].buffer \in Nat
                               /\ maker[t].buffer # None => maker[t].buffer \in Buffers
                               /\ maker[t].size \in Nat
         /\ \A b \in Buffers : /\ area[b].chunk \in Nat
                               /\ area[b].chunk # None => area[b].chunk \in Chunks
                               /\ area[b].at \in Nat /\ area[b].size \in Nat
                               /\ End(b) \in Nat /\ End(b) >= area[b].at
                               /\ End(b) = area[b].at + area[b].size
         /\ \A c \in Chunks : chunks[c].used \in Nat
<1> USE DEF None
<1>1. pool \in Seq(Chunks) /\ made \in 0..MaxChunks /\ opened \in 0..MaxBuffers
  BY DEF TypeOK
<1>2. DOMAIN pool = 1..Len(pool) /\ Len(pool) \in Nat /\ \A i \in DOMAIN pool : pool[i] \in Chunks
  BY <1>1
<1>3. /\ made \in Nat /\ made <= MaxChunks /\ opened \in Nat /\ opened <= MaxBuffers
      /\ \A c \in Nat : c \in 1..made => c \in Chunks
  BY <1>1, Constants DEF Chunks
<1>4. \A c \in Chunks : c \in Nat /\ c # None
  BY DEF Chunks
<1>5. \A b \in Buffers : b \in Nat /\ b # None
  BY DEF Buffers
<1>6. \A t \in Threads : current[t] \in Chunks \cup {None}
  BY DEF TypeOK
<1>7. \A t \in Threads : /\ maker[t].chunk \in Chunks \cup {None}
                         /\ maker[t].buffer \in Buffers \cup {None} /\ maker[t].size \in Nat
  BY DEF TypeOK
<1>8. \A b \in Buffers : /\ area[b].chunk \in Chunks \cup {None}
                         /\ area[b].at \in Nat /\ area[b].size \in Nat
  BY DEF TypeOK
<1>9. \A b \in Buffers : End(b) \in Nat /\ End(b) >= area[b].at /\ End(b) = area[b].at + area[b].size
  BY <1>8 DEF End
<1>10. \A c \in Chunks : chunks[c].used \in Nat
  BY DEF TypeOK
<1> HIDE DEF None
<1> QED BY <1>1, <1>2, <1>3, <1>4, <1>5, <1>6, <1>7, <1>8, <1>9, <1>10 DEF None

\* Initially there is neither a chunk nor a buffer.
LEMMA InitIInv == SendInit => IInv
<1> SUFFICES ASSUME SendInit PROVE IInv
  OBVIOUS
<1> USE DEF None
<1>1. TypeOK
  <2>1. pool \in Seq(Chunks) /\ sendQueue \in Seq(Buffers) /\ sent \in Seq(Buffers)
    BY EmptyFacts DEF SendInit
  <2>2. maker \in [Threads ->
       [pc : Places, size : Nat, chunk : Chunks \cup {None}, buffer : Buffers \cup {None},
        targets : SUBSET (Peers \cup {Tcp}), peer : Peers \cup {Tcp}, seq : Nat]]
    BY DEF SendInit, NotMaking, Places
  <2>3. chunks \in [Chunks -> [used : Nat, open : BOOLEAN, bytes : [1..ChunkSize -> Nat]]]
    BY DEF SendInit
  <2>4. area \in [Buffers -> [chunk : Chunks \cup {None}, at : Nat, size : Nat]]
    BY DEF SendInit, NoArea
  <2>5. /\ current \in [Threads -> Chunks \cup {None}] /\ holders \in [Buffers -> SUBSET Holder]
        /\ number \in [Buffers -> Nat] /\ sendSeq \in [Peers -> Nat] /\ crash \in BOOLEAN
    BY DEF SendInit
  <2>6. made \in 0..MaxChunks /\ opened \in 0..MaxBuffers
    BY Constants DEF SendInit
  <2>7. /\ datagrams \subseteq [peer : Peers, buffer : Buffers, seq : Nat, restamped : BOOLEAN]
        /\ pending \subseteq [peer : Peers, seq : Nat, buffer : Buffers]
        /\ got \cup taken \cup twice \cup astray \subseteq Peers \X Nat
    BY DEF SendInit
  <2>8. batch \in 0..Len(sendQueue)
    BY DEF SendInit
  <2> QED BY <2>1, <2>2, <2>3, <2>4, <2>5, <2>6, <2>7, <2>8 DEF TypeOK
<1>2. \A b \in Buffers : b # None
  BY DEF Buffers
<1>3. InvMaker /\ InvHolders
  BY <1>2 DEF SendInit, InvMaker, InvHolders, NotMaking, NoArea
<1>4. InvCurrent /\ InvPopped /\ InvKept
  BY DEF SendInit, InvCurrent, InvPopped, InvKept, Popped, NotMaking
<1>5. InvPool
  BY DEF SendInit, InvPool
<1>6. InvArea /\ InvBytes
  BY DEF SendInit, InvArea, InvBytes, NoArea
<1>7. InvChunk
  BY <1>2, Constants DEF SendInit, InvChunk, NotMaking
<1>8. UdpInv
  <2>1. \A t \in Threads : ~ Numbered(t) /\ maker[t].targets = {} /\ maker[t].pc = "idle"
    BY DEF SendInit, Numbered, NotMaking
  <2>2. \A p, b, n : ~ InFlight(p, b, n)
    BY <2>1 DEF InFlight, SendInit
  <2>3. InvPending /\ InvNumbers /\ InvPosted /\ NumberExplained
    BY <2>1, <2>2 DEF SendInit, InvPending, InvNumbers, InvPosted, NumberExplained
  <2>4. InvOnce
    BY <2>1 DEF SendInit, InvOnce, Unsent, Unlisted
  <2> QED BY <2>3, <2>4 DEF UdpInv
<1> QED BY <1>1, <1>3, <1>4, <1>5, <1>6, <1>7, <1>8 DEF IInv, ChunkInv

\* A step that only sends on a finished buffer, or lends it to somebody else,
\* does not touch what the chunks are about.
Quiet ==
  /\ UNCHANGED bufferVars
  /\ \A t \in Threads :
       /\ maker'[t].chunk = maker[t].chunk /\ maker'[t].buffer = maker[t].buffer
       /\ maker'[t].size = maker[t].size
       /\ \/ maker'[t].pc = maker[t].pc
          \/ /\ maker[t].pc \notin {"idle", "swap", "write"}
             /\ maker'[t].pc \notin {"idle", "swap", "write"}
  /\ \A b \in Buffers :
       \/ holders'[b] = holders[b]
       \/ holders[b] # {} /\ \E h \in Peers \cup {Tcp} : holders'[b] = holders[b] \cup {h}

LEMMA QuietStep == ASSUME ChunkInv, TypeOK', Quiet PROVE ChunkInv'
<1>0. /\ chunks' = chunks /\ made' = made /\ pool' = pool /\ current' = current
      /\ opened' = opened /\ area' = area /\ crash' = crash
  BY DEF Quiet, bufferVars
<1>a. /\ \A t \in Threads : maker'[t].chunk = maker[t].chunk /\ maker'[t].buffer = maker[t].buffer
      /\ \A t \in Threads : maker'[t].size = maker[t].size
      /\ \A t \in Threads : /\ maker'[t].pc = "write" <=> maker[t].pc = "write"
                            /\ maker'[t].pc = "swap" <=> maker[t].pc = "swap"
                            /\ maker'[t].pc = "idle" <=> maker[t].pc = "idle"
  BY DEF Quiet
<1>1. \A t \in Threads, c \in Chunks : Popped(t, c)' <=> Popped(t, c)
  BY <1>a DEF Popped
<1>2. \A b \in Buffers : Writing(b)' <=> Writing(b)
  BY <1>a DEF Writing
<1>3. \A b \in Buffers : End(b)' = End(b) /\ Cells(b)' = Cells(b)
  BY <1>0 DEF End, Cells
<1>4. InvMaker'
  <2>1. \A t \in Threads : maker'[t].pc \notin {"idle", "swap"} =>
          maker[t].pc \notin {"idle", "swap"}
    BY DEF Quiet
  <2> QED BY <1>0, <1>a, <2>1 DEF ChunkInv, InvMaker
<1>5. InvHolders'
  <2>1. \A b \in Buffers : holders'[b] = {} <=> holders[b] = {}
    BY DEF Quiet
  <2>2. \A t \in Threads, b \in Buffers : t \in holders'[b] <=> t \in holders[b]
    BY Constants DEF Quiet
  <2> QED BY <1>0, <1>a, <2>1, <2>2 DEF ChunkInv, InvHolders
<1>6. InvCurrent'
  BY <1>0 DEF ChunkInv, InvCurrent
<1>7. InvPopped'
  BY <1>0, <1>1 DEF ChunkInv, InvPopped
<1>8. InvPool'
  BY <1>0, <1>1, Typed DEF ChunkInv, InvPool
<1>9. InvKept'
  <2>1. \A c \in 1..made : c \in Nat
    OBVIOUS
  <2>2. \A c \in 1..made : c \in Chunks
    BY <2>1, Typed DEF ChunkInv
  <2> QED BY <1>0, <1>1, <2>2 DEF ChunkInv, InvKept
<1>10. InvArea'
  BY <1>0, <1>2, <1>3 DEF ChunkInv, InvArea
<1>11. InvBytes'
  BY <1>0, <1>2, <1>3 DEF ChunkInv, InvBytes
<1>12. InvChunk'
  BY <1>0, <1>a, <1>3 DEF ChunkInv, InvChunk
<1> QED BY <1>4, <1>5, <1>6, <1>7, <1>8, <1>9, <1>10, <1>11, <1>12 DEF ChunkInv

\* A thread that is past the opening holds a buffer, which lies in a chunk.
LEMMA Making ==
  ASSUME ChunkInv, NEW t \in Threads, ~ crash, maker[t].pc \notin {"idle", "swap"}
  PROVE  /\ maker[t].buffer \in Buffers /\ maker[t].buffer # None
         /\ t \in holders[maker[t].buffer] /\ holders[maker[t].buffer] # {}
         /\ area[maker[t].buffer].chunk \in Chunks /\ area[maker[t].buffer].chunk # None
<1>1. maker[t].buffer # None
  BY DEF ChunkInv, InvMaker
<1>2. maker[t].buffer \in Buffers
  BY <1>1, Typed DEF ChunkInv
<1>3. t \in holders[maker[t].buffer] /\ holders[maker[t].buffer] # {}
  BY <1>2 DEF ChunkInv, InvHolders
<1>4. area[maker[t].buffer].chunk # None
  BY <1>2, <1>3 DEF ChunkInv, InvHolders
<1> QED BY <1>1, <1>2, <1>3, <1>4, Typed DEF ChunkInv

MakerType ==
  [pc : Places, size : Nat, chunk : Chunks \cup {None}, buffer : Buffers \cup {None},
   targets : SUBSET (Peers \cup {Tcp}), peer : Peers \cup {Tcp}, seq : Nat]

DatagramType == [peer : Peers, buffer : Buffers, seq : Nat, restamped : BOOLEAN]

AreaType == [chunk : Chunks \cup {None}, at : Nat, size : Nat]

ChunkType == [used : Nat, open : BOOLEAN, bytes : [1..ChunkSize -> Nat]]

\* The step at a thread's own record keeps the type of all.
LEMMA MakerTyped ==
  ASSUME TypeOK, NEW t \in Threads, NEW r \in MakerType, maker' = [maker EXCEPT ![t] = r]
  PROVE  maker' \in [Threads -> MakerType]
BY DEF TypeOK, MakerType

LEMMA HoldersTyped ==
  ASSUME TypeOK, NEW b \in Buffers, NEW h \in Holder, holders' = [holders EXCEPT ![b] = @ \cup {h}]
  PROVE  holders' \in [Buffers -> SUBSET Holder]
BY DEF TypeOK

\* A reference that goes keeps the types.
LEMMA ReleaseTyped ==
  ASSUME TypeOK, NEW b \in Buffers, NEW h, Release(b, h), area[b].chunk # None \/ holders[b] = {}
  PROVE  /\ holders' \in [Buffers -> SUBSET Holder] /\ pool' \in Seq(Chunks)
         /\ area' \in [Buffers -> AreaType] /\ number' \in [Buffers -> Nat]
         /\ UNCHANGED <<chunks, made, current, opened, crash>>
<1>1. holders' \in [Buffers -> SUBSET Holder]
  BY DEF TypeOK, Release
<1>2. area' \in [Buffers -> AreaType] /\ number' \in [Buffers -> Nat]
  <2>1. NoArea \in AreaType
    BY DEF NoArea, AreaType
  <2>2. area \in [Buffers -> AreaType] /\ number \in [Buffers -> Nat]
    BY DEF TypeOK, AreaType
  <2>3. /\ area' = area \/ area' = [area EXCEPT ![b] = NoArea]
        /\ number' = number \/ number' = [number EXCEPT ![b] = 0]
    BY DEF Release
  <2> QED BY <2>1, <2>2, <2>3
<1>3. pool' \in Seq(Chunks)
  <2>1. CASE holders[b] = {h}
    <3>1. area[b].chunk \in Chunks
      BY <2>1, Typed
    <3>2. Append(pool, area[b].chunk) \in Seq(Chunks)
      BY <3>1, AppendFacts, Typed
    <3> QED BY <3>2, Typed DEF Release
  <2>2. CASE holders[b] # {h}
    BY <2>2, Typed DEF Release
  <2> QED BY <2>1, <2>2
<1> QED BY <1>1, <1>2, <1>3 DEF Release

LEMMA SendTcpTyped == ASSUME ChunkInv, NEW t \in Threads, SendTcp(t) PROVE TypeOK'
<1> DEFINE b == maker[t].buffer
<1>0. TypeOK /\ b \in Buffers
  BY Making DEF SendTcp, At, ChunkInv
<1>1. maker' \in [Threads -> MakerType]
  <2> DEFINE r == [maker[t] EXCEPT !.targets = @ \ {Tcp}]
  <2>1. maker[t] \in MakerType
    BY <1>0 DEF TypeOK, MakerType
  <2>2. r \in MakerType
    BY <2>1 DEF MakerType
  <2>3. maker' = [maker EXCEPT ![t] = r]
    BY DEF SendTcp
  <2> QED BY <1>0, <2>2, <2>3, MakerTyped
<1>2. holders' \in [Buffers -> SUBSET Holder]
  BY <1>0, HoldersTyped DEF SendTcp, Holder
<1>3. sendQueue' \in Seq(Buffers) /\ batch' \in 0..Len(sendQueue')
  <2>1. sendQueue' = Append(sendQueue, b) /\ batch' = batch
    BY DEF SendTcp
  <2>2. sendQueue \in Seq(Buffers) /\ batch \in 0..Len(sendQueue)
    BY <1>0 DEF TypeOK
  <2> QED BY <1>0, <2>1, <2>2
<1> QED BY <1>0, <1>1, <1>2, <1>3
        DEF SendTcp, TypeOK, MakerType, bufferVars, udpVars, numberVars

LEMMA RegisterSendTyped == ASSUME TypeOK, RegisterSend PROVE TypeOK'
<1>1. batch' \in 0..Len(sendQueue')
  <2>1. sendQueue \in Seq(Buffers)
    BY DEF TypeOK
  <2> QED BY <2>1 DEF RegisterSend
<1> QED BY <1>1 DEF RegisterSend, TypeOK, bufferVars, udpVars, numberVars

LEMMA TcpReadTyped == ASSUME TypeOK, TcpRead PROVE TypeOK' /\ sendQueue # <<>>
<1>0. sendQueue \in Seq(Buffers) /\ batch \in 0..Len(sendQueue) /\ batch > 0
  BY DEF TcpRead, TypeOK
<1>1. sendQueue # <<>>
  BY <1>0
<1>2. Head(sendQueue) \in Buffers /\ sendQueue' \in Seq(Buffers)
  BY <1>0, <1>1, TailFacts DEF TcpRead
<1>3. sent' \in Seq(Buffers)
  BY <1>2, AppendFacts DEF TcpRead, TypeOK
<1>4. batch' \in 0..Len(sendQueue')
  BY <1>0, <1>1 DEF TcpRead
<1> QED BY <1>1, <1>2, <1>3, <1>4 DEF TcpRead, TypeOK, bufferVars, udpVars, numberVars

LEMMA SendFailsTyped == ASSUME TypeOK, SendFails PROVE TypeOK'
<1>0. sendQueue \in Seq(Buffers) /\ batch \in 0..Len(sendQueue)
  BY DEF TypeOK
<1>1. sendQueue' \in Seq(Buffers) /\ sent' \in Seq(Buffers)
  BY <1>0 DEF SendFails
<1>2. batch' \in 0..Len(sendQueue')
  <2>1. Len(sendQueue') \in Nat /\ batch' = 0
    BY <1>1 DEF SendFails
  <2> QED BY <2>1
<1> QED BY <1>1, <1>2 DEF SendFails, TypeOK, bufferVars, udpVars, numberVars

LEMMA TcpDropTyped == ASSUME ChunkInv, TcpDrop PROVE TypeOK'
<1>0. Head(sent) \in Buffers /\ sent' \in Seq(Buffers)
  BY TailFacts DEF TcpDrop, ChunkInv, TypeOK
<1>1. area[Head(sent)].chunk # None \/ holders[Head(sent)] = {}
  BY <1>0 DEF ChunkInv, InvHolders
<1>2. Release(Head(sent), Tcp) /\ TypeOK
  BY DEF TcpDrop, ChunkInv
<1> QED BY <1>0, <1>1, <1>2, ReleaseTyped DEF TcpDrop, TypeOK, AreaType, numberVars

EntryType == [peer : Peers, seq : Nat, buffer : Buffers]

\* The types after an entry is erased.
LEMMA EraseTyped ==
  ASSUME ChunkInv, NEW e \in pending, Release(e.buffer, e.peer), pending' = pending \ {e},
         astray' \subseteq astray \cup {<<e.peer, e.seq>>},
         UNCHANGED <<maker, tcpVars, numberVars, datagrams, got>>
  PROVE  TypeOK'
<1>0. TypeOK
  BY DEF ChunkInv
<1>1. e \in EntryType
  BY <1>0 DEF TypeOK, EntryType
<1>2. e.buffer \in Buffers /\ <<e.peer, e.seq>> \in Peers \X Nat
  BY <1>1 DEF EntryType
<1>3. area[e.buffer].chunk # None \/ holders[e.buffer] = {}
  BY <1>2 DEF ChunkInv, InvHolders
<1>4. /\ holders' \in [Buffers -> SUBSET Holder] /\ pool' \in Seq(Chunks)
      /\ area' \in [Buffers -> AreaType] /\ number' \in [Buffers -> Nat]
      /\ UNCHANGED <<chunks, made, current, opened, crash>>
  BY <1>0, <1>2, <1>3, ReleaseTyped
<1>5. got \cup taken \cup twice \cup astray \subseteq Peers \X Nat
  BY <1>0 DEF TypeOK
<1>6. got' \cup taken' \cup twice' \cup astray' \subseteq Peers \X Nat
  BY <1>2, <1>5 DEF numberVars
<1> QED BY <1>0, <1>4, <1>6 DEF TypeOK, AreaType, numberVars, tcpVars

LEMMA HandleAckTyped == ASSUME ChunkInv, NEW e \in pending, HandleAck(e) PROVE TypeOK'
BY EraseTyped DEF HandleAck

LEMMA OverwriteTyped == ASSUME ChunkInv, NEW t \in Threads, Overwrite(t) PROVE TypeOK'
<1>1. PICK e \in pending : Release(e.buffer, e.peer) /\ pending' = pending \ {e}
  BY DEF Overwrite, Under
<1> QED BY <1>1, EraseTyped DEF Overwrite

LEMMA ForgetTyped == ASSUME ChunkInv, NEW t \in Threads, Forget(t) PROVE TypeOK'
<1> DEFINE b == maker[t].buffer
<1>0. TypeOK /\ b \in Buffers /\ area[b].chunk # None
  BY Making DEF Forget, At, ChunkInv
<1>1. NotMaking \in MakerType
  BY DEF NotMaking, MakerType, Places
<1>2. maker' \in [Threads -> MakerType]
  BY <1>0, <1>1, MakerTyped DEF Forget
<1>3. Release(b, t)
  BY DEF Forget
<1> QED BY <1>0, <1>2, <1>3, ReleaseTyped
        DEF Forget, TypeOK, AreaType, MakerType, tcpVars, numberVars

\* A thread goes on: its record is another, or another of the same type.
LEMMA GotoTyped ==
  ASSUME TypeOK, NEW t \in Threads, NEW place \in Places, Goto(t, place)
  PROVE  /\ maker' \in [Threads -> MakerType]
         /\ \A u \in Threads : u # t => maker'[u] = maker[u]
         /\ maker'[t].pc = place /\ maker'[t].buffer = maker[t].buffer
         /\ maker'[t].chunk = maker[t].chunk /\ maker'[t].size = maker[t].size
         /\ maker'[t].targets = maker[t].targets
         /\ maker'[t].peer = maker[t].peer /\ maker'[t].seq = maker[t].seq
<1> DEFINE r == [maker[t] EXCEPT !.pc = place]
<1>1. maker[t] \in MakerType
  BY DEF TypeOK, MakerType
<1>2. r \in MakerType
  BY <1>1 DEF MakerType
<1>3. maker' = [maker EXCEPT ![t] = r]
  BY DEF Goto
<1>4. maker'[t] = r /\ \A u \in Threads : u # t => maker'[u] = maker[u]
  BY <1>3 DEF TypeOK
<1>5. /\ r.pc = place /\ r.buffer = maker[t].buffer
      /\ r.chunk = maker[t].chunk /\ r.size = maker[t].size /\ r.targets = maker[t].targets
      /\ r.peer = maker[t].peer /\ r.seq = maker[t].seq
  BY <1>1 DEF MakerType
<1> HIDE DEF r
<1> QED BY <1>2, <1>3, <1>4, <1>5, MakerTyped

LEMMA TakeNumberFacts ==
  ASSUME TypeOK, NEW t \in Threads, NEW p \in Peers, TakeNumber(t, p)
  PROVE  /\ maker' \in [Threads -> MakerType]
         /\ \A u \in Threads : u # t => maker'[u] = maker[u]
         /\ maker'[t].pc = "increment" /\ maker'[t].buffer = maker[t].buffer
         /\ maker'[t].chunk = maker[t].chunk /\ maker'[t].size = maker[t].size
         /\ maker'[t].targets = maker[t].targets \ {p}
         /\ maker'[t].peer = p /\ maker'[t].seq = sendSeq[p] /\ sendSeq[p] \in Nat
<1> DEFINE r == [maker[t] EXCEPT !.pc = "increment", !.seq = sendSeq[p],
                                 !.targets = @ \ {p}, !.peer = p]
<1>1. maker[t] \in MakerType /\ sendSeq[p] \in Nat
  BY DEF TypeOK, MakerType
<1>2. r \in MakerType
  BY <1>1 DEF MakerType, Places
<1>3. maker' = [maker EXCEPT ![t] = r]
  BY DEF TakeNumber
<1>4. maker'[t] = r /\ \A u \in Threads : u # t => maker'[u] = maker[u]
  BY <1>3 DEF TypeOK
<1>5. /\ r.pc = "increment" /\ r.buffer = maker[t].buffer
      /\ r.chunk = maker[t].chunk /\ r.size = maker[t].size /\ r.targets = maker[t].targets \ {p}
      /\ r.peer = p /\ r.seq = sendSeq[p]
  BY <1>1 DEF MakerType
<1> HIDE DEF r
<1> QED BY <1>1, <1>2, <1>3, <1>4, <1>5, MakerTyped

LEMMA TakeNumberTyped ==
  ASSUME TypeOK, NEW t \in Threads, NEW p \in Peers, TakeNumber(t, p) PROVE TypeOK'
<1>1. maker' \in [Threads -> MakerType] /\ sendSeq[p] \in Nat
  BY TakeNumberFacts
<1>2. got' \cup taken' \cup twice' \cup astray' \subseteq Peers \X Nat
  <2>1. got \cup taken \cup twice \cup astray \subseteq Peers \X Nat
    BY DEF TypeOK
  <2>2. <<p, sendSeq[p]>> \in Peers \X Nat
    BY <1>1
  <2> QED BY <2>1, <2>2 DEF TakeNumber
<1> QED BY <1>1, <1>2 DEF TakeNumber, TypeOK, MakerType, bufferVars, tcpVars

LEMMA IncrementTyped == ASSUME TypeOK, NEW t \in Threads, Increment(t) PROVE TypeOK'
<1>1. maker' \in [Threads -> MakerType]
  BY GotoTyped DEF Increment, Places
<1>2. sendSeq' \in [Peers -> Nat]
  <2>1. sendSeq \in [Peers -> Nat] /\ maker[t].seq + 1 \in Nat
    BY DEF TypeOK
  <2>2. sendSeq' = [sendSeq EXCEPT ![maker[t].peer] = maker[t].seq + 1]
    BY DEF Increment
  <2> QED BY <2>1, <2>2
<1> QED BY <1>1, <1>2 DEF Increment, TypeOK, MakerType, bufferVars, tcpVars

LEMMA StampTyped == ASSUME ChunkInv, NEW t \in Threads, Stamp(t) PROVE TypeOK'
<1> DEFINE b == maker[t].buffer
<1>0. TypeOK /\ b \in Buffers /\ maker[t].seq \in Nat
  BY Making DEF Stamp, At, ChunkInv, TypeOK
<1>1. maker' \in [Threads -> MakerType]
  BY <1>0, GotoTyped DEF Stamp, Places
<1>2. datagrams' \subseteq DatagramType
  <2>1. \A d \in DatagramType : [d EXCEPT !.restamped = TRUE] \in DatagramType
    BY DEF DatagramType
  <2>2. datagrams \subseteq DatagramType
    BY <1>0 DEF TypeOK, DatagramType
  <2> QED BY <2>1, <2>2 DEF Stamp
<1>3. number' \in [Buffers -> Nat]
  <2>1. number' = [number EXCEPT ![b] = maker[t].seq] /\ number \in [Buffers -> Nat]
    BY <1>0 DEF Stamp, TypeOK
  <2> QED BY <1>0, <2>1
<1> QED BY <1>0, <1>1, <1>2, <1>3
        DEF Stamp, TypeOK, MakerType, DatagramType, bufferVars, tcpVars, numberVars

LEMMA InsertTyped ==
  ASSUME ChunkInv, InvOnce, NEW t \in Threads, Insert(t) PROVE TypeOK'
<1>0. /\ TypeOK /\ maker[t].buffer \in Buffers /\ maker[t].seq \in Nat
      /\ maker[t].peer \in Peers
  BY Making DEF Insert, At, ChunkInv, TypeOK, InvOnce, Numbered
<1>1. maker' \in [Threads -> MakerType]
  BY <1>0, GotoTyped DEF Insert, Places
<1>2. holders' \in [Buffers -> SUBSET Holder]
  BY <1>0, HoldersTyped DEF Insert, Holder
<1>3. pending' \subseteq EntryType
  <2>1. Entry(t) \in EntryType
    BY <1>0 DEF Entry, EntryType
  <2>2. pending \subseteq EntryType
    BY <1>0 DEF TypeOK, EntryType
  <2> QED BY <2>1, <2>2 DEF Insert
<1> QED BY <1>0, <1>1, <1>2, <1>3
        DEF Insert, TypeOK, MakerType, EntryType, bufferVars, tcpVars, numberVars

LEMMA SendUdpTyped ==
  ASSUME ChunkInv, InvOnce, NEW t \in Threads, SendUdp(t) PROVE TypeOK'
<1>0. TypeOK /\ maker[t].buffer \in Buffers /\ maker[t].peer \in Peers /\ maker[t].seq \in Nat
  BY Making DEF SendUdp, At, ChunkInv, TypeOK, InvOnce, Numbered
<1>1. maker' \in [Threads -> MakerType]
  BY <1>0, GotoTyped DEF SendUdp, Places
<1>2. datagrams' \subseteq DatagramType
  <2>1. [peer |-> maker[t].peer, buffer |-> maker[t].buffer, seq |-> maker[t].seq,
         restamped |-> FALSE] \in DatagramType
    BY <1>0 DEF DatagramType
  <2>2. datagrams \subseteq DatagramType
    BY <1>0 DEF TypeOK, DatagramType
  <2> QED BY <2>1, <2>2 DEF SendUdp
<1> QED BY <1>0, <1>1, <1>2
        DEF SendUdp, TypeOK, MakerType, DatagramType, bufferVars, tcpVars, numberVars

LEMMA UdpReadTyped == ASSUME TypeOK, NEW d \in datagrams, UdpRead(d) PROVE TypeOK'
<1>1. PICK n \in Reads(d.buffer) :
        /\ got' = got \cup {<<d.peer, n>>}
        /\ astray' = IF n = d.seq THEN astray ELSE astray \cup {<<d.peer, n>>}
  BY DEF UdpRead
<1>2. d.peer \in Peers /\ d.buffer \in Buffers
  BY DEF TypeOK
<1>3. n \in Nat
  BY <1>1, <1>2, Constants DEF Reads, TypeOK
<1>4. got' \cup taken' \cup twice' \cup astray' \subseteq Peers \X Nat
  <2>1. got \cup taken \cup twice \cup astray \subseteq Peers \X Nat
    BY DEF TypeOK
  <2>2. taken' = taken /\ twice' = twice
    BY DEF UdpRead, numberVars
  <2>3. <<d.peer, n>> \in Peers \X Nat
    BY <1>2, <1>3
  <2> QED BY <1>1, <2>1, <2>2, <2>3
<1> QED BY <1>2, <1>4 DEF UdpRead, TypeOK, bufferVars, tcpVars, numberVars

\* The types after the steps that open and write a buffer.
LEMMA PopChunkTyped ==
  ASSUME TypeOK, NEW t \in Threads, NEW size \in Sizes, PopChunk(t, size) PROVE TypeOK'
<1> DEFINE c == IF pool = <<>> THEN made' ELSE pool[Len(pool)]
<1>1. made' \in 0..MaxChunks /\ pool' \in Seq(Chunks) /\ c \in Chunks
  <2>1. CASE pool = <<>>
    <3>1. made' = made + 1 /\ made < MaxChunks /\ pool' = pool
      BY <2>1 DEF PopChunk
    <3>2. made' \in 0..MaxChunks /\ made' \in Chunks
      BY <3>1, Typed, Constants DEF Chunks
    <3> QED BY <2>1, <3>1, <3>2, Typed
  <2>2. CASE pool # <<>>
    <3>1. pool' = SubSeq(pool, 1, Len(pool) - 1) /\ made' = made
      BY <2>2 DEF PopChunk
    <3>2. pool' \in Seq(Chunks) /\ pool[Len(pool)] \in Chunks
      BY <2>2, <3>1, Typed, FrontFacts
    <3> QED BY <2>2, <3>1, <3>2 DEF TypeOK
  <2> QED BY <2>1, <2>2
<1>2. maker' \in [Threads -> MakerType]
  <2> DEFINE r == [NotMaking EXCEPT !.pc = "swap", !.size = size, !.chunk = c]
  <2>1. r \in MakerType
    BY <1>1, Constants DEF NotMaking, MakerType, Places
  <2>2. maker' = [maker EXCEPT ![t] = r]
    BY DEF PopChunk
  <2> QED BY <2>1, <2>2, MakerTyped
<1> QED BY <1>1, <1>2 DEF PopChunk, TypeOK, MakerType, udpVars, tcpVars, numberVars

LEMMA OpenInTyped ==
  ASSUME TypeOK, NEW t \in Threads, NEW c \in Chunks, NEW size \in Nat,
         NEW table \in [Chunks -> ChunkType], OpenIn(t, c, table, size)
  PROVE  /\ opened' \in 0..MaxBuffers /\ crash' \in BOOLEAN
         /\ chunks' \in [Chunks -> ChunkType] /\ area' \in [Buffers -> AreaType]
         /\ holders' \in [Buffers -> SUBSET Holder]
         /\ maker' \in [Threads -> MakerType]
<1>1. opened' = opened + 1 /\ opened' \in Buffers /\ opened' \in 0..MaxBuffers
  <2>1. opened' = opened + 1 /\ opened < MaxBuffers
    BY DEF OpenIn
  <2> QED BY <2>1, Typed, Constants DEF Buffers
<1>2. table[c].used \in Nat
  BY DEF ChunkType
<1>3. maker[t] \in MakerType
  BY DEF TypeOK, MakerType
<1>4. CASE size > ChunkSize \/ table[c].open \/ table[c].used + size > ChunkSize
  <2>1. /\ crash' = TRUE /\ chunks' = table /\ area' = area /\ holders' = holders
        /\ maker' = [maker EXCEPT ![t].pc = "write", ![t].size = size]
    BY <1>4 DEF OpenIn
  <2> DEFINE r == [maker[t] EXCEPT !.pc = "write", !.size = size]
  <2>2. r \in MakerType
    BY <1>3 DEF MakerType, Places
  <2>3. maker' = [maker EXCEPT ![t] = r]
    BY <2>1
  <2>4. maker' \in [Threads -> MakerType]
    BY <2>2, <2>3, MakerTyped
  <2> QED BY <1>1, <2>1, <2>4 DEF TypeOK, AreaType
<1>5. CASE ~ (size > ChunkSize \/ table[c].open \/ table[c].used + size > ChunkSize)
  <2>1. /\ chunks' = [table EXCEPT ![c].open = TRUE] /\ crash' = crash
        /\ area' = [area EXCEPT ![opened'] = [chunk |-> c, at |-> table[c].used, size |-> size]]
        /\ holders' = [holders EXCEPT ![opened'] = {t}]
    BY <1>5 DEF OpenIn
  <2>2. PICK targets \in Targets : maker' = [maker EXCEPT ![t] =
               [NotMaking EXCEPT !.pc = "write", !.size = size, !.buffer = opened',
                                 !.targets = targets]]
    BY <1>5 DEF OpenIn
  <2>3. chunks' \in [Chunks -> ChunkType]
    BY <2>1 DEF ChunkType
  <2>4. area' \in [Buffers -> AreaType]
    BY <1>1, <1>2, <2>1 DEF TypeOK, AreaType
  <2>5. holders' \in [Buffers -> SUBSET Holder]
    BY <1>1, <2>1 DEF TypeOK, Holder
  <2>6. maker' \in [Threads -> MakerType]
    <3> DEFINE r == [NotMaking EXCEPT !.pc = "write", !.size = size, !.buffer = opened',
                                      !.targets = targets]
    <3>1. targets \subseteq Peers \cup {Tcp}
      BY DEF Targets
    <3>2. r \in MakerType
      BY <1>1, <3>1 DEF MakerType, Places, NotMaking
    <3> QED BY <2>2, <3>2, MakerTyped
  <2> QED BY <1>1, <2>1, <2>3, <2>4, <2>5, <2>6 DEF TypeOK
<1> QED BY <1>4, <1>5

LEMMA OpenTyped ==
  ASSUME TypeOK, NEW t \in Threads, NEW size \in Sizes, Open(t, size) PROVE TypeOK'
<1>1. current[t] \in Chunks /\ size \in Nat
  BY Typed, Constants DEF Open, HasRoom
<1>2. OpenIn(t, current[t], chunks, size)
  BY DEF Open
<1>3. chunks \in [Chunks -> ChunkType]
  BY DEF TypeOK, ChunkType
<1> QED BY <1>1, <1>2, <1>3, OpenInTyped
        DEF Open, TypeOK, ChunkType, AreaType, MakerType, udpVars, tcpVars, numberVars

LEMMA SwapChunkTyped ==
  ASSUME ChunkInv, NEW t \in Threads, SwapChunk(t) PROVE TypeOK'
<1> DEFINE old == current[t]
           new == maker[t].chunk
<1>0. TypeOK /\ new \in Chunks /\ maker[t].size \in Nat
  <2>1. TypeOK /\ new # None
    BY DEF SwapChunk, At, ChunkInv, InvMaker
  <2> QED BY <2>1, Typed
<1>1. Reset(new) \in [Chunks -> ChunkType]
  <2>1. chunks \in [Chunks -> ChunkType]
    BY <1>0 DEF TypeOK, ChunkType
  <2>2. [chunks[new] EXCEPT !.open = FALSE, !.used = 0] \in ChunkType
    BY <1>0, <2>1 DEF ChunkType
  <2>3. Reset(new) = [chunks EXCEPT ![new] = [chunks[new] EXCEPT !.open = FALSE, !.used = 0]]
    BY <2>1 DEF Reset, ChunkType
  <2> QED BY <1>0, <2>1, <2>2, <2>3
<1>2. OpenIn(t, new, Reset(new), maker[t].size)
  BY DEF SwapChunk
<1>3. current' \in [Threads -> Chunks \cup {None}]
  BY <1>0 DEF SwapChunk, TypeOK
<1>4. pool' \in Seq(Chunks)
  <2>1. CASE old # None
    BY <1>0, <2>1, Typed, AppendFacts DEF SwapChunk
  <2>2. CASE old = None
    BY <1>0, <2>2, Typed DEF SwapChunk
  <2> QED BY <2>1, <2>2
<1> QED BY <1>0, <1>1, <1>2, <1>3, <1>4, OpenInTyped
        DEF SwapChunk, TypeOK, ChunkType, AreaType, MakerType, udpVars, tcpVars, numberVars

LEMMA WriteTyped == ASSUME ChunkInv, NEW t \in Threads, Write(t) PROVE TypeOK'
<1> DEFINE b == maker[t].buffer
           c == area[b].chunk
           bytes == [i \in 1..ChunkSize |-> IF i \in Cells(b) THEN b ELSE chunks[c].bytes[i]]
<1>0. TypeOK /\ b \in Buffers /\ c \in Chunks
  BY Making DEF Write, At, ChunkInv
<1>1. bytes \in [1..ChunkSize -> Nat]
  <2>1. b \in Nat /\ chunks[c].bytes \in [1..ChunkSize -> Nat]
    BY <1>0, Typed DEF TypeOK
  <2> QED BY <2>1
<1>2. chunks' \in [Chunks -> ChunkType]
  <2>1. chunks' = [chunks EXCEPT ![c] =
          [open |-> FALSE, used |-> chunks[c].used + area[b].size, bytes |-> bytes]]
    BY <1>0 DEF Write, TypeOK
  <2>2. chunks[c].used + area[b].size \in Nat
    <3>1. chunks[c].used \in Nat /\ area[b].size \in Nat
      BY <1>0, Typed
    <3> QED BY <3>1
  <2>3. chunks \in [Chunks -> ChunkType]
    BY <1>0 DEF TypeOK, ChunkType
  <2> HIDE DEF bytes
  <2>4. [open |-> FALSE, used |-> chunks[c].used + area[b].size, bytes |-> bytes] \in ChunkType
    BY <1>1, <2>2 DEF ChunkType
  <2> QED BY <2>1, <2>3, <2>4
<1>3. maker' \in [Threads -> MakerType]
  <2> DEFINE r == [maker[t] EXCEPT !.pc = "send"]
  <2>1. maker[t] \in MakerType
    BY <1>0 DEF TypeOK, MakerType
  <2>2. r \in MakerType
    BY <2>1 DEF MakerType, Places
  <2>3. maker' = [maker EXCEPT ![t] = r]
    BY DEF Write, Goto
  <2> QED BY <1>0, <2>2, <2>3, MakerTyped
<1>4. crash' \in BOOLEAN
  BY DEF Write
<1> HIDE DEF b, c, bytes
<1> QED BY <1>0, <1>2, <1>3, <1>4 DEF Write, TypeOK, ChunkType, MakerType, udpVars, tcpVars, numberVars

\* Who gives up a reference: a queue or a peer, or the thread that made the
\* buffer, which is then done.
Dropper(b, h) ==
  \/ h \notin Threads /\ maker' = maker
  \/ /\ h \in Threads /\ maker[h].buffer = b /\ maker[h].pc = "send"
     /\ maker' = [maker EXCEPT ![h] = NotMaking]

LEMMA DropperSteps ==
  ASSUME TypeOK, NEW b \in Buffers, NEW h, Dropper(b, h)
  PROVE  /\ \A t \in Threads : t # h => maker'[t] = maker[t]
         /\ \A t \in Threads : t = h => /\ maker[t].buffer = b /\ maker[t].pc = "send"
                                        /\ maker'[t].pc = "idle" /\ maker'[t].buffer = None
                                        /\ maker'[t].chunk = None
         /\ \A t \in Threads, c \in Chunks : Popped(t, c)' <=> Popped(t, c)
         /\ \A x \in Buffers : Writing(x)' <=> Writing(x)
<1>1. \A t \in Threads : t # h => maker'[t] = maker[t]
  BY DEF Dropper, TypeOK
<1>2. \A t \in Threads : t = h => /\ maker[t].buffer = b /\ maker[t].pc = "send"
                                  /\ maker'[t] = NotMaking
  BY DEF Dropper, TypeOK
<1>3. \A t \in Threads : t = h => /\ maker[t].buffer = b /\ maker[t].pc = "send"
                                  /\ maker'[t].pc = "idle" /\ maker'[t].buffer = None
                                  /\ maker'[t].chunk = None
  BY <1>2 DEF NotMaking
<1>4. \A t \in Threads, c \in Chunks : Popped(t, c)' <=> Popped(t, c)
  BY <1>1, <1>3 DEF Popped
<1>5. \A x \in Buffers : Writing(x)' <=> Writing(x)
  BY <1>1, <1>3 DEF Writing
<1> QED BY <1>1, <1>3, <1>4, <1>5

\* The buffer that loses its last reference goes, and its chunk goes to the
\* pool if nobody else has it.
LEMMA ReleaseStep ==
  ASSUME ChunkInv, TypeOK', ~ crash, NEW b \in Buffers, NEW h, Release(b, h), Dropper(b, h)
  PROVE  ChunkInv'
<1> DEFINE c == area[b].chunk
           last == /\ holders[b] = {h} /\ LiveIn(c) = {b}
                   /\ \A t \in Threads : current[t] # c
<1>0. /\ chunks' = chunks /\ made' = made /\ current' = current
      /\ opened' = opened /\ crash' = crash
      /\ pool' = IF last THEN Append(pool, c) ELSE pool
  BY DEF Release
<1>1. TypeOK
  BY DEF ChunkInv
<1>2. /\ \A x \in Buffers : x # b => holders'[x] = holders[x] /\ area'[x] = area[x]
      /\ holders'[b] = holders[b] \ {h}
      /\ holders[b] = {h} => area'[b] = NoArea
      /\ holders[b] # {h} => area'[b] = area[b]
  BY <1>1 DEF Release, TypeOK
<1>3. /\ \A t \in Threads : t # h => maker'[t] = maker[t]
      /\ \A t \in Threads : t = h => /\ maker[t].buffer = b /\ maker[t].pc = "send"
                                     /\ maker'[t].pc = "idle" /\ maker'[t].buffer = None
                                     /\ maker'[t].chunk = None
      /\ \A t \in Threads, d \in Chunks : Popped(t, d)' <=> Popped(t, d)
      /\ \A x \in Buffers : Writing(x)' <=> Writing(x)
  BY <1>1, DropperSteps
<1>4. holders[b] = {h} => c \in Chunks /\ c \in 1..made
  <2>1. holders[b] = {h} => c # None
    BY DEF ChunkInv, InvHolders
  <2>2. c <= made
    BY DEF ChunkInv, InvArea
  <2> QED BY <1>1, <2>1, <2>2, Typed DEF None
<1>5. holders[b] = {h} => ~ Writing(b)
  <2>1. \A t \in Threads : maker[t].buffer = b => t \in holders[b]
    BY DEF ChunkInv, InvHolders
  <2> QED BY <1>3, <2>1 DEF Writing
<1>6. \A x \in Buffers : /\ area'[x].chunk \in {None, area[x].chunk}
                         /\ area'[x].chunk # None => area'[x] = area[x]
  BY <1>2 DEF NoArea
<1>7. \A x \in Buffers : /\ holders[x] = {} <=> area[x].chunk = None
                         /\ \A t \in Threads : t \in holders[x] <=> maker[t].buffer = x
                         /\ x > opened => holders[x] = {}
  BY DEF ChunkInv, InvHolders
<1>8. last => \A x \in Buffers : x # b => area[x].chunk # c
  BY <1>4, <1>7, Typed, <1>1 DEF LiveIn
<1>9. InvMaker'
  <2>1. \A t \in Threads :
          /\ maker'[t].pc \in {"idle", "swap"} => maker'[t].buffer = None
          /\ maker'[t].pc \notin {"idle", "swap"} => maker'[t].buffer # None
          /\ maker'[t].pc = "swap" => maker'[t].chunk # None
          /\ maker'[t].pc # "swap" => maker'[t].chunk \in {None, current[t]}
    <3> SUFFICES ASSUME NEW t \in Threads
                 PROVE  /\ maker'[t].pc \in {"idle", "swap"} => maker'[t].buffer = None
                        /\ maker'[t].pc \notin {"idle", "swap"} => maker'[t].buffer # None
                        /\ maker'[t].pc = "swap" => maker'[t].chunk # None
                        /\ maker'[t].pc # "swap" => maker'[t].chunk \in {None, current[t]}
      OBVIOUS
    <3>1. CASE t = h
      BY <1>3, <3>1
    <3>2. CASE t # h
      <4>1. maker'[t] = maker[t]
        BY <1>3, <3>2
      <4>2. /\ maker[t].pc \in {"idle", "swap"} => maker[t].buffer = None
            /\ maker[t].pc \notin {"idle", "swap"} => maker[t].buffer # None
            /\ maker[t].pc = "swap" => maker[t].chunk # None
            /\ maker[t].pc # "swap" => maker[t].chunk \in {None, current[t]}
        BY DEF ChunkInv, InvMaker
      <4> QED BY <4>1, <4>2
    <3> QED BY <3>1, <3>2
  <2> QED BY <1>0, <2>1 DEF InvMaker
<1>10. InvHolders'
  <2>1. \A x \in Buffers : holders'[x] = {} <=> area'[x].chunk = None
    <3>1. CASE holders[b] = {h}
      BY <1>2, <1>7, <3>1 DEF NoArea
    <3>2. CASE holders[b] # {h}
      BY <1>2, <1>7, <3>2
    <3> QED BY <3>1, <3>2
  <2>2. \A x \in Buffers : x > opened' => holders'[x] = {}
    BY <1>0, <1>2, <1>7
  <2>3. \A x \in Buffers : \A t \in Threads : t \in holders'[x] <=> maker'[t].buffer = x
    <3> SUFFICES ASSUME NEW x \in Buffers, NEW t \in Threads
                 PROVE  t \in holders'[x] <=> maker'[t].buffer = x
      OBVIOUS
    <3>1. CASE t = h
      BY <1>1, <1>2, <1>3, <1>7, <3>1, Typed
    <3>2. CASE t # h
      BY <1>2, <1>3, <1>7, <3>2
    <3> QED BY <3>1, <3>2
  <2>4. \A t, u \in Threads :
          maker'[t].buffer = maker'[u].buffer /\ maker'[t].buffer # None => t = u
    BY <1>3 DEF ChunkInv, InvHolders
  <2> QED BY <2>1, <2>2, <2>3, <2>4 DEF InvHolders
<1>11. InvCurrent'
  BY <1>0 DEF ChunkInv, InvCurrent
<1>12. InvPopped'
  <2>1. \A d \in Chunks : d # None
    BY <1>1, Typed
  <2>2. \A t \in Threads, d \in Chunks : Popped(t, d) =>
          /\ d <= made
          /\ \A u \in Threads : current[u] # d /\ (Popped(u, d) => u = t)
          /\ \A x \in Buffers : area[x].chunk # d
    BY DEF ChunkInv, InvPopped
  <2>3. \A t \in Threads, d \in Chunks : Popped(t, d) => \A x \in Buffers : area'[x].chunk # d
    BY <1>6, <2>1, <2>2
  <2> QED BY <1>0, <1>3, <2>2, <2>3 DEF InvPopped
<1>m. \A t \in Threads, d \in Chunks :
        maker'[t].pc = "swap" /\ maker'[t].chunk = d <=> Popped(t, d)
  BY <1>3 DEF Popped
<1>13. InvPool'
  <2>1. CASE last
    <3>1. pool' = Append(pool, c) /\ c \in Chunks /\ c <= made
      BY <1>0, <1>4, <2>1
    <3>2. /\ DOMAIN pool = 1..Len(pool) /\ Len(pool) \in Nat
          /\ DOMAIN pool' = 1..(Len(pool) + 1)
          /\ \A i \in DOMAIN pool : pool'[i] = pool[i]
          /\ pool'[Len(pool) + 1] = c
      BY <1>1, <3>1, Typed, AppendFacts
    <3>3. \A i \in DOMAIN pool' : i \in DOMAIN pool \/ i = Len(pool) + 1
      BY <3>2
    <3>4. \A i \in DOMAIN pool : pool[i] # c
      BY DEF ChunkInv, InvPool
    <3>5. \A t \in Threads : current[t] # c /\ ~ Popped(t, c)
      BY <2>1, <3>1 DEF ChunkInv, InvPopped
    <3>6. \A x \in Buffers : area'[x].chunk # c
      BY <1>2, <1>6, <1>8, <2>1, <3>1, Typed, <1>1 DEF NoArea
    <3>7. \A i \in DOMAIN pool :
            /\ pool[i] \in Chunks /\ pool[i] <= made
            /\ \A t \in Threads : current[t] # pool[i] /\ ~ Popped(t, pool[i])
            /\ \A x \in Buffers : area[x].chunk # pool[i]
            /\ \A j \in DOMAIN pool : pool[i] = pool[j] => i = j
      BY <1>1, Typed DEF ChunkInv, InvPool
    <3>8. \A x \in Buffers, d \in Chunks : area[x].chunk # d => area'[x].chunk # d
      BY <1>1, <1>6, Typed
    <3> SUFFICES ASSUME NEW i \in DOMAIN pool'
                 PROVE  /\ pool'[i] <= made'
                        /\ \A t \in Threads :
                             /\ current'[t] # pool'[i]
                             /\ ~ (maker'[t].pc = "swap" /\ maker'[t].chunk = pool'[i])
                        /\ \A x \in Buffers : area'[x].chunk # pool'[i]
                        /\ \A j \in DOMAIN pool' : pool'[i] = pool'[j] => i = j
      BY DEF InvPool, Popped
    <3>9. CASE i \in DOMAIN pool
      <4>1. pool'[i] = pool[i] /\ pool[i] \in Chunks
        BY <3>2, <3>7, <3>9
      <4>2. \A j \in DOMAIN pool' : pool'[i] = pool'[j] => i = j
        BY <3>2, <3>3, <3>4, <3>7, <3>9
      <4> QED BY <1>0, <1>m, <3>7, <3>8, <3>9, <4>1, <4>2
    <3>10. CASE i = Len(pool) + 1
      <4>1. pool'[i] = c
        BY <3>2, <3>10
      <4>2. \A j \in DOMAIN pool' : pool'[i] = pool'[j] => i = j
        BY <3>2, <3>3, <3>4, <3>10, <4>1
      <4> QED BY <1>0, <1>m, <3>1, <3>5, <3>6, <4>1, <4>2
    <3> QED BY <3>3, <3>9, <3>10
  <2>2. CASE ~ last
    <3>1. pool' = pool
      BY <1>0, <2>2
    <3>2. \A i \in DOMAIN pool :
            /\ pool[i] \in Chunks /\ pool[i] <= made
            /\ \A t \in Threads : current[t] # pool[i] /\ ~ Popped(t, pool[i])
            /\ \A x \in Buffers : area[x].chunk # pool[i]
            /\ \A j \in DOMAIN pool : pool[i] = pool[j] => i = j
      BY <1>1, Typed DEF ChunkInv, InvPool
    <3>3. \A x \in Buffers, d \in Chunks : area[x].chunk # d => area'[x].chunk # d
      BY <1>1, <1>6, Typed
    <3> QED BY <1>0, <1>m, <3>1, <3>2, <3>3 DEF InvPool, Popped
  <2> QED BY <2>1, <2>2
<1>14. InvKept'
  <2> SUFFICES ASSUME NEW d \in 1..made
               PROVE  \/ \E t \in Threads : current[t] = d \/ Popped(t, d)'
                      \/ \E x \in Buffers : area'[x].chunk = d
                      \/ \E i \in DOMAIN pool' : pool'[i] = d
    BY <1>0 DEF InvKept
  <2>0. d \in Chunks /\ d # None
    <3>1. d \in Nat
      OBVIOUS
    <3> QED BY <1>1, <3>1, Typed
  <2>1. CASE \E t \in Threads : current[t] = d \/ Popped(t, d)
    BY <1>3, <2>0, <2>1
  <2>2. CASE \E i \in DOMAIN pool : pool[i] = d
    <3>1. \A i \in DOMAIN pool : i \in DOMAIN pool' /\ pool'[i] = pool[i]
      <4>1. CASE last
        <5>1. pool' = Append(pool, c) /\ c \in Chunks
          BY <1>0, <1>4, <4>1
        <5> QED BY <1>1, <5>1, Typed, AppendFacts
      <4>2. CASE ~ last
        BY <1>0, <4>2
      <4> QED BY <4>1, <4>2
    <3> QED BY <2>2, <3>1
  <2>3. CASE \E x \in Buffers : x # b /\ area[x].chunk = d
    BY <1>2, <2>3
  <2>4. CASE /\ c = d /\ \A x \in Buffers : x # b => area[x].chunk # d
             /\ \A t \in Threads : current[t] # d
    <3>1. CASE holders[b] = {h}
      <4>1. last
        BY <1>7, <2>0, <2>4, <3>1 DEF LiveIn
      <4>2. pool' = Append(pool, c) /\ c \in Chunks
        BY <1>0, <1>4, <3>1, <4>1
      <4>3. Len(pool) + 1 \in DOMAIN pool' /\ pool'[Len(pool) + 1] = c
        BY <1>1, <4>2, Typed, AppendFacts
      <4> QED BY <2>4, <4>3
    <3>2. CASE holders[b] # {h}
      BY <1>2, <2>4, <3>2
    <3> QED BY <3>1, <3>2
  <2>5. \/ \E t \in Threads : current[t] = d \/ Popped(t, d)
        \/ \E x \in Buffers : area[x].chunk = d
        \/ \E i \in DOMAIN pool : pool[i] = d
    BY DEF ChunkInv, InvKept
  <2> QED BY <2>1, <2>2, <2>3, <2>4, <2>5
<1>15. \A x \in Buffers : area'[x].chunk # None => End(x)' = End(x) /\ Cells(x)' = Cells(x)
  BY <1>6 DEF End, Cells
<1>16. InvArea'
  <2>1. \A x \in Buffers : area'[x].chunk <= made
    BY <1>1, <1>6, Typed DEF ChunkInv, InvArea, None
  <2>2. \A x \in Buffers : area'[x].chunk # None /\ ~ Writing(x)' =>
          End(x)' <= chunks[area'[x].chunk].used
    BY <1>3, <1>6, <1>15 DEF ChunkInv, InvArea
  <2>3. \A x, y \in Buffers :
          x # y /\ area'[x].chunk = area'[y].chunk /\ area'[x].chunk # None =>
            End(x)' <= area'[y].at \/ End(y)' <= area'[x].at
    BY <1>6, <1>15 DEF ChunkInv, InvArea
  <2> QED BY <1>0, <2>1, <2>2, <2>3 DEF InvArea
<1>17. InvChunk'
  <2>1. \A t \in Threads : maker'[t].pc # "write" /\ current[t] # None => ~ chunks[current[t]].open
    BY <1>3 DEF ChunkInv, InvChunk
  <2>2. \A t \in Threads, x \in Buffers : maker'[t].pc = "write" /\ maker'[t].buffer = x =>
          maker[t].pc = "write" /\ maker[t].buffer = x /\ area'[x] = area[x]
    <3> SUFFICES ASSUME NEW t \in Threads, NEW x \in Buffers, maker'[t].pc = "write",
                        maker'[t].buffer = x
                 PROVE  maker[t].pc = "write" /\ maker[t].buffer = x /\ area'[x] = area[x]
      OBVIOUS
    <3>1. t # h /\ maker[t].pc = "write" /\ maker[t].buffer = x
      BY <1>3
    <3>2. x = b => holders[b] # {h}
      BY <1>5, <3>1 DEF Writing
    <3> QED BY <1>2, <3>1, <3>2
  <2> QED BY <1>0, <2>1, <2>2 DEF ChunkInv, InvChunk, End
<1>18. InvBytes'
  BY <1>0, <1>3, <1>6, <1>15 DEF ChunkInv, InvBytes
<1> QED BY <1>9, <1>10, <1>11, <1>12, <1>13, <1>14, <1>16, <1>17, <1>18 DEF ChunkInv

\* A chunk out of the pool, or a new one, is nobody else's.
LEMMA PopChunkStep ==
  ASSUME ChunkInv, TypeOK', NEW t \in Threads, NEW size \in Sizes, PopChunk(t, size)
  PROVE  ChunkInv'
<1> DEFINE c == IF pool = <<>> THEN made + 1 ELSE pool[Len(pool)]
<1>0. /\ chunks' = chunks /\ current' = current /\ opened' = opened /\ area' = area
      /\ crash' = crash /\ holders' = holders /\ ~ crash
      /\ maker[t].pc = "idle"
  BY DEF PopChunk, At
<1>1. TypeOK
  BY DEF ChunkInv
<1>n. made \in Nat /\ made' \in Nat
  <2>1. made' \in 0..MaxChunks /\ made \in 0..MaxChunks
    BY <1>1 DEF TypeOK
  <2> QED BY <2>1
<1>2. /\ pool = <<>> => made' = made + 1 /\ pool' = pool /\ made < MaxChunks
      /\ pool # <<>> => made' = made /\ pool' = SubSeq(pool, 1, Len(pool) - 1)
  BY DEF PopChunk
<1>3. /\ \A u \in Threads : u # t => maker'[u] = maker[u]
      /\ maker'[t].pc = "swap" /\ maker'[t].buffer = None /\ maker'[t].chunk = c
  <2>1. maker' = [maker EXCEPT ![t] =
          [NotMaking EXCEPT !.pc = "swap", !.size = size, !.chunk = c]]
    BY <1>2 DEF PopChunk
  <2>2. maker'[t] = [NotMaking EXCEPT !.pc = "swap", !.size = size, !.chunk = c]
    BY <1>1, <2>1 DEF TypeOK
  <2> HIDE DEF c
  <2> QED BY <1>1, <2>1, <2>2 DEF TypeOK, NotMaking
<1>4. /\ DOMAIN pool = 1..Len(pool) /\ Len(pool) \in Nat
      /\ DOMAIN pool' \subseteq DOMAIN pool
      /\ \A i \in DOMAIN pool' : pool'[i] = pool[i]
      /\ \A i \in DOMAIN pool : i \in DOMAIN pool' \/ (pool # <<>> /\ i = Len(pool))
      /\ pool # <<>> => Len(pool) \in DOMAIN pool /\ Len(pool) \notin DOMAIN pool'
  <2>1. CASE pool = <<>>
    BY <1>1, <1>2, <2>1, Typed
  <2>2. CASE pool # <<>>
    <3>1. pool' = SubSeq(pool, 1, Len(pool) - 1) /\ pool \in Seq(Chunks)
      BY <1>1, <1>2, <2>2, Typed
    <3>2. /\ DOMAIN pool = 1..Len(pool) /\ Len(pool) \in Nat /\ Len(pool) > 0
          /\ DOMAIN pool' = 1..(Len(pool) - 1)
          /\ \A i \in DOMAIN pool' : pool'[i] = pool[i]
      BY <2>2, <3>1, FrontFacts
    <3>3. \A n \in Nat : n > 0 =>
            /\ 1..(n - 1) \subseteq 1..n /\ n \in 1..n /\ n \notin 1..(n - 1)
            /\ \A i \in 1..n : i \in 1..(n - 1) \/ i = n
      OBVIOUS
    <3>4. /\ DOMAIN pool' \subseteq DOMAIN pool /\ Len(pool) \in DOMAIN pool
          /\ Len(pool) \notin DOMAIN pool'
      BY <3>2, <3>3
    <3>5. \A i \in DOMAIN pool : i \in DOMAIN pool' \/ i = Len(pool)
      BY <3>2, <3>3
    <3> QED BY <2>2, <3>2, <3>4, <3>5
  <2> QED BY <2>1, <2>2
<1>5. c \in Chunks /\ c <= made' /\ made <= made' /\ c # None
  <2>1. CASE pool = <<>>
    <3>1. made \in Nat /\ made < MaxChunks
      BY <1>1, <1>2, <2>1, Typed
    <3> QED BY <1>2, <2>1, <3>1, Constants DEF Chunks, None
  <2>2. CASE pool # <<>>
    <3>1. c = pool[Len(pool)] /\ made' = made /\ Len(pool) \in DOMAIN pool
      BY <1>2, <1>4, <2>2
    <3>2. c \in Chunks /\ c # None /\ made \in Nat
      BY <1>1, <3>1, Typed
    <3>3. c <= made
      BY <3>1 DEF ChunkInv, InvPool
    <3> QED BY <3>1, <3>2, <3>3
  <2> QED BY <2>1, <2>2
<1>6. /\ \A u \in Threads : current[u] # c /\ ~ Popped(u, c)
      /\ \A b \in Buffers : area[b].chunk # c
      /\ \A i \in DOMAIN pool' : pool'[i] # c
  <2>1. CASE pool = <<>>
    <3>1. made \in Nat /\ c = made + 1
      BY <1>1, <2>1, Typed
    <3>2. \A u \in Threads : current[u] # c
      BY <3>1 DEF ChunkInv, InvCurrent
    <3>3. \A u \in Threads : ~ Popped(u, c)
      BY <1>5, <3>1 DEF ChunkInv, InvPopped
    <3>4. \A b \in Buffers : area[b].chunk # c
      BY <1>1, <3>1, Typed DEF ChunkInv, InvArea
    <3> QED BY <1>2, <2>1, <3>2, <3>3, <3>4
  <2>2. CASE pool # <<>>
    <3>1. c = pool[Len(pool)] /\ Len(pool) \in DOMAIN pool
      BY <1>4, <2>2
    <3>2. /\ \A u \in Threads : current[u] # c /\ ~ Popped(u, c)
          /\ \A b \in Buffers : area[b].chunk # c
          /\ \A i \in DOMAIN pool : pool[i] = c => i = Len(pool)
      BY <3>1 DEF ChunkInv, InvPool
    <3> QED BY <1>4, <2>2, <3>2
  <2> QED BY <2>1, <2>2
<1> HIDE DEF c
<1>7. /\ \A u \in Threads, d \in Chunks : u # t => (Popped(u, d)' <=> Popped(u, d))
      /\ \A d \in Chunks : Popped(t, d)' <=> d = c
      /\ \A d \in Chunks : ~ Popped(t, d)
      /\ \A b \in Buffers : Writing(b)' <=> Writing(b)
  BY <1>0, <1>3 DEF Popped, Writing
<1>8. InvMaker'
  <2>1. \A u \in Threads :
          /\ maker'[u].pc \in {"idle", "swap"} => maker'[u].buffer = None
          /\ maker'[u].pc \notin {"idle", "swap"} => maker'[u].buffer # None
          /\ maker'[u].pc = "swap" => maker'[u].chunk # None
          /\ maker'[u].pc # "swap" => maker'[u].chunk \in {None, current[u]}
    <3> SUFFICES ASSUME NEW u \in Threads
                 PROVE  /\ maker'[u].pc \in {"idle", "swap"} => maker'[u].buffer = None
                        /\ maker'[u].pc \notin {"idle", "swap"} => maker'[u].buffer # None
                        /\ maker'[u].pc = "swap" => maker'[u].chunk # None
                        /\ maker'[u].pc # "swap" => maker'[u].chunk \in {None, current[u]}
      OBVIOUS
    <3>1. CASE u = t
      BY <1>3, <1>5, <3>1
    <3>2. CASE u # t
      <4>1. maker'[u] = maker[u]
        BY <1>3, <3>2
      <4>2. /\ maker[u].pc \in {"idle", "swap"} => maker[u].buffer = None
            /\ maker[u].pc \notin {"idle", "swap"} => maker[u].buffer # None
            /\ maker[u].pc = "swap" => maker[u].chunk # None
            /\ maker[u].pc # "swap" => maker[u].chunk \in {None, current[u]}
        BY <1>0 DEF ChunkInv, InvMaker
      <4> QED BY <4>1, <4>2
    <3> QED BY <3>1, <3>2
  <2> QED BY <1>0, <2>1 DEF InvMaker
<1>9. InvHolders'
  <2>1. \A u \in Threads : maker'[u].buffer = maker[u].buffer
    BY <1>0, <1>3 DEF ChunkInv, InvMaker
  <2> QED BY <1>0, <2>1 DEF ChunkInv, InvHolders
<1>10. InvCurrent'
  <2>1. \A u \in Threads : current[u] \in 0..made /\ made \in Nat /\ made' \in Nat
    BY <1>1, Typed DEF ChunkInv, InvCurrent, TypeOK
  <2>2. \A u \in Threads : current[u] \in 0..made'
    BY <1>5, <2>1
  <2> QED BY <1>0, <2>2 DEF ChunkInv, InvCurrent
<1>11. InvPopped'
  <2>1. \A u \in Threads, d \in Chunks : Popped(u, d) =>
          /\ d <= made' /\ d # c
          /\ \A v \in Threads : current[v] # d /\ (Popped(v, d) => v = u)
          /\ \A b \in Buffers : area[b].chunk # d
    <3>1. \A d \in Chunks : d \in Nat
      BY <1>1, Typed
    <3> QED BY <1>n, <1>5, <1>6, <3>1 DEF ChunkInv, InvPopped
  <2>2. \A u \in Threads, d \in Chunks : Popped(u, d)' =>
          /\ d <= made'
          /\ \A v \in Threads : current[v] # d /\ (Popped(v, d)' => v = u)
          /\ \A b \in Buffers : area[b].chunk # d
    <3> SUFFICES ASSUME NEW u \in Threads, NEW d \in Chunks, Popped(u, d)'
                 PROVE  /\ d <= made'
                        /\ \A v \in Threads : current[v] # d /\ (Popped(v, d)' => v = u)
                        /\ \A b \in Buffers : area[b].chunk # d
      OBVIOUS
    <3>1. CASE u = t
      BY <1>5, <1>6, <1>7, <3>1
    <3>2. CASE u # t
      BY <1>7, <2>1, <3>2
    <3> QED BY <3>1, <3>2
  <2> QED BY <1>0, <2>2 DEF InvPopped
<1>12. InvPool'
  <2>1. \A i \in DOMAIN pool :
          /\ pool[i] \in Chunks /\ pool[i] <= made'
          /\ \A u \in Threads : current[u] # pool[i] /\ ~ Popped(u, pool[i])
          /\ \A b \in Buffers : area[b].chunk # pool[i]
          /\ \A j \in DOMAIN pool : pool[i] = pool[j] => i = j
    <3>1. \A i \in DOMAIN pool : pool[i] \in Chunks /\ pool[i] \in Nat
      BY <1>1, Typed
    <3>2. \A i \in DOMAIN pool :
            /\ pool[i] <= made
            /\ \A u \in Threads : current[u] # pool[i] /\ ~ Popped(u, pool[i])
            /\ \A b \in Buffers : area[b].chunk # pool[i]
            /\ \A j \in DOMAIN pool : pool[i] = pool[j] => i = j
      BY DEF ChunkInv, InvPool
    <3> QED BY <1>n, <1>5, <3>1, <3>2
  <2>2. \A u \in Threads, i \in DOMAIN pool' :
          ~ (maker'[u].pc = "swap" /\ maker'[u].chunk = pool'[i])
    <3> SUFFICES ASSUME NEW u \in Threads, NEW i \in DOMAIN pool'
                 PROVE  ~ (maker'[u].pc = "swap" /\ maker'[u].chunk = pool'[i])
      OBVIOUS
    <3>1. CASE u = t
      BY <1>3, <1>6, <3>1
    <3>2. CASE u # t
      BY <1>3, <1>4, <2>1, <3>2 DEF Popped
    <3> QED BY <3>1, <3>2
  <2>3. \A i \in DOMAIN pool' : i \in DOMAIN pool /\ pool'[i] = pool[i]
    BY <1>4
  <2> QED BY <1>0, <2>1, <2>2, <2>3 DEF InvPool, Popped
<1>13. InvKept'
  <2> SUFFICES ASSUME NEW d \in 1..made'
               PROVE  \/ \E u \in Threads : current[u] = d \/ Popped(u, d)'
                      \/ \E b \in Buffers : area[b].chunk = d
                      \/ \E i \in DOMAIN pool' : pool'[i] = d
    BY <1>0 DEF InvKept
  <2>0. made \in Nat /\ made' \in Nat /\ d \in Chunks
    <3>1. made' \in 0..MaxChunks
      BY DEF TypeOK
    <3> QED BY <1>1, <3>1, Typed, Constants DEF Chunks
  <2>1. CASE d = c
    BY <1>7, <2>0, <2>1
  <2>2. CASE d # c
    <3>1. d \in 1..made
      <4>1. pool = <<>> => d # made + 1
        BY <2>2 DEF c
      <4> QED BY <1>2, <2>0, <4>1
    <3>2. CASE \E u \in Threads : current[u] = d \/ Popped(u, d)
      BY <1>7, <2>0, <3>2
    <3>3. CASE \E i \in DOMAIN pool : pool[i] = d
      <4>1. pool # <<>> => pool[Len(pool)] = c
        BY DEF c
      <4> QED BY <1>4, <2>2, <3>3, <4>1
    <3> QED BY <3>1, <3>2, <3>3 DEF ChunkInv, InvKept
  <2> QED BY <2>1, <2>2
<1>14. \A b \in Buffers : End(b)' = End(b) /\ Cells(b)' = Cells(b)
  BY <1>0 DEF End, Cells
<1>15. InvArea'
  <2>1. \A b \in Buffers : area[b].chunk <= made'
    <3>1. \A b \in Buffers : area[b].chunk \in Nat
      BY <1>1, Typed
    <3>2. \A b \in Buffers : area[b].chunk <= made
      BY DEF ChunkInv, InvArea
    <3> QED BY <1>n, <1>5, <3>1, <3>2
  <2> QED BY <1>0, <1>7, <1>14, <2>1 DEF ChunkInv, InvArea
<1>16. InvChunk'
  <2>1. \A u \in Threads : /\ maker'[u].pc = "write" <=> maker[u].pc = "write"
                           /\ maker'[u].pc = "write" => maker'[u].buffer = maker[u].buffer
    BY <1>0, <1>3
  <2> QED BY <1>0, <1>14, <2>1 DEF ChunkInv, InvChunk
<1>17. InvBytes'
  BY <1>0, <1>7, <1>14 DEF ChunkInv, InvBytes
<1> QED BY <1>8, <1>9, <1>10, <1>11, <1>12, <1>13, <1>15, <1>16, <1>17 DEF ChunkInv

\* What Open does to the chunk it is given: the assertions fail, or a new
\* buffer begins at the first free byte.
Refused(t, c, table, size) ==
  /\ crash' = TRUE /\ (table[c].open \/ table[c].used + size > ChunkSize)
  /\ chunks' = table /\ area' = area /\ holders' = holders
  /\ maker'[t].buffer = maker[t].buffer /\ maker'[t].chunk = maker[t].chunk

Opened(t, c, table, size) ==
  /\ crash' = crash /\ ~ table[c].open /\ table[c].used + size <= ChunkSize
  /\ opened' \in Buffers /\ opened' > opened
  /\ \A d \in Chunks : d # c => chunks'[d] = table[d]
  /\ chunks'[c].used = table[c].used /\ chunks'[c].open /\ chunks'[c].bytes = table[c].bytes
  /\ \A b \in Buffers : b # opened' => area'[b] = area[b] /\ holders'[b] = holders[b]
  /\ area'[opened'].chunk = c /\ area'[opened'].at = table[c].used
  /\ area'[opened'].size = size /\ holders'[opened'] = {t}
  /\ maker'[t].buffer = opened' /\ maker'[t].chunk = None

LEMMA OpenInFacts ==
  ASSUME TypeOK, NEW t \in Threads, NEW c \in Chunks, NEW size \in Nat,
         NEW table \in [Chunks -> ChunkType], OpenIn(t, c, table, size)
  PROVE  /\ \A u \in Threads : u # t => maker'[u] = maker[u]
         /\ maker'[t].pc = "write" /\ maker'[t].size = size
         /\ opened' = opened + 1 /\ opened' \in Nat
         /\ Refused(t, c, table, size) \/ Opened(t, c, table, size)
<1>1. opened' = opened + 1 /\ opened' \in Nat /\ opened' \in Buffers /\ opened' > opened
  <2>1. opened' = opened + 1 /\ opened < MaxBuffers
    BY DEF OpenIn
  <2> QED BY <2>1, Typed, Constants DEF Buffers
<1>2. table[c] \in ChunkType /\ maker[t] \in MakerType
  BY DEF TypeOK, MakerType
<1>a. table[c].used \in Nat
  BY <1>2 DEF ChunkType
<1>3. CASE size > ChunkSize \/ table[c].open \/ table[c].used + size > ChunkSize
  <2>1. /\ crash' = TRUE /\ chunks' = table /\ area' = area /\ holders' = holders
        /\ maker' = [maker EXCEPT ![t].pc = "write", ![t].size = size]
    BY <1>3 DEF OpenIn
  <2>2. maker'[t] = [maker[t] EXCEPT !.pc = "write", !.size = size]
    BY <2>1 DEF TypeOK
  <2>3. /\ maker'[t].pc = "write" /\ maker'[t].size = size
        /\ maker'[t].buffer = maker[t].buffer /\ maker'[t].chunk = maker[t].chunk
    BY <1>2, <2>2 DEF MakerType
  <2>4. \A u \in Threads : u # t => maker'[u] = maker[u]
    BY <2>1 DEF TypeOK
  <2>5. table[c].open \/ table[c].used + size > ChunkSize
    BY <1>3, <1>a, Constants
  <2> QED BY <1>1, <2>1, <2>3, <2>4, <2>5 DEF Refused
<1>4. CASE ~ (size > ChunkSize \/ table[c].open \/ table[c].used + size > ChunkSize)
  <2>1. /\ chunks' = [table EXCEPT ![c].open = TRUE] /\ crash' = crash
        /\ area' = [area EXCEPT ![opened'] = [chunk |-> c, at |-> table[c].used, size |-> size]]
        /\ holders' = [holders EXCEPT ![opened'] = {t}]
    BY <1>4 DEF OpenIn
  <2>2. PICK targets \in Targets : maker' = [maker EXCEPT ![t] =
               [NotMaking EXCEPT !.pc = "write", !.size = size, !.buffer = opened',
                                 !.targets = targets]]
    BY <1>4 DEF OpenIn
  <2>3. /\ maker'[t] = [NotMaking EXCEPT !.pc = "write", !.size = size, !.buffer = opened',
                                         !.targets = targets]
        /\ \A u \in Threads : u # t => maker'[u] = maker[u]
    BY <2>2 DEF TypeOK
  <2>4. /\ maker'[t].pc = "write" /\ maker'[t].size = size
        /\ maker'[t].buffer = opened' /\ maker'[t].chunk = None
    BY <2>3 DEF NotMaking
  <2>5. \A d \in Chunks : d # c => chunks'[d] = table[d]
    BY <2>1
  <2>6. chunks'[c].used = table[c].used /\ chunks'[c].open /\ chunks'[c].bytes = table[c].bytes
    <3>1. chunks'[c] = [table[c] EXCEPT !.open = TRUE]
      BY <2>1
    <3> QED BY <1>2, <3>1 DEF ChunkType
  <2>7. /\ \A b \in Buffers : b # opened' => area'[b] = area[b] /\ holders'[b] = holders[b]
        /\ area'[opened'] = [chunk |-> c, at |-> table[c].used, size |-> size]
        /\ holders'[opened'] = {t}
    BY <1>1, <2>1 DEF TypeOK
  <2>8. ~ table[c].open /\ table[c].used + size <= ChunkSize
    BY <1>4, <1>a, Constants
  <2> QED BY <1>1, <2>1, <2>3, <2>4, <2>5, <2>6, <2>7, <2>8 DEF Opened
<1> QED BY <1>3, <1>4

\* What holds of the chunk that Open is given: it is whole, closed, has room or
\* is empty, and nobody else's.
Ready(t, c, table, size) ==
  /\ current'[t] = c /\ c # None /\ c <= made
  /\ \A u \in Threads : u # t => current'[u] = current[u] /\ current[u] # c
  /\ \A d \in Chunks : d # c => table[d] = chunks[d]
  /\ table[c].bytes = chunks[c].bytes /\ table[c].used <= ChunkSize /\ ~ table[c].open
  /\ table[c].used = chunks[c].used \/ \A b \in Buffers : area[b].chunk # c
  /\ table[c].used + size > ChunkSize => size > ChunkSize
  /\ maker[t].pc \in {"idle", "swap"} /\ maker[t].chunk \in {None, c}

\* Opening keeps everything but who owns the chunks.
LEMMA OpenInStep ==
  ASSUME ChunkInv, TypeOK', ~ crash, made' = made,
         NEW t \in Threads, NEW c \in Chunks, NEW size \in Nat,
         NEW table \in [Chunks -> ChunkType],
         OpenIn(t, c, table, size), Ready(t, c, table, size)
  PROVE  /\ InvMaker' /\ InvHolders' /\ InvArea' /\ InvChunk' /\ InvBytes'
         /\ \A u \in Threads, d \in Chunks : Popped(u, d)' <=> u # t /\ Popped(u, d)
         /\ \A b \in Buffers : area[b].chunk # None => area'[b] = area[b]
         /\ \A b \in Buffers : area'[b].chunk \in {area[b].chunk, c}
<1>0. TypeOK
  BY DEF ChunkInv
<1>1. /\ \A u \in Threads : u # t => maker'[u] = maker[u]
      /\ maker'[t].pc = "write" /\ maker'[t].size = size
      /\ opened' = opened + 1 /\ opened' \in Nat /\ opened \in Nat
      /\ Refused(t, c, table, size) \/ Opened(t, c, table, size)
  BY <1>0, OpenInFacts, Typed
<1>2. /\ \A b \in Buffers : holders[b] = {} <=> area[b].chunk = None
      /\ \A b \in Buffers : b > opened => holders[b] = {}
      /\ \A b \in Buffers, u \in Threads : u \in holders[b] <=> maker[u].buffer = b
      /\ \A u, v \in Threads : maker[u].buffer = maker[v].buffer /\ maker[u].buffer # None => u = v
  BY DEF ChunkInv, InvHolders
<1>3. maker[t].buffer = None
  BY DEF ChunkInv, InvMaker, Ready
<1>4. \A b \in Buffers : b \in Nat /\ b # None
  BY <1>0, Typed
<1>5. \A u \in Threads, d \in Chunks : Popped(u, d)' <=> u # t /\ Popped(u, d)
  BY <1>1 DEF Popped
<1>6. CASE Refused(t, c, table, size)
  <2>1. /\ crash' = TRUE /\ size > ChunkSize
        /\ chunks' = table /\ area' = area /\ holders' = holders
        /\ maker'[t].buffer = None /\ maker'[t].chunk \in {None, c}
    BY <1>3, <1>6 DEF Refused, Ready
  <2>2. \A b \in Buffers : Writing(b)' <=> Writing(b)
    <3>1. \A u \in Threads, b \in Buffers :
            maker'[u].pc = "write" /\ maker'[u].buffer = b <=>
            maker[u].pc = "write" /\ maker[u].buffer = b
      BY <1>1, <1>3, <1>4, <2>1 DEF Ready
    <3> QED BY <3>1 DEF Writing
  <2>3. \A b \in Buffers : End(b)' = End(b) /\ Cells(b)' = Cells(b)
    BY <2>1 DEF End, Cells
  <2>4. InvMaker'
    <3>1. \A u \in Threads :
            /\ maker'[u].pc \in {"idle", "swap"} => maker'[u].buffer = None
            /\ maker'[u].pc = "swap" => maker'[u].chunk # None
            /\ maker'[u].pc # "swap" => maker'[u].chunk \in {None, current'[u]}
      <4> SUFFICES ASSUME NEW u \in Threads
                   PROVE  /\ maker'[u].pc \in {"idle", "swap"} => maker'[u].buffer = None
                          /\ maker'[u].pc = "swap" => maker'[u].chunk # None
                          /\ maker'[u].pc # "swap" => maker'[u].chunk \in {None, current'[u]}
        OBVIOUS
      <4>1. CASE u = t
        BY <1>1, <2>1, <4>1 DEF Ready
      <4>2. CASE u # t
        <5>1. maker'[u] = maker[u] /\ current'[u] = current[u]
          BY <1>1, <4>2 DEF Ready
        <5>2. /\ maker[u].pc \in {"idle", "swap"} => maker[u].buffer = None
              /\ maker[u].pc = "swap" => maker[u].chunk # None
              /\ maker[u].pc # "swap" => maker[u].chunk \in {None, current[u]}
          BY DEF ChunkInv, InvMaker
        <5> QED BY <5>1, <5>2
      <4> QED BY <4>1, <4>2
    <3> QED BY <1>1, <2>1, <3>1 DEF InvMaker
  <2>5. InvHolders'
    <3>1. \A u \in Threads : maker'[u].buffer = maker[u].buffer
      BY <1>1, <1>3, <2>1
    <3>2. \A b \in Buffers : b > opened' => b > opened
      BY <1>1, <1>4
    <3> QED BY <1>2, <2>1, <3>1, <3>2 DEF InvHolders
  <2>6. \A b \in Buffers : area[b].chunk # None =>
          /\ area[b].chunk \in Chunks
          /\ area[b].chunk = c => table[c].used = chunks[c].used
    BY <1>0, Typed DEF Ready
  <2>7. InvArea'
    <3>1. \A b \in Buffers : area[b].chunk # None =>
            table[area[b].chunk].used = chunks[area[b].chunk].used
      BY <2>6 DEF Ready
    <3> QED BY <2>1, <2>2, <2>3, <3>1 DEF ChunkInv, InvArea
  <2>8. InvBytes'
    <3>1. \A b \in Buffers : area[b].chunk # None =>
            table[area[b].chunk].bytes = chunks[area[b].chunk].bytes
      BY <2>6 DEF Ready
    <3> QED BY <2>1, <2>2, <2>3, <3>1 DEF ChunkInv, InvBytes
  <2>9. InvChunk'
    <3>1. \A d \in Chunks : table[d].used <= ChunkSize
      BY DEF Ready, ChunkInv, InvChunk
    <3>2. \A u \in Threads : u # t /\ current[u] # None => table[current[u]] = chunks[current[u]]
      BY <1>0, Typed DEF Ready
    <3>3. \A u \in Threads : maker'[u].pc # "write" /\ current'[u] # None => ~ table[current'[u]].open
      <4> SUFFICES ASSUME NEW u \in Threads, maker'[u].pc # "write", current'[u] # None
                   PROVE  ~ table[current'[u]].open
        OBVIOUS
      <4>1. u # t /\ maker'[u] = maker[u] /\ current'[u] = current[u]
        BY <1>1 DEF Ready
      <4>2. ~ chunks[current[u]].open
        BY <4>1 DEF ChunkInv, InvChunk
      <4> QED BY <3>2, <4>1, <4>2
    <3>4. \A u \in Threads, b \in Buffers : maker'[u].pc = "write" /\ maker'[u].buffer = b =>
            /\ area[b].chunk = current'[u] /\ table[current'[u]].open
            /\ area[b].at = table[current'[u]].used /\ End(b) <= ChunkSize
      <4> SUFFICES ASSUME NEW u \in Threads, NEW b \in Buffers,
                          maker'[u].pc = "write", maker'[u].buffer = b
                   PROVE  /\ area[b].chunk = current'[u] /\ table[current'[u]].open
                          /\ area[b].at = table[current'[u]].used /\ End(b) <= ChunkSize
        OBVIOUS
      <4>1. u # t
        BY <1>4, <2>1
      <4>2. maker'[u] = maker[u] /\ current'[u] = current[u]
        BY <1>1, <4>1 DEF Ready
      <4>3. /\ area[b].chunk = current[u] /\ chunks[current[u]].open
            /\ area[b].at = chunks[current[u]].used /\ End(b) <= ChunkSize
        BY <4>2 DEF ChunkInv, InvChunk
      <4>4. area[b].chunk # None
        <5>1. u \in holders[b]
          BY <1>2, <4>2
        <5> QED BY <1>2, <5>1
      <4> QED BY <3>2, <4>1, <4>2, <4>3, <4>4
    <3> QED BY <2>1, <2>3, <3>1, <3>3, <3>4 DEF InvChunk
  <2> QED BY <1>5, <2>1, <2>4, <2>5, <2>7, <2>8, <2>9
<1>7. CASE Opened(t, c, table, size)
  <2>0. PICK n \in Buffers : n = opened'
    BY <1>7 DEF Opened
  <2>1. /\ crash' = crash /\ ~ table[c].open /\ table[c].used + size <= ChunkSize
        /\ n \in Buffers /\ n > opened /\ n = opened + 1
        /\ \A d \in Chunks : d # c => chunks'[d] = chunks[d]
        /\ chunks'[c].used = table[c].used /\ chunks'[c].open
        /\ \A d \in Chunks : chunks'[d].bytes = chunks[d].bytes
        /\ \A b \in Buffers : b # n => area'[b] = area[b] /\ holders'[b] = holders[b]
        /\ area'[n].chunk = c /\ area'[n].at = table[c].used
        /\ area'[n].size = size /\ holders'[n] = {t}
        /\ maker'[t].buffer = n /\ maker'[t].chunk = None
    BY <1>1, <1>7, <2>0 DEF Opened, Ready
  <2>2. holders[n] = {} /\ area[n].chunk = None
    BY <1>2, <2>1
  <2>3. \A u \in Threads : maker[u].buffer # n
    BY <1>2, <2>1, <2>2
  <2>4. /\ Writing(n)'
        /\ \A b \in Buffers : b # n => (Writing(b)' <=> Writing(b))
    <3>1. \A u \in Threads, b \in Buffers : b # n =>
            (maker'[u].pc = "write" /\ maker'[u].buffer = b <=>
             maker[u].pc = "write" /\ maker[u].buffer = b)
      BY <1>1, <1>3, <1>4, <2>1 DEF Ready
    <3> QED BY <1>1, <2>1, <3>1 DEF Writing
  <2>5. /\ \A b \in Buffers : b # n => End(b)' = End(b) /\ Cells(b)' = Cells(b)
        /\ End(n)' = table[c].used + size
    BY <2>1 DEF End, Cells
  <2>6. \A b \in Buffers : area[b].chunk # None =>
          /\ b # n /\ area[b].chunk \in Chunks
          /\ chunks'[area[b].chunk].used = chunks[area[b].chunk].used
    BY <1>0, <2>1, <2>2, Typed DEF Ready
  <2>7. InvMaker'
    <3>1. \A u \in Threads :
            /\ maker'[u].pc \in {"idle", "swap"} => maker'[u].buffer = None
            /\ maker'[u].pc \notin {"idle", "swap"} => maker'[u].buffer # None
            /\ maker'[u].pc = "swap" => maker'[u].chunk # None
            /\ maker'[u].pc # "swap" => maker'[u].chunk \in {None, current'[u]}
      <4> SUFFICES ASSUME NEW u \in Threads
                   PROVE  /\ maker'[u].pc \in {"idle", "swap"} => maker'[u].buffer = None
                          /\ maker'[u].pc \notin {"idle", "swap"} => maker'[u].buffer # None
                          /\ maker'[u].pc = "swap" => maker'[u].chunk # None
                          /\ maker'[u].pc # "swap" => maker'[u].chunk \in {None, current'[u]}
        OBVIOUS
      <4>1. CASE u = t
        BY <1>1, <1>4, <2>1, <4>1
      <4>2. CASE u # t
        <5>1. maker'[u] = maker[u] /\ current'[u] = current[u]
          BY <1>1, <4>2 DEF Ready
        <5>2. /\ maker[u].pc \in {"idle", "swap"} => maker[u].buffer = None
              /\ maker[u].pc \notin {"idle", "swap"} => maker[u].buffer # None
              /\ maker[u].pc = "swap" => maker[u].chunk # None
              /\ maker[u].pc # "swap" => maker[u].chunk \in {None, current[u]}
          BY DEF ChunkInv, InvMaker
        <5> QED BY <5>1, <5>2
      <4> QED BY <4>1, <4>2
    <3> QED BY <2>1, <3>1 DEF InvMaker
  <2>8. InvHolders'
    <3>1. \A b \in Buffers : holders'[b] = {} <=> area'[b].chunk = None
      <4>1. area'[n].chunk # None /\ holders'[n] # {}
        BY <2>1 DEF Ready
      <4>2. \A b \in Buffers : b # n => area'[b] = area[b] /\ holders'[b] = holders[b]
        BY <2>1
      <4> QED BY <1>2, <4>1, <4>2
    <3>2. \A b \in Buffers : b > opened' => holders'[b] = {}
      <4>1. \A b \in Buffers : b > opened' => b > opened /\ b # n
        BY <1>1, <1>4, <2>0, <2>1
      <4> QED BY <1>2, <2>1, <4>1
    <3>3. \A b \in Buffers, u \in Threads : u \in holders'[b] <=> maker'[u].buffer = b
      <4> SUFFICES ASSUME NEW b \in Buffers, NEW u \in Threads
                   PROVE  u \in holders'[b] <=> maker'[u].buffer = b
        OBVIOUS
      <4>1. CASE b = n /\ u = t
        BY <2>1, <4>1
      <4>2. CASE b = n /\ u # t
        BY <1>1, <2>1, <2>3, <4>2
      <4>3. CASE b # n /\ u = t
        BY <1>2, <1>3, <1>4, <2>1, <4>3
      <4>4. CASE b # n /\ u # t
        BY <1>1, <1>2, <2>1, <4>4
      <4> QED BY <4>1, <4>2, <4>3, <4>4
    <3>4. \A u, v \in Threads :
            maker'[u].buffer = maker'[v].buffer /\ maker'[u].buffer # None => u = v
      BY <1>1, <1>2, <2>1, <2>3
    <3> QED BY <3>1, <3>2, <3>3, <3>4 DEF InvHolders
  <2>9. InvArea'
    <3>1. \A b \in Buffers : area'[b].chunk <= made'
      BY <2>1 DEF ChunkInv, InvArea, Ready
    <3>2. \A b \in Buffers : area'[b].chunk # None /\ ~ Writing(b)' =>
            End(b)' <= chunks'[area'[b].chunk].used
      <4> SUFFICES ASSUME NEW b \in Buffers, area'[b].chunk # None, ~ Writing(b)'
                   PROVE  End(b)' <= chunks'[area'[b].chunk].used
        OBVIOUS
      <4>1. b # n
        BY <2>4
      <4>2. area'[b] = area[b] /\ End(b)' = End(b) /\ ~ Writing(b)
        BY <2>1, <2>4, <2>5, <4>1
      <4>3. End(b) <= chunks[area[b].chunk].used
        BY <4>2 DEF ChunkInv, InvArea
      <4> QED BY <2>6, <4>2, <4>3
    <3>3. \A b \in Buffers : b # n /\ area[b].chunk = c => End(b) <= table[c].used
      <4> SUFFICES ASSUME NEW b \in Buffers, b # n, area[b].chunk = c
                   PROVE  End(b) <= table[c].used
        OBVIOUS
      <4>1. ~ Writing(b)
        <5> SUFFICES ASSUME NEW u \in Threads, maker[u].pc = "write", maker[u].buffer = b
                     PROVE  FALSE
          BY DEF Writing
        <5>1. current[u] = c
          BY DEF ChunkInv, InvChunk
        <5> QED BY <5>1 DEF Ready
      <4>2. End(b) <= chunks[c].used
        BY <4>1 DEF ChunkInv, InvArea, Ready
      <4>3. table[c].used = chunks[c].used
        BY DEF Ready
      <4> QED BY <4>2, <4>3
    <3>4. \A b, d \in Buffers : b # d /\ area'[b].chunk = area'[d].chunk /\ area'[b].chunk # None =>
            End(b)' <= area'[d].at \/ End(d)' <= area'[b].at
      <4> SUFFICES ASSUME NEW b \in Buffers, NEW d \in Buffers, b # d,
                          area'[b].chunk = area'[d].chunk, area'[b].chunk # None
                   PROVE  End(b)' <= area'[d].at \/ End(d)' <= area'[b].at
        OBVIOUS
      <4>1. CASE b = n
        BY <2>1, <2>5, <3>3, <4>1
      <4>2. CASE d = n
        BY <2>1, <2>5, <3>3, <4>2
      <4>3. CASE b # n /\ d # n
        BY <2>1, <2>5, <4>3 DEF ChunkInv, InvArea
      <4> QED BY <4>1, <4>2, <4>3
    <3> QED BY <3>1, <3>2, <3>4 DEF InvArea
  <2>10. InvBytes'
    <3> SUFFICES ASSUME NEW b \in Buffers, area'[b].chunk # None, ~ Writing(b)', NEW i \in Cells(b)'
                 PROVE  chunks'[area'[b].chunk].bytes[i] = b
      BY DEF InvBytes
    <3>1. b # n
      BY <2>4
    <3>2. area'[b] = area[b] /\ Cells(b)' = Cells(b) /\ ~ Writing(b)
      BY <2>1, <2>4, <2>5, <3>1
    <3>3. chunks[area[b].chunk].bytes[i] = b
      BY <3>2 DEF ChunkInv, InvBytes
    <3> QED BY <2>1, <2>6, <3>2, <3>3
  <2>11. InvChunk'
    <3>1. \A d \in Chunks : chunks'[d].used <= ChunkSize
      BY <2>1 DEF Ready, ChunkInv, InvChunk
    <3>2. \A u \in Threads : u # t /\ current[u] # None => chunks'[current[u]] = chunks[current[u]]
      BY <1>0, <2>1, Typed DEF Ready
    <3>3. \A u \in Threads : maker'[u].pc # "write" /\ current'[u] # None => ~ chunks'[current'[u]].open
      <4> SUFFICES ASSUME NEW u \in Threads, maker'[u].pc # "write", current'[u] # None
                   PROVE  ~ chunks'[current'[u]].open
        OBVIOUS
      <4>1. u # t /\ maker'[u] = maker[u] /\ current'[u] = current[u]
        BY <1>1 DEF Ready
      <4>2. ~ chunks[current[u]].open
        BY <4>1 DEF ChunkInv, InvChunk
      <4> QED BY <3>2, <4>1, <4>2
    <3>4. \A u \in Threads, b \in Buffers : maker'[u].pc = "write" /\ maker'[u].buffer = b =>
            /\ area'[b].chunk = current'[u] /\ chunks'[current'[u]].open
            /\ area'[b].at = chunks'[current'[u]].used /\ End(b)' <= ChunkSize
      <4> SUFFICES ASSUME NEW u \in Threads, NEW b \in Buffers,
                          maker'[u].pc = "write", maker'[u].buffer = b
                   PROVE  /\ area'[b].chunk = current'[u] /\ chunks'[current'[u]].open
                          /\ area'[b].at = chunks'[current'[u]].used /\ End(b)' <= ChunkSize
        OBVIOUS
      <4>1. CASE u = t
        <5>1. b = n /\ current'[u] = c
          BY <2>1, <4>1 DEF Ready
        <5> QED BY <2>1, <2>5, <5>1
      <4>2. CASE u # t
        <5>1. maker'[u] = maker[u] /\ current'[u] = current[u] /\ b # n
          BY <1>1, <2>3, <4>2 DEF Ready
        <5>2. /\ area[b].chunk = current[u] /\ chunks[current[u]].open
              /\ area[b].at = chunks[current[u]].used /\ End(b) <= ChunkSize
          BY <5>1 DEF ChunkInv, InvChunk
        <5>3. area[b].chunk # None
          <6>1. u \in holders[b]
            BY <1>2, <5>1
          <6> QED BY <1>2, <6>1
        <5> QED BY <2>1, <2>5, <3>2, <4>2, <5>1, <5>2, <5>3
      <4> QED BY <4>1, <4>2
    <3> QED BY <3>1, <3>3, <3>4 DEF InvChunk
  <2> QED BY <1>5, <2>1, <2>2, <2>7, <2>8, <2>9, <2>10, <2>11
<1> QED BY <1>1, <1>6, <1>7

\* Who has which chunk, after an Open in a chunk that is t's and may have been
\* popped by t before.
LEMMA OwnersAfterOpen ==
  ASSUME TypeOK, NEW t \in Threads, NEW c \in Chunks, made' = made,
         \A u \in Threads, d \in Chunks : Popped(u, d)' <=> u # t /\ Popped(u, d)
  PROVE  /\ \A u \in Threads, d \in Chunks :
              maker'[u].pc = "swap" /\ maker'[u].chunk = d <=> u # t /\ Popped(u, d)
         /\ \A d \in 1..made : d \in Chunks /\ d # None
<1>1. \A u \in Threads, d \in Chunks :
        maker'[u].pc = "swap" /\ maker'[u].chunk = d <=> u # t /\ Popped(u, d)
  BY DEF Popped
<1>2. \A d \in 1..made : d \in Nat
  OBVIOUS
<1> QED BY <1>1, <1>2, Typed

LEMMA OpenStep ==
  ASSUME ChunkInv, TypeOK', NEW t \in Threads, NEW size \in Sizes, Open(t, size)
  PROVE  ChunkInv'
<1> DEFINE c == current[t]
<1>0. /\ TypeOK /\ ~ crash /\ maker[t].pc = "idle" /\ made' = made
      /\ current' = current /\ pool' = pool
      /\ c # None /\ ChunkSize - chunks[c].used >= size
  BY DEF ChunkInv, Open, At, HasRoom, ChunkFree
<1>1. c \in Chunks /\ size \in Nat /\ chunks[c].used \in Nat
  BY <1>0, Typed, Constants
<1>2. chunks \in [Chunks -> ChunkType] /\ OpenIn(t, c, chunks, size)
  BY <1>0 DEF TypeOK, ChunkType, Open
<1>3. Ready(t, c, chunks, size)
  <2>1. c <= made /\ \A u \in Threads : u # t => current[u] # c
    <3>1. c \in 0..made
      BY DEF ChunkInv, InvCurrent
    <3>2. \A u \in Threads : u # t => current[u] # c
      BY <1>0 DEF ChunkInv, InvCurrent
    <3> QED BY <3>1, <3>2
  <2>2. maker[t].chunk \in {None, c}
    BY <1>0 DEF ChunkInv, InvMaker
  <2>3. chunks[c].used <= ChunkSize /\ ~ chunks[c].open
    BY <1>0, <1>1 DEF ChunkInv, InvChunk
  <2>4. chunks[c].used + size > ChunkSize => size > ChunkSize
    BY <1>0, <1>1, Constants
  <2> HIDE DEF c
  <2> QED BY <1>0, <2>1, <2>2, <2>3, <2>4 DEF Ready, c
<1> HIDE DEF c
<1>4. /\ InvMaker' /\ InvHolders' /\ InvArea' /\ InvChunk' /\ InvBytes'
      /\ \A u \in Threads, d \in Chunks : Popped(u, d)' <=> u # t /\ Popped(u, d)
      /\ \A b \in Buffers : area[b].chunk # None => area'[b] = area[b]
      /\ \A b \in Buffers : area'[b].chunk \in {area[b].chunk, c}
  BY <1>0, <1>1, <1>2, <1>3, OpenInStep
<1>5. /\ \A u \in Threads, d \in Chunks :
           maker'[u].pc = "swap" /\ maker'[u].chunk = d <=> u # t /\ Popped(u, d)
      /\ \A d \in 1..made : d \in Chunks /\ d # None
  BY <1>0, <1>1, <1>4, OwnersAfterOpen
<1>6. \A d \in Chunks : ~ Popped(t, d)
  BY <1>0 DEF Popped
<1>7. InvCurrent'
  BY <1>0 DEF ChunkInv, InvCurrent
<1>8. InvPopped'
  <2>1. \A d \in Chunks, u \in Threads : Popped(u, d) =>
          /\ d <= made /\ d # c
          /\ \A v \in Threads : current[v] # d /\ (Popped(v, d) => v = u)
          /\ \A b \in Buffers : area[b].chunk # d
    BY DEF ChunkInv, InvPopped, c
  <2> QED BY <1>0, <1>4, <2>1 DEF InvPopped
<1>9. InvPool'
  <2>1. \A i \in DOMAIN pool :
          /\ pool[i] \in Chunks /\ pool[i] <= made /\ pool[i] # c
          /\ \A u \in Threads : current[u] # pool[i] /\ ~ Popped(u, pool[i])
          /\ \A b \in Buffers : area[b].chunk # pool[i]
          /\ \A j \in DOMAIN pool : pool[i] = pool[j] => i = j
    <3>1. \A i \in DOMAIN pool : pool[i] \in Chunks
      BY <1>0, Typed
    <3> QED BY <3>1 DEF ChunkInv, InvPool, c
  <2>2. \A u \in Threads, i \in DOMAIN pool :
          ~ (maker'[u].pc = "swap" /\ maker'[u].chunk = pool[i])
    BY <1>5, <2>1
  <2>3. \A b \in Buffers, i \in DOMAIN pool : area'[b].chunk # pool[i]
    BY <1>4, <2>1
  <2> QED BY <1>0, <2>1, <2>2, <2>3 DEF InvPool, Popped
<1>10. InvKept'
  <2> SUFFICES ASSUME NEW d \in 1..made
               PROVE  \/ \E u \in Threads : current[u] = d \/ Popped(u, d)'
                      \/ \E b \in Buffers : area'[b].chunk = d
                      \/ \E i \in DOMAIN pool : pool[i] = d
    BY <1>0 DEF InvKept
  <2>1. \/ \E u \in Threads : current[u] = d \/ Popped(u, d)
        \/ \E b \in Buffers : area[b].chunk = d
        \/ \E i \in DOMAIN pool : pool[i] = d
    BY DEF ChunkInv, InvKept
  <2>2. d \in Chunks /\ d # None
    BY <1>5
  <2>3. \A u \in Threads : Popped(u, d) => Popped(u, d)'
    BY <1>4, <1>6, <2>2
  <2> QED BY <1>4, <2>1, <2>2, <2>3
<1> QED BY <1>4, <1>7, <1>8, <1>9, <1>10 DEF ChunkInv

\* The chunk a thread gives up for another goes to the pool or stays with the
\* buffers that lie in it.
LEMMA SwapChunkStep ==
  ASSUME ChunkInv, TypeOK', NEW t \in Threads, SwapChunk(t) PROVE ChunkInv'
<1> DEFINE c == maker[t].chunk
           old == current[t]
           size == maker[t].size
           last == old # None /\ LiveIn(old) = {}
<1>0. /\ TypeOK /\ ~ crash /\ maker[t].pc = "swap" /\ made' = made
      /\ current' = [current EXCEPT ![t] = c]
      /\ pool' = IF last THEN Append(pool, old) ELSE pool
      /\ OpenIn(t, c, Reset(c), size)
  BY DEF ChunkInv, SwapChunk, At
<1>1. c \in Chunks /\ c # None /\ size \in Nat /\ Popped(t, c)
  <2>1. c # None
    BY <1>0 DEF ChunkInv, InvMaker
  <2> QED BY <1>0, <2>1, Typed DEF Popped
<1>2. /\ c <= made /\ \A u \in Threads : current[u] # c /\ (Popped(u, c) => u = t)
      /\ \A b \in Buffers : area[b].chunk # c
      /\ \A d \in Chunks : Popped(t, d) => d = c
  BY <1>1 DEF ChunkInv, InvPopped, Popped
<1>3. /\ current'[t] = c
      /\ \A u \in Threads : u # t => current'[u] = current[u]
  BY <1>0 DEF TypeOK
<1>4. /\ Reset(c) \in [Chunks -> ChunkType]
      /\ \A d \in Chunks : d # c => Reset(c)[d] = chunks[d]
      /\ Reset(c)[c].used = 0 /\ ~ Reset(c)[c].open /\ Reset(c)[c].bytes = chunks[c].bytes
  <2>1. chunks \in [Chunks -> ChunkType]
    BY <1>0 DEF TypeOK, ChunkType
  <2>2. [chunks[c] EXCEPT !.open = FALSE, !.used = 0] \in ChunkType
    BY <1>1, <2>1 DEF ChunkType
  <2>3. Reset(c) = [chunks EXCEPT ![c] = [chunks[c] EXCEPT !.open = FALSE, !.used = 0]]
    BY <2>1 DEF Reset, ChunkType
  <2>4. Reset(c)[c] = [chunks[c] EXCEPT !.open = FALSE, !.used = 0]
    BY <1>1, <2>1, <2>3
  <2>5. chunks[c] \in ChunkType
    BY <1>1, <2>1
  <2>6. Reset(c)[c].used = 0 /\ ~ Reset(c)[c].open /\ Reset(c)[c].bytes = chunks[c].bytes
    BY <2>4, <2>5 DEF ChunkType
  <2> HIDE DEF c
  <2> QED BY <1>1, <2>1, <2>2, <2>3, <2>6
<1> HIDE DEF c, size
<1>5. Ready(t, c, Reset(c), size)
  <2>1. 0 <= ChunkSize /\ (0 + size > ChunkSize => size > ChunkSize)
    BY <1>1, Constants
  <2> QED BY <1>0, <1>1, <1>2, <1>3, <1>4, <2>1 DEF Ready, c
<1>6. /\ InvMaker' /\ InvHolders' /\ InvArea' /\ InvChunk' /\ InvBytes'
      /\ \A u \in Threads, d \in Chunks : Popped(u, d)' <=> u # t /\ Popped(u, d)
      /\ \A b \in Buffers : area[b].chunk # None => area'[b] = area[b]
      /\ \A b \in Buffers : area'[b].chunk \in {area[b].chunk, c}
  BY <1>0, <1>1, <1>4, <1>5, OpenInStep
<1>7. /\ \A u \in Threads, d \in Chunks :
           maker'[u].pc = "swap" /\ maker'[u].chunk = d <=> u # t /\ Popped(u, d)
      /\ \A d \in 1..made : d \in Chunks /\ d # None
  BY <1>0, <1>1, <1>6, OwnersAfterOpen
<1>8. InvCurrent'
  <2>1. c \in 0..made
    BY <1>0, <1>1, <1>2, Typed
  <2>2. \A u \in Threads : current'[u] \in 0..made
    BY <1>3, <2>1 DEF ChunkInv, InvCurrent
  <2>3. \A u, v \in Threads : current'[u] = current'[v] /\ current'[u] # None => u = v
    BY <1>2, <1>3 DEF ChunkInv, InvCurrent
  <2> QED BY <1>0, <2>2, <2>3 DEF InvCurrent
<1>9. InvPopped'
  <2>1. \A d \in Chunks, u \in Threads : Popped(u, d) =>
          /\ d <= made
          /\ \A v \in Threads : current[v] # d /\ (Popped(v, d) => v = u)
          /\ \A b \in Buffers : area[b].chunk # d
    BY DEF ChunkInv, InvPopped
  <2>2. \A d \in Chunks, u \in Threads : u # t /\ Popped(u, d) =>
          d # c /\ \A v \in Threads : current'[v] # d
    BY <1>2, <1>3, <2>1
  <2>3. \A d \in Chunks, u \in Threads : u # t /\ Popped(u, d) =>
          \A b \in Buffers : area'[b].chunk # d
    BY <1>6, <2>1, <2>2
  <2> QED BY <1>0, <1>6, <2>1, <2>2, <2>3 DEF InvPopped
<1>10. \A i \in DOMAIN pool :
        /\ pool[i] \in Chunks /\ pool[i] <= made /\ pool[i] # c /\ pool[i] # old
        /\ \A u \in Threads : current[u] # pool[i] /\ ~ Popped(u, pool[i])
        /\ \A b \in Buffers : area[b].chunk # pool[i]
        /\ \A j \in DOMAIN pool : pool[i] = pool[j] => i = j
  <2>1. \A i \in DOMAIN pool : pool[i] \in Chunks
    BY <1>0, Typed
  <2> QED BY <1>1, <2>1 DEF ChunkInv, InvPool
<1>11. old # None => old \in Chunks /\ old <= made /\ old # c
  BY <1>0, <1>2, Typed DEF ChunkInv, InvCurrent
<1>12. last => \A b \in Buffers : area[b].chunk # old
  BY DEF LiveIn, ChunkInv, InvHolders
<1>13. /\ DOMAIN pool = 1..Len(pool) /\ Len(pool) \in Nat
       /\ \A i \in DOMAIN pool : i \in DOMAIN pool' /\ pool'[i] = pool[i]
       /\ ~ last => pool' = pool
       /\ last => DOMAIN pool' = 1..(Len(pool) + 1) /\ pool'[Len(pool) + 1] = old
  <2>1. CASE last
    <3>1. pool' = Append(pool, old) /\ old \in Chunks /\ pool \in Seq(Chunks)
      BY <1>0, <1>11, <2>1, Typed
    <3>2. /\ DOMAIN pool = 1..Len(pool) /\ Len(pool) \in Nat
          /\ DOMAIN pool' = 1..(Len(pool) + 1) /\ pool'[Len(pool) + 1] = old
          /\ \A i \in DOMAIN pool : pool'[i] = pool[i]
      BY <3>1, AppendFacts
    <3>3. \A n \in Nat : \A i \in 1..n : i \in 1..(n + 1)
      OBVIOUS
    <3> HIDE DEF last, old
    <3> QED BY <2>1, <3>2, <3>3
  <2>2. CASE ~ last
    BY <1>0, <2>2, Typed
  <2> QED BY <2>1, <2>2
<1> HIDE DEF last, old
<1>14. InvPool'
  <2>1. \A u \in Threads, i \in DOMAIN pool :
          /\ current'[u] # pool[i]
          /\ ~ (maker'[u].pc = "swap" /\ maker'[u].chunk = pool[i])
    BY <1>3, <1>7, <1>10
  <2>2. \A b \in Buffers, i \in DOMAIN pool : area'[b].chunk # pool[i]
    BY <1>6, <1>10
  <2>3. CASE last
    <3>1. old # None /\ \A b \in Buffers : area'[b].chunk # old
      BY <1>6, <1>11, <1>12, <2>3 DEF last
    <3>2. \A u \in Threads : /\ current'[u] # old
                             /\ ~ (maker'[u].pc = "swap" /\ maker'[u].chunk = old)
      <4>1. \A u \in Threads : ~ Popped(u, old)
        BY <1>11, <3>1 DEF ChunkInv, InvPopped, old
      <4>2. \A u \in Threads : u # t => current[u] # old
        BY <3>1 DEF ChunkInv, InvCurrent, old
      <4> QED BY <1>3, <1>7, <1>11, <3>1, <4>1, <4>2
    <3>3. \A i \in DOMAIN pool' : i \in DOMAIN pool \/ i = Len(pool) + 1
      BY <1>13, <2>3
    <3> SUFFICES ASSUME NEW i \in DOMAIN pool'
                 PROVE  /\ pool'[i] <= made'
                        /\ \A u \in Threads :
                             /\ current'[u] # pool'[i]
                             /\ ~ (maker'[u].pc = "swap" /\ maker'[u].chunk = pool'[i])
                        /\ \A b \in Buffers : area'[b].chunk # pool'[i]
                        /\ \A j \in DOMAIN pool' : pool'[i] = pool'[j] => i = j
      BY DEF InvPool, Popped
    <3>4. CASE i \in DOMAIN pool
      <4>1. pool'[i] = pool[i]
        BY <1>13, <3>4
      <4>2. \A j \in DOMAIN pool' : pool'[i] = pool'[j] => i = j
        BY <1>10, <1>13, <2>3, <3>3, <3>4
      <4> QED BY <1>0, <1>10, <2>1, <2>2, <3>4, <4>1, <4>2
    <3>5. CASE i = Len(pool) + 1
      <4>1. pool'[i] = old
        BY <1>13, <2>3, <3>5
      <4>2. \A j \in DOMAIN pool' : pool'[i] = pool'[j] => i = j
        BY <1>10, <1>13, <2>3, <3>3, <3>5, <4>1
      <4> QED BY <1>0, <1>11, <3>1, <3>2, <4>1, <4>2
    <3> QED BY <3>3, <3>4, <3>5
  <2>4. CASE ~ last
    <3>1. pool' = pool
      BY <1>13, <2>4
    <3> QED BY <1>0, <1>10, <2>1, <2>2, <3>1 DEF InvPool, Popped
  <2> QED BY <2>3, <2>4
<1>15. InvKept'
  <2> SUFFICES ASSUME NEW d \in 1..made
               PROVE  \/ \E u \in Threads : current'[u] = d \/ Popped(u, d)'
                      \/ \E b \in Buffers : area'[b].chunk = d
                      \/ \E i \in DOMAIN pool' : pool'[i] = d
    BY <1>0 DEF InvKept
  <2>1. d \in Chunks /\ d # None
    BY <1>7
  <2>2. CASE d = c
    BY <1>3, <2>2
  <2>3. CASE \E u \in Threads : Popped(u, d)
    <3>1. d # c => \E u \in Threads : u # t /\ Popped(u, d)
      BY <1>2, <2>1, <2>3
    <3> QED BY <1>6, <2>1, <2>2, <3>1
  <2>4. CASE \E u \in Threads : u # t /\ current[u] = d
    BY <1>3, <2>4
  <2>5. CASE d = old
    <3>1. CASE last
      <4>1. Len(pool) + 1 \in DOMAIN pool' /\ pool'[Len(pool) + 1] = old
        BY <1>13, <3>1
      <4> QED BY <2>5, <4>1
    <3>2. CASE ~ last
      <4>1. LiveIn(old) # {}
        BY <2>1, <2>5, <3>2 DEF last
      <4>2. \E b \in Buffers : area[b].chunk = d
        BY <2>5, <4>1 DEF LiveIn
      <4> QED BY <1>6, <2>1, <4>2
    <3> QED BY <3>1, <3>2
  <2>6. CASE \E b \in Buffers : area[b].chunk = d
    BY <1>6, <2>1, <2>6
  <2>7. CASE \E i \in DOMAIN pool : pool[i] = d
    BY <1>13, <2>7
  <2>8. \/ \E u \in Threads : current[u] = d \/ Popped(u, d)
        \/ \E b \in Buffers : area[b].chunk = d
        \/ \E i \in DOMAIN pool : pool[i] = d
    BY DEF ChunkInv, InvKept
  <2> QED BY <2>3, <2>4, <2>5, <2>6, <2>7, <2>8 DEF old
<1> QED BY <1>6, <1>8, <1>9, <1>14, <1>15 DEF ChunkInv

\* The bytes of a buffer are written where no other lies, and are counted.
LEMMA WriteStep ==
  ASSUME ChunkInv, TypeOK', NEW t \in Threads, Write(t) PROVE ChunkInv'
<1> DEFINE b == maker[t].buffer
           c == area[b].chunk
<1>0. /\ TypeOK /\ ~ crash /\ maker[t].pc = "write" /\ made' = made /\ pool' = pool
      /\ current' = current /\ opened' = opened /\ area' = area /\ holders' = holders
      /\ crash' = ~ chunks[c].open
      /\ maker' = [maker EXCEPT ![t].pc = "send"]
  BY DEF ChunkInv, Write, At, Goto
<1>1. b \in Buffers /\ c \in Chunks /\ c # None
  BY <1>0, Making
<1>2. /\ c = current[t] /\ chunks[c].open
      /\ area[b].at = chunks[c].used /\ End(b) <= ChunkSize
  BY <1>0, <1>1 DEF ChunkInv, InvChunk
<1>3. /\ \A d \in Chunks : d # c => chunks'[d] = chunks[d]
      /\ ~ chunks'[c].open /\ chunks'[c].used = End(b)
      /\ chunks'[c].bytes =
           [i \in 1..ChunkSize |-> IF i \in Cells(b) THEN b ELSE chunks[c].bytes[i]]
  <2> DEFINE bytes == [i \in 1..ChunkSize |-> IF i \in Cells(b) THEN b ELSE chunks[c].bytes[i]]
  <2>1. chunks' = [chunks EXCEPT ![c] =
          [open |-> FALSE, used |-> chunks[c].used + area[b].size, bytes |-> bytes]]
    BY <1>0 DEF Write, TypeOK
  <2>2. chunks'[c] = [open |-> FALSE, used |-> chunks[c].used + area[b].size, bytes |-> bytes]
    BY <1>0, <1>1, <2>1 DEF TypeOK
  <2>3. \A d \in Chunks : d # c => chunks'[d] = chunks[d]
    BY <1>0, <2>1 DEF TypeOK
  <2>4. chunks[c].used + area[b].size = End(b)
    BY <1>2 DEF End
  <2> HIDE DEF bytes
  <2>5. ~ chunks'[c].open /\ chunks'[c].used = End(b) /\ chunks'[c].bytes = bytes
    BY <2>2, <2>4
  <2> QED BY <2>3, <2>5 DEF bytes
<1>4. /\ \A u \in Threads : u # t => maker'[u] = maker[u]
      /\ maker'[t].pc = "send"
      /\ \A u \in Threads : maker'[u].buffer = maker[u].buffer /\ maker'[u].chunk = maker[u].chunk
  <2>1. maker'[t] = [maker[t] EXCEPT !.pc = "send"] /\ maker[t] \in MakerType
    BY <1>0 DEF TypeOK, MakerType
  <2>2. \A u \in Threads : u # t => maker'[u] = maker[u]
    BY <1>0 DEF TypeOK
  <2>3. maker'[t].pc = "send" /\ maker'[t].buffer = maker[t].buffer /\ maker'[t].chunk = maker[t].chunk
    BY <2>1 DEF MakerType
  <2> QED BY <2>2, <2>3
<1>5. \A u \in Threads, d \in Chunks : Popped(u, d)' <=> Popped(u, d)
  BY <1>0, <1>4 DEF Popped
<1>6. ~ crash'
  BY <1>0, <1>2
<1> HIDE DEF c
<1>7. /\ \A x \in Buffers : x # b => (Writing(x)' <=> Writing(x))
      /\ Writing(b)
  <2>1. \A u \in Threads, x \in Buffers : x # b =>
          (maker'[u].pc = "write" /\ maker'[u].buffer = x <=>
           maker[u].pc = "write" /\ maker[u].buffer = x)
    <3> SUFFICES ASSUME NEW u \in Threads, NEW x \in Buffers, x # b
                 PROVE  maker'[u].pc = "write" /\ maker'[u].buffer = x <=>
                        maker[u].pc = "write" /\ maker[u].buffer = x
      OBVIOUS
    <3>1. CASE u = t
      BY <1>4, <3>1
    <3>2. CASE u # t
      BY <1>4, <3>2
    <3> QED BY <3>1, <3>2
  <2> QED BY <1>0, <2>1 DEF Writing
<1>8. \A x \in Buffers : End(x)' = End(x) /\ Cells(x)' = Cells(x)
  BY <1>0 DEF End, Cells
<1> HIDE DEF b
<1>9. \A x \in Buffers : x # b /\ area[x].chunk = c => ~ Writing(x)
  <2> SUFFICES ASSUME NEW x \in Buffers, x # b, area[x].chunk = c,
                      NEW u \in Threads, maker[u].pc = "write", maker[u].buffer = x
               PROVE  FALSE
    BY DEF Writing
  <2>1. current[u] = c
    BY DEF ChunkInv, InvChunk
  <2>2. u = t
    BY <1>1, <1>2, <2>1 DEF ChunkInv, InvCurrent
  <2> QED BY <2>2 DEF b
<1>10. \A x \in Buffers : /\ End(x) \in Nat /\ area[x].at \in Nat /\ area[x].size \in Nat
                          /\ End(x) = area[x].at + area[x].size
                          /\ area[x].chunk # None => area[x].chunk \in Chunks
  BY <1>0, Typed
<1>11. \A d \in Chunks : chunks[d].used \in Nat
  BY <1>0, Typed
<1>12. InvMaker'
  <2>1. \A u \in Threads :
          /\ maker'[u].pc \in {"idle", "swap"} => maker'[u].buffer = None
          /\ maker'[u].pc \notin {"idle", "swap"} => maker'[u].buffer # None
          /\ maker'[u].pc = "swap" => maker'[u].chunk # None
          /\ maker'[u].pc # "swap" => maker'[u].chunk \in {None, current[u]}
    <3> SUFFICES ASSUME NEW u \in Threads
                 PROVE  /\ maker'[u].pc \in {"idle", "swap"} => maker'[u].buffer = None
                        /\ maker'[u].pc \notin {"idle", "swap"} => maker'[u].buffer # None
                        /\ maker'[u].pc = "swap" => maker'[u].chunk # None
                        /\ maker'[u].pc # "swap" => maker'[u].chunk \in {None, current[u]}
      OBVIOUS
    <3>0. /\ maker[u].pc \in {"idle", "swap"} => maker[u].buffer = None
          /\ maker[u].pc \notin {"idle", "swap"} => maker[u].buffer # None
          /\ maker[u].pc = "swap" => maker[u].chunk # None
          /\ maker[u].pc # "swap" => maker[u].chunk \in {None, current[u]}
      BY <1>0 DEF ChunkInv, InvMaker
    <3>1. CASE u = t
      BY <1>0, <1>4, <3>0, <3>1
    <3>2. CASE u # t
      <4>1. maker'[u] = maker[u]
        BY <1>4, <3>2
      <4> QED BY <3>0, <4>1
    <3> QED BY <3>1, <3>2
  <2> QED BY <1>0, <1>6, <2>1 DEF InvMaker
<1>13. InvHolders'
  BY <1>0, <1>4 DEF ChunkInv, InvHolders
<1>14. InvCurrent'
  BY <1>0 DEF ChunkInv, InvCurrent
<1>15. InvPopped'
  BY <1>0, <1>5 DEF ChunkInv, InvPopped
<1>16. InvPool'
  <2>1. \A i \in DOMAIN pool : pool[i] \in Chunks
    BY <1>0, Typed
  <2>2. \A i \in DOMAIN pool, u \in Threads :
          ~ (maker'[u].pc = "swap" /\ maker'[u].chunk = pool[i])
    <3>1. \A u \in Threads, d \in Chunks :
            maker'[u].pc = "swap" /\ maker'[u].chunk = d => Popped(u, d)
      BY <1>5 DEF Popped
    <3> QED BY <2>1, <3>1 DEF ChunkInv, InvPool
  <2> QED BY <1>0, <2>2 DEF ChunkInv, InvPool, Popped
<1>17. InvKept'
  <2>1. \A d \in 1..made : d \in Nat
    OBVIOUS
  <2>2. \A d \in 1..made : d \in Chunks
    BY <1>0, <2>1, Typed
  <2> QED BY <1>0, <1>5, <2>2 DEF ChunkInv, InvKept
<1>18. InvArea'
  <2>1. \A x \in Buffers : area[x].chunk # None /\ ~ Writing(x)' =>
          End(x) <= chunks'[area[x].chunk].used
    <3> SUFFICES ASSUME NEW x \in Buffers, area[x].chunk # None, ~ Writing(x)'
                 PROVE  End(x) <= chunks'[area[x].chunk].used
      OBVIOUS
    <3>1. CASE x = b
      BY <1>3, <1>10, <3>1 DEF c
    <3>2. CASE x # b /\ area[x].chunk = c
      <4>1. End(x) <= chunks[c].used
        BY <1>9, <3>2 DEF ChunkInv, InvArea
      <4>2. chunks[c].used <= End(b)
        BY <1>1, <1>2, <1>10
      <4> QED BY <1>1, <1>3, <1>10, <1>11, <3>2, <4>1, <4>2
    <3>3. CASE x # b /\ area[x].chunk # c
      <4>1. End(x) <= chunks[area[x].chunk].used
        BY <1>7, <3>3 DEF ChunkInv, InvArea
      <4> QED BY <1>3, <1>10, <3>3, <4>1
    <3> QED BY <3>1, <3>2, <3>3
  <2> QED BY <1>0, <1>8, <2>1 DEF ChunkInv, InvArea
<1>19. InvChunk'
  <2>1. \A d \in Chunks : chunks'[d].used <= ChunkSize
    BY <1>2, <1>3 DEF ChunkInv, InvChunk
  <2>2. \A u \in Threads : u # t /\ current[u] # None =>
          current[u] \in Chunks /\ current[u] # c
    BY <1>0, <1>1, <1>2, Typed DEF ChunkInv, InvCurrent
  <2>3. \A u \in Threads : maker'[u].pc # "write" /\ current[u] # None => ~ chunks'[current[u]].open
    <3> SUFFICES ASSUME NEW u \in Threads, maker'[u].pc # "write", current[u] # None
                 PROVE  ~ chunks'[current[u]].open
      OBVIOUS
    <3>1. CASE u = t
      BY <1>2, <1>3, <3>1
    <3>2. CASE u # t
      <4>1. maker[u].pc # "write"
        BY <1>4, <3>2
      <4>2. ~ chunks[current[u]].open
        BY <4>1 DEF ChunkInv, InvChunk
      <4> QED BY <1>3, <2>2, <3>2, <4>2
    <3> QED BY <3>1, <3>2
  <2>4. \A u \in Threads, x \in Buffers : maker'[u].pc = "write" /\ maker'[u].buffer = x =>
          /\ area[x].chunk = current[u] /\ chunks'[current[u]].open
          /\ area[x].at = chunks'[current[u]].used /\ End(x) <= ChunkSize
    <3> SUFFICES ASSUME NEW u \in Threads, NEW x \in Buffers,
                        maker'[u].pc = "write", maker'[u].buffer = x
                 PROVE  /\ area[x].chunk = current[u] /\ chunks'[current[u]].open
                        /\ area[x].at = chunks'[current[u]].used /\ End(x) <= ChunkSize
      OBVIOUS
    <3>1. u # t /\ maker'[u] = maker[u]
      BY <1>4
    <3>2. /\ area[x].chunk = current[u] /\ chunks[current[u]].open
          /\ area[x].at = chunks[current[u]].used /\ End(x) <= ChunkSize
      BY <3>1 DEF ChunkInv, InvChunk
    <3>3. current[u] # None
      <4>1. u \in holders[x]
        BY <3>1 DEF ChunkInv, InvHolders
      <4>2. area[x].chunk # None
        BY <4>1 DEF ChunkInv, InvHolders
      <4> QED BY <3>2, <4>2
    <3> QED BY <1>3, <2>2, <3>1, <3>2, <3>3
  <2> QED BY <1>0, <1>8, <2>1, <2>3, <2>4 DEF InvChunk
<1>20. InvBytes'
  <2> SUFFICES ASSUME NEW x \in Buffers, area[x].chunk # None, ~ Writing(x)', NEW i \in Cells(x)
               PROVE  chunks'[area[x].chunk].bytes[i] = x
    BY <1>0, <1>8 DEF InvBytes
  <2>1. CASE x = b
    <3>1. i \in 1..ChunkSize
      <4>1. i \in area[b].at + 1 .. End(b)
        BY <2>1 DEF Cells, End
      <4>2. area[b].at \in Nat /\ End(b) \in Nat /\ End(b) <= ChunkSize /\ ChunkSize \in Nat
        BY <1>1, <1>2, <1>10, Constants
      <4> QED BY <4>1, <4>2
    <3> QED BY <1>3, <2>1, <3>1 DEF c
  <2>2. CASE x # b /\ area[x].chunk = c
    <3>1. ~ Writing(x) /\ chunks[c].bytes[i] = x
      BY <1>9, <2>2 DEF ChunkInv, InvBytes
    <3>2. End(x) <= chunks[c].used
      BY <2>2, <3>1 DEF ChunkInv, InvArea
    <3>3. i \in area[x].at + 1 .. End(x)
      BY DEF Cells, End
    <3>4. i \in 1..ChunkSize /\ i \notin Cells(b)
      <4>1. chunks[c].used <= ChunkSize
        BY <1>1 DEF ChunkInv, InvChunk
      <4>2. Cells(b) = chunks[c].used + 1 .. End(b)
        BY <1>2 DEF Cells, End
      <4> QED BY <1>1, <1>10, <1>11, <3>2, <3>3, <4>1, <4>2, Constants
    <3> QED BY <1>3, <2>2, <3>1, <3>4
  <2>3. CASE x # b /\ area[x].chunk # c
    <3>1. chunks[area[x].chunk].bytes[i] = x
      BY <1>7, <2>3 DEF ChunkInv, InvBytes
    <3> QED BY <1>3, <1>10, <2>3, <3>1
  <2> QED BY <2>1, <2>2, <2>3
<1> QED BY <1>12, <1>13, <1>14, <1>15, <1>16, <1>17, <1>18, <1>19, <1>20 DEF ChunkInv

-----------------------------------------------------------------------------
(* The UDP half: SendReliable, WSASendTo and HandleAck *)

\* What the invariant says of one datagram and of one entry.
LEMMA UdpFacts ==
  ASSUME TypeOK, UdpInv
  PROVE  /\ \A d \in datagrams :
              /\ d.peer \in Peers /\ d.buffer \in Buffers /\ d.buffer <= opened
              /\ \A e \in datagrams : e.peer = d.peer /\ e.buffer = d.buffer => e = d
              /\ InFlight(d.peer, d.buffer, d.seq)
         /\ \A e \in pending :
              /\ e.peer \in Peers /\ e.buffer \in Buffers /\ e.peer \in holders[e.buffer]
              /\ \A f \in pending : f.peer = e.peer /\ f.buffer = e.buffer => f = e
         /\ \A t \in Threads : Numbered(t) =>
              /\ maker[t].peer \in Peers /\ maker[t].peer \notin maker[t].targets
              /\ InFlight(maker[t].peer, maker[t].buffer, maker[t].seq)
<1>1. datagrams \subseteq DatagramType /\ pending \subseteq EntryType
  BY DEF TypeOK, DatagramType, EntryType
<1>2. \A d \in datagrams : d.peer \in Peers /\ d.buffer \in Buffers
  BY <1>1 DEF DatagramType
<1>3. \A e \in pending : e.peer \in Peers /\ e.buffer \in Buffers
  BY <1>1 DEF EntryType
<1>4. \A d \in datagrams : InFlight(d.peer, d.buffer, d.seq)
  BY DEF InFlight
<1>5. \A t \in Threads : Numbered(t) => InFlight(maker[t].peer, maker[t].buffer, maker[t].seq)
  BY DEF InFlight
<1> QED BY <1>2, <1>3, <1>4, <1>5 DEF UdpInv, InvOnce, InvPending

\* A thread that has a number holds its buffer, and alone makes it.
LEMMA OwnBuffer ==
  ASSUME ChunkInv, ~ crash, NEW t \in Threads, maker[t].pc \notin {"idle", "swap"}
  PROVE  /\ maker[t].buffer \in Buffers /\ t \in holders[maker[t].buffer]
         /\ maker[t].buffer <= opened
         /\ \A u \in Threads : u # t => maker[u].buffer # maker[t].buffer
<1>1. maker[t].buffer \in Buffers /\ maker[t].buffer # None /\ t \in holders[maker[t].buffer]
  BY Making
<1>2. maker[t].buffer <= opened
  <2>1. maker[t].buffer \in Nat /\ opened \in Nat
    BY Typed DEF ChunkInv
  <2> QED BY <1>1, <2>1 DEF ChunkInv, InvHolders
<1> QED BY <1>1, <1>2 DEF ChunkInv, InvHolders

\* Nothing new is in flight and nothing more is got: the numbers stay known.
LEMMA FewerInFlight ==
  ASSUME InvNumbers, \A p, b, n : InFlight(p, b, n)' => InFlight(p, b, n),
         taken \subseteq taken', twice \subseteq twice', astray \subseteq astray', got' = got
  PROVE  InvNumbers'
BY DEF InvNumbers

\* A step that sends nothing over UDP: a thread goes on with its buffer, or has
\* none, or a new one.
UdpQuiet ==
  /\ UNCHANGED udpVars
  /\ opened' >= opened
  /\ \A b \in Buffers : \A p \in Peers : p \in holders[b] => p \in holders'[b]
  /\ \A t \in Threads :
       \/ /\ maker'[t].buffer = maker[t].buffer /\ maker'[t].targets \subseteq maker[t].targets
          /\ Numbered(t)' => maker'[t] = maker[t]
       \/ /\ ~ Numbered(t)'
          /\ \A b \in Buffers : maker'[t].buffer = b => b > opened

LEMMA UdpQuietStep ==
  ASSUME ChunkInv, TypeOK', UdpInv, UdpQuiet PROVE UdpInv'
<1>0. /\ TypeOK /\ opened \in Nat /\ opened' \in Nat /\ opened' >= opened
      /\ number' = number /\ taken' = taken /\ twice' = twice /\ pending' = pending
      /\ datagrams' = datagrams /\ got' = got /\ astray' = astray
      /\ \A b \in Buffers : b \in Nat
  <2>1. /\ number' = number /\ taken' = taken /\ twice' = twice /\ pending' = pending
        /\ datagrams' = datagrams /\ got' = got /\ astray' = astray
    BY DEF UdpQuiet, udpVars, numberVars
  <2>2. TypeOK /\ opened' >= opened
    BY DEF ChunkInv, UdpQuiet
  <2>3. opened \in Nat /\ \A b \in Buffers : b \in Nat
    BY <2>2, Typed
  <2>4. opened' \in Nat
    <3>1. opened' \in 0..MaxBuffers
      BY DEF TypeOK
    <3> QED BY <3>1, Constants
  <2> QED BY <2>1, <2>2, <2>3, <2>4
<1>1. \A t \in Threads : Numbered(t)' => Numbered(t) /\ maker'[t] = maker[t]
  <2>1. \A t \in Threads : Numbered(t)' => maker'[t] = maker[t]
    BY DEF UdpQuiet
  <2>2. \A t \in Threads : maker'[t] = maker[t] => (Numbered(t)' <=> Numbered(t))
    BY DEF Numbered
  <2> QED BY <2>1, <2>2
<1>2. \A p, b, n : InFlight(p, b, n)' => InFlight(p, b, n)
  BY <1>0, <1>1 DEF InFlight
<1>3. InvNumbers'
  BY <1>0, <1>2, FewerInFlight DEF UdpInv
<1>4. InvPending'
  <2>1. \A e \in pending : e.peer \in holders'[e.buffer]
    BY <1>0, UdpFacts DEF UdpQuiet
  <2> QED BY <1>0, <2>1 DEF UdpInv, InvPending
<1>5. \A e \in pending : e.buffer <= opened
  <2>1. \A e \in pending : e.buffer \in Buffers /\ holders[e.buffer] # {}
    BY <1>0, UdpFacts
  <2>2. \A b \in Buffers : ~ (b > opened) => b <= opened
    BY <1>0
  <2> QED BY <2>1, <2>2 DEF ChunkInv, InvHolders
<1>6. InvOnce'
  <2>1. \A d \in datagrams : d.buffer <= opened'
    <3>1. \A d \in datagrams : d.buffer \in Nat /\ d.buffer <= opened
      BY <1>0, UdpFacts
    <3> QED BY <1>0, <3>1
  <2>2. ASSUME NEW t \in Threads, NEW p \in Peers
        PROVE  /\ Unsent(t, p)' => \A d \in datagrams : d.peer # p \/ d.buffer # maker'[t].buffer
               /\ Unlisted(t, p)' => \A e \in pending : e.peer # p \/ e.buffer # maker'[t].buffer
    <3>1. CASE /\ maker'[t].buffer = maker[t].buffer
               /\ maker'[t].targets \subseteq maker[t].targets
      <4>1. Unsent(t, p)' => Unsent(t, p)
        BY <1>1, <3>1 DEF Unsent
      <4>2. Unlisted(t, p)' => Unlisted(t, p)
        BY <1>1, <3>1 DEF Unlisted
      <4> QED BY <3>1, <4>1, <4>2 DEF UdpInv, InvOnce
    <3>2. CASE \A b \in Buffers : maker'[t].buffer = b => b > opened
      <4>1. \A d \in datagrams : d.buffer \in Buffers /\ ~ (d.buffer > opened)
        <5>1. \A d \in datagrams : d.buffer \in Buffers /\ d.buffer <= opened
          BY <1>0, UdpFacts
        <5> QED BY <1>0, <5>1
      <4>2. \A e \in pending : e.buffer \in Buffers /\ ~ (e.buffer > opened)
        <5>1. \A e \in pending : e.buffer \in Buffers
          BY <1>0, UdpFacts
        <5> QED BY <1>0, <1>5, <5>1
      <4> QED BY <3>2, <4>1, <4>2
    <3> QED BY <3>1, <3>2 DEF UdpQuiet
  <2>3. \A t \in Threads : Numbered(t)' =>
          maker'[t].peer \in Peers /\ maker'[t].peer \notin maker'[t].targets
    BY <1>0, <1>1, UdpFacts
  <2>4. \A d, e \in datagrams : e.peer = d.peer /\ e.buffer = d.buffer => e = d
    BY <1>0, UdpFacts
  <2> QED BY <1>0, <2>1, <2>2, <2>3, <2>4 DEF InvOnce
<1>7. InvPosted'
  <2>1. \A t \in Threads : maker'[t].pc \in {"insert", "send udp"} =>
          maker'[t] = maker[t] /\ (Entry(t)' = Entry(t))
    <3>1. \A t \in Threads : maker'[t].pc \in {"insert", "send udp"} => maker'[t] = maker[t]
      BY <1>1 DEF Numbered
    <3> QED BY <3>1 DEF Entry
  <2> QED BY <1>0, <2>1 DEF UdpInv, InvPosted
<1>8. NumberExplained'
  BY <1>0 DEF UdpInv, NumberExplained
<1> QED BY <1>3, <1>4, <1>6, <1>7, <1>8 DEF UdpInv

\* A reference that goes is not that of an entry that stays; and an entry that
\* goes with it is of no packet on its way, or the property excepts its number.
LEMMA UdpReleaseStep ==
  ASSUME ChunkInv, ~ crash, UdpInv, NEW b \in Buffers, NEW h, Release(b, h), Dropper(b, h),
         pending' \subseteq pending,
         \A e \in pending' : e.peer # h \/ e.buffer # b,
         \A e \in pending : e \notin pending' /\ InFlight(e.peer, e.buffer, e.seq) =>
           <<e.peer, e.seq>> \in twice \cup astray',
         UNCHANGED <<numberVars, datagrams, got>>, astray \subseteq astray'
  PROVE  UdpInv'
<1>0. /\ TypeOK /\ taken' = taken /\ twice' = twice /\ datagrams' = datagrams /\ got' = got
      /\ opened' = opened
  BY DEF ChunkInv, Release, numberVars
<1>1. /\ \A x \in Buffers : x # b => holders'[x] = holders[x] /\ number'[x] = number[x]
      /\ holders'[b] = holders[b] \ {h}
      /\ holders[b] # {h} => number'[b] = number[b]
  BY <1>0 DEF Release, TypeOK
<1>2. /\ \A t \in Threads : t # h => maker'[t] = maker[t]
      /\ \A t \in Threads : t = h => ~ Numbered(t)' /\ maker'[t].targets = {}
  <2>1. /\ \A t \in Threads : t # h => maker'[t] = maker[t]
        /\ \A t \in Threads : t = h => maker'[t] = NotMaking
    BY <1>0 DEF Dropper, TypeOK
  <2>2. NotMaking.pc = "idle" /\ NotMaking.targets = {}
    BY DEF NotMaking
  <2> HIDE DEF NotMaking
  <2> QED BY <2>1, <2>2 DEF Numbered
<1>3. \A t \in Threads : Numbered(t)' => t # h /\ Numbered(t) /\ maker'[t] = maker[t]
  <2>1. \A t \in Threads : maker'[t] = maker[t] => (Numbered(t)' <=> Numbered(t))
    BY DEF Numbered
  <2> QED BY <1>2, <2>1
<1>4. \A p, c, n : InFlight(p, c, n)' => InFlight(p, c, n)
  BY <1>0, <1>3 DEF InFlight
<1>5. InvNumbers'
  BY <1>0, <1>4, FewerInFlight DEF UdpInv
<1>6. \A e \in pending' :
        e.peer \in holders'[e.buffer] /\ number'[e.buffer] = number[e.buffer]
  <2>1. \A e \in pending' : e.buffer \in Buffers /\ e.peer \in holders[e.buffer]
    BY <1>0, UdpFacts
  <2>2. \A e \in pending' : e.buffer = b => e.peer # h /\ holders[b] # {h}
    BY <2>1
  <2> QED BY <1>1, <2>1, <2>2
<1>7. InvPending'
  BY <1>6 DEF UdpInv, InvPending
<1>8. InvOnce'
  <2>1. \A t \in Threads, p \in Peers :
          /\ Unsent(t, p)' => Unsent(t, p) /\ maker'[t] = maker[t]
          /\ Unlisted(t, p)' => Unlisted(t, p) /\ maker'[t] = maker[t]
    BY <1>2, <1>3 DEF Unsent, Unlisted
  <2>2. \A t \in Threads, p \in Peers :
          /\ Unsent(t, p)' => \A d \in datagrams : d.peer # p \/ d.buffer # maker'[t].buffer
          /\ Unlisted(t, p)' => \A e \in pending' : e.peer # p \/ e.buffer # maker'[t].buffer
    BY <2>1 DEF UdpInv, InvOnce
  <2>3. \A t \in Threads : Numbered(t)' =>
          maker'[t].peer \in Peers /\ maker'[t].peer \notin maker'[t].targets
    BY <1>0, <1>3, UdpFacts
  <2>4. \A d \in datagrams : /\ d.buffer <= opened
                             /\ \A e \in datagrams : e.peer = d.peer /\ e.buffer = d.buffer => e = d
    BY <1>0, UdpFacts
  <2> QED BY <1>0, <2>2, <2>3, <2>4 DEF InvOnce
<1>9. InvPosted'
  <2> SUFFICES ASSUME NEW t \in Threads, maker'[t].pc \in {"insert", "send udp"}
               PROVE  /\ number'[maker'[t].buffer] = maker'[t].seq
                      /\ maker'[t].pc = "send udp" =>
                           \/ Entry(t)' \in pending'
                           \/ <<maker'[t].peer, maker'[t].seq>> \in twice' \cup astray'
    BY DEF InvPosted
  <2>1. Numbered(t)'
    BY DEF Numbered
  <2>2. t # h /\ Numbered(t) /\ maker'[t] = maker[t]
    BY <1>3, <2>1
  <2>3. /\ number[maker[t].buffer] = maker[t].seq
        /\ maker[t].pc = "send udp" =>
             Entry(t) \in pending \/ <<maker[t].peer, maker[t].seq>> \in twice \cup astray
    BY <2>2 DEF UdpInv, InvPosted
  <2>4. number'[maker[t].buffer] = number[maker[t].buffer]
    <3>1. maker[t].buffer \in Buffers /\ t \in holders[maker[t].buffer]
      BY <2>2, OwnBuffer DEF Numbered
    <3> QED BY <1>1, <2>2, <3>1
  <2>5. Entry(t)' = Entry(t)
    BY <2>2 DEF Entry
  <2>6. Entry(t) \in pending /\ Entry(t) \notin pending' =>
          <<maker[t].peer, maker[t].seq>> \in twice \cup astray'
    <3>1. /\ Entry(t).peer = maker[t].peer /\ Entry(t).buffer = maker[t].buffer
          /\ Entry(t).seq = maker[t].seq
      BY DEF Entry
    <3>2. InFlight(maker[t].peer, maker[t].buffer, maker[t].seq)
      BY <1>0, <2>2, UdpFacts
    <3> QED BY <3>1, <3>2
  <2> QED BY <1>0, <2>2, <2>3, <2>4, <2>5, <2>6
<1>10. NumberExplained'
  <2> SUFFICES ASSUME NEW d \in datagrams,
                      <<d.peer, d.seq>> \notin twice' \cup astray'
               PROVE  /\ [peer |-> d.peer, seq |-> d.seq, buffer |-> d.buffer] \in pending'
                      /\ number'[d.buffer] = d.seq \/ d.restamped
    BY <1>0 DEF NumberExplained
  <2> DEFINE e == [peer |-> d.peer, seq |-> d.seq, buffer |-> d.buffer]
  <2>1. e \in pending /\ (number[d.buffer] = d.seq \/ d.restamped)
    BY <1>0 DEF UdpInv, NumberExplained
  <2>2. e.peer = d.peer /\ e.seq = d.seq /\ e.buffer = d.buffer
    OBVIOUS
  <2>3. InFlight(d.peer, d.buffer, d.seq)
    BY <1>0, UdpFacts
  <2> HIDE DEF e
  <2>4. e \in pending'
    BY <1>0, <2>1, <2>2, <2>3
  <2>5. number'[d.buffer] = number[d.buffer]
    BY <1>6, <2>2, <2>4
  <2> QED BY <2>1, <2>4, <2>5 DEF e
<1> QED BY <1>5, <1>7, <1>8, <1>9, <1>10 DEF UdpInv

\* What a thread has in its hands next, when a record is put in its place.
LEMMA MakerFacts ==
  ASSUME TypeOK, NEW t \in Threads, NEW r, maker' = [maker EXCEPT ![t] = r]
  PROVE  maker'[t] = r /\ \A u \in Threads : u # t => maker'[u] = maker[u]
BY DEF TypeOK

\* Opening a buffer, or having none, sends nothing.
LEMMA UdpOpenIn ==
  ASSUME ChunkInv, ~ crash, TypeOK', UdpInv, NEW t \in Threads, NEW c \in Chunks, NEW size \in Nat,
         NEW table \in [Chunks -> ChunkType], OpenIn(t, c, table, size), UNCHANGED udpVars
  PROVE  UdpInv'
<1>0. TypeOK /\ opened \in Nat
  BY Typed DEF ChunkInv
<1>1. /\ \A u \in Threads : u # t => maker'[u] = maker[u]
      /\ maker'[t].pc = "write"
      /\ opened' \in Nat /\ opened' = opened + 1
      /\ Refused(t, c, table, size) \/ Opened(t, c, table, size)
  BY <1>0, OpenInFacts
<1>2. opened' > opened /\ opened' >= opened
  BY <1>0, <1>1
<1>3. \A b \in Buffers : holders'[b] = holders[b] \/ holders[b] = {}
  <2>1. CASE Refused(t, c, table, size)
    BY <2>1 DEF Refused
  <2>2. CASE Opened(t, c, table, size)
    <3>1. opened' \in Buffers /\ opened' > opened
      BY <2>2 DEF Opened
    <3>2. holders[opened'] = {}
      BY <3>1 DEF ChunkInv, InvHolders
    <3> QED BY <2>2, <3>2 DEF Opened
  <2> QED BY <1>1, <2>1, <2>2
<1>4. \/ maker'[t].buffer = maker[t].buffer /\ maker'[t].targets = maker[t].targets
      \/ \A b \in Buffers : maker'[t].buffer = b => b > opened
  <2>1. CASE size > ChunkSize \/ table[c].open \/ table[c].used + size > ChunkSize
    <3>1. maker' = [maker EXCEPT ![t].pc = "write", ![t].size = size]
      BY <2>1 DEF OpenIn
    <3>2. maker'[t] = [maker[t] EXCEPT !.pc = "write", !.size = size]
      BY <1>0, <3>1 DEF TypeOK
    <3>3. maker[t] \in MakerType
      BY <1>0 DEF TypeOK, MakerType
    <3> QED BY <3>2, <3>3 DEF MakerType
  <2>2. CASE ~ (size > ChunkSize \/ table[c].open \/ table[c].used + size > ChunkSize)
    <3>1. PICK targets \in Targets : maker' = [maker EXCEPT ![t] =
            [NotMaking EXCEPT !.pc = "write", !.size = size, !.buffer = opened',
                              !.targets = targets]]
      BY <2>2 DEF OpenIn
    <3>2. maker'[t] = [NotMaking EXCEPT !.pc = "write", !.size = size, !.buffer = opened',
                                        !.targets = targets]
      BY <1>0, <3>1 DEF TypeOK
    <3>3. maker'[t].buffer = opened'
      BY <3>2 DEF NotMaking
    <3> QED BY <1>2, <3>3
  <2> QED BY <2>1, <2>2
<1>5. \A u \in Threads :
        \/ /\ maker'[u].buffer = maker[u].buffer /\ maker'[u].targets \subseteq maker[u].targets
           /\ Numbered(u)' => maker'[u] = maker[u]
        \/ /\ ~ Numbered(u)'
           /\ \A b \in Buffers : maker'[u].buffer = b => b > opened
  <2>1. ~ Numbered(t)'
    BY <1>1 DEF Numbered
  <2> QED BY <1>1, <1>4, <2>1
<1>6. UdpQuiet
  BY <1>2, <1>3, <1>5 DEF UdpQuiet
<1> QED BY <1>6, UdpQuietStep

\* A thread goes on, not to a step with a number: that sends nothing.
LEMMA UdpSameBuffer ==
  ASSUME ChunkInv, TypeOK', UdpInv, NEW t \in Threads,
         \A u \in Threads : u # t => maker'[u] = maker[u],
         maker'[t].buffer = maker[t].buffer, maker'[t].targets \subseteq maker[t].targets,
         maker'[t].pc \in {"write", "send"},
         \A b \in Buffers : \A p \in Peers : p \in holders[b] => p \in holders'[b],
         opened' = opened, UNCHANGED udpVars
  PROVE  UdpInv'
<1>1. ~ Numbered(t)'
  BY DEF Numbered
<1>2. opened' >= opened
  BY Typed DEF ChunkInv
<1>3. UdpQuiet
  BY <1>1, <1>2 DEF UdpQuiet
<1> QED BY <1>3, UdpQuietStep

LEMMA UdpPopChunk ==
  ASSUME ChunkInv, UdpInv, NEW t \in Threads, NEW size \in Sizes, PopChunk(t, size)
  PROVE  UdpInv'
<1>0. /\ TypeOK /\ ~ crash /\ UNCHANGED udpVars /\ holders' = holders /\ opened' = opened
      /\ opened >= opened
  BY Typed DEF ChunkInv, PopChunk, At
<1>1. /\ \A u \in Threads : u # t => maker'[u] = maker[u]
      /\ maker'[t].pc = "swap" /\ maker'[t].buffer = None
  <2> DEFINE r == [NotMaking EXCEPT !.pc = "swap", !.size = size,
                     !.chunk = IF pool = <<>> THEN made' ELSE pool[Len(pool)]]
  <2>1. maker' = [maker EXCEPT ![t] = r]
    BY DEF PopChunk
  <2>2. r.pc = "swap" /\ r.buffer = None
    BY DEF NotMaking
  <2> HIDE DEF r
  <2> QED BY <1>0, <2>1, <2>2, MakerFacts
<1>2. ~ Numbered(t)' /\ \A b \in Buffers : b # None
  BY <1>0, <1>1, Typed DEF Numbered
<1>3. UdpQuiet
  BY <1>0, <1>1, <1>2 DEF UdpQuiet
<1> QED BY <1>0, <1>3, PopChunkTyped, UdpQuietStep

LEMMA UdpWrite ==
  ASSUME ChunkInv, UdpInv, NEW t \in Threads, Write(t) PROVE UdpInv'
<1>1. /\ \A u \in Threads : u # t => maker'[u] = maker[u]
      /\ maker'[t].pc = "send" /\ maker'[t].buffer = maker[t].buffer
      /\ maker'[t].targets = maker[t].targets
  BY GotoTyped DEF Write, ChunkInv, Places
<1>2. holders' = holders /\ opened' = opened /\ UNCHANGED udpVars
  BY DEF Write
<1> QED BY <1>1, <1>2, WriteTyped, UdpSameBuffer

\* TcpSession::Send gives the queue a reference, and is no UDP send.
LEMMA SendTcpStep ==
  ASSUME ChunkInv, UdpInv, NEW t \in Threads, SendTcp(t) PROVE Quiet /\ UdpInv'
<1> DEFINE b == maker[t].buffer
<1>0. /\ TypeOK /\ ~ crash /\ maker[t].pc = "send" /\ b \in Buffers /\ holders[b] # {}
      /\ UNCHANGED <<bufferVars, udpVars>>
      /\ maker' = [maker EXCEPT ![t].targets = @ \ {Tcp}]
      /\ holders' = [holders EXCEPT ![b] = @ \cup {Tcp}]
  BY Making DEF ChunkInv, SendTcp, At
<1>1. /\ \A u \in Threads : u # t => maker'[u] = maker[u]
      /\ maker'[t].pc = "send" /\ maker'[t].buffer = maker[t].buffer
      /\ maker'[t].targets = maker[t].targets \ {Tcp} /\ maker'[t].chunk = maker[t].chunk
      /\ maker'[t].size = maker[t].size
  <2> DEFINE r == [maker[t] EXCEPT !.targets = @ \ {Tcp}]
  <2>1. maker[t] \in MakerType
    BY <1>0 DEF TypeOK, MakerType
  <2>2. maker' = [maker EXCEPT ![t] = r]
    BY <1>0
  <2>3. maker'[t] = r /\ \A u \in Threads : u # t => maker'[u] = maker[u]
    BY <1>0, <2>2 DEF TypeOK
  <2>4. /\ r.pc = "send" /\ r.buffer = maker[t].buffer /\ r.targets = maker[t].targets \ {Tcp}
        /\ r.chunk = maker[t].chunk /\ r.size = maker[t].size
    BY <1>0, <2>1 DEF MakerType
  <2> HIDE DEF r
  <2> QED BY <2>3, <2>4
<1>2. \A x \in Buffers :
        holders'[x] = holders[x] \/ (x = b /\ holders'[x] = holders[x] \cup {Tcp})
  BY <1>0 DEF TypeOK
<1>3. UdpInv'
  <2>1. TypeOK' /\ opened' = opened /\ UNCHANGED udpVars
    BY <1>0, SendTcpTyped DEF bufferVars
  <2>2. \A x \in Buffers : \A p \in Peers : p \in holders[x] => p \in holders'[x]
    BY <1>2
  <2> HIDE DEF b
  <2> QED BY <1>1, <2>1, <2>2, UdpSameBuffer
<1>4. Quiet
  <2>1. \A x \in Buffers :
          \/ holders'[x] = holders[x]
          \/ holders[x] # {} /\ \E h \in Peers \cup {Tcp} : holders'[x] = holders[x] \cup {h}
    BY <1>0, <1>2
  <2>2. \A u \in Threads :
          /\ maker'[u].chunk = maker[u].chunk /\ maker'[u].buffer = maker[u].buffer
          /\ maker'[u].size = maker[u].size
          /\ \/ maker'[u].pc = maker[u].pc
             \/ /\ maker[u].pc \notin {"idle", "swap", "write"}
                /\ maker'[u].pc \notin {"idle", "swap", "write"}
    BY <1>0, <1>1
  <2> QED BY <1>0, <2>1, <2>2 DEF Quiet
<1> QED BY <1>3, <1>4

\* A step of the session's own queue, and one in which nothing happens.
LEMMA TcpQuietStep ==
  ASSUME IInv, TypeOK', UNCHANGED <<bufferVars, udpVars, maker, holders>> PROVE IInv'
<1>1. opened' >= opened
  BY Typed DEF IInv, ChunkInv, bufferVars
<1>2. Quiet
  BY DEF Quiet
<1>3. UdpQuiet
  BY <1>1 DEF UdpQuiet
<1> QED BY <1>2, <1>3, QuietStep, UdpQuietStep DEF IInv

\* What a thread keeps when it goes on with SendReliable.
GoesOn(t) ==
  /\ maker[t].pc \notin {"idle", "swap", "write"} /\ maker'[t].pc \notin {"idle", "swap", "write"}
  /\ maker'[t].buffer = maker[t].buffer /\ maker'[t].chunk = maker[t].chunk
  /\ maker'[t].size = maker[t].size
  /\ \A u \in Threads : u # t => maker'[u] = maker[u]

LEMMA GoesOnQuiet ==
  ASSUME NEW t \in Threads, GoesOn(t), UNCHANGED bufferVars, UNCHANGED holders
  PROVE  Quiet
<1>1. \A u \in Threads :
        /\ maker'[u].chunk = maker[u].chunk /\ maker'[u].buffer = maker[u].buffer
        /\ maker'[u].size = maker[u].size
        /\ \/ maker'[u].pc = maker[u].pc
           \/ /\ maker[u].pc \notin {"idle", "swap", "write"}
              /\ maker'[u].pc \notin {"idle", "swap", "write"}
  BY DEF GoesOn
<1> QED BY <1>1 DEF Quiet

\* A thread keeps its number, or is done with it.
SameNumber(t) ==
  /\ GoesOn(t)
  /\ Numbered(t) /\ maker'[t].targets = maker[t].targets
  /\ maker'[t].peer = maker[t].peer /\ maker'[t].seq = maker[t].seq

LEMMA SameNumberFacts ==
  ASSUME NEW t \in Threads, SameNumber(t)
  PROVE  /\ \A u \in Threads : Numbered(u)' => Numbered(u)
         /\ \A u \in Threads : /\ maker'[u].buffer = maker[u].buffer
                               /\ maker'[u].targets = maker[u].targets
                               /\ maker'[u].peer = maker[u].peer /\ maker'[u].seq = maker[u].seq
                               /\ Entry(u)' = Entry(u)
         /\ \A u \in Threads, q \in Peers : Unsent(u, q)' => Unsent(u, q)
<1>1. \A u \in Threads : Numbered(u)' => Numbered(u)
  BY DEF SameNumber, GoesOn, Numbered
<1>2. \A u \in Threads : /\ maker'[u].buffer = maker[u].buffer
                         /\ maker'[u].targets = maker[u].targets
                         /\ maker'[u].peer = maker[u].peer /\ maker'[u].seq = maker[u].seq
  BY DEF SameNumber, GoesOn
<1>3. \A u \in Threads : Entry(u)' = Entry(u)
  BY <1>2 DEF Entry
<1>4. \A u \in Threads, q \in Peers : Unsent(u, q)' => Unsent(u, q)
  BY <1>1, <1>2 DEF Unsent
<1> QED BY <1>1, <1>2, <1>3, <1>4

\* Nothing is in flight that was not, if the datagrams are the ones there were.
LEMMA SameFlight ==
  ASSUME NEW t \in Threads, SameNumber(t),
         \A d \in datagrams' :
           InFlight(d.peer, d.buffer, d.seq)
  PROVE  \A p, b, n : InFlight(p, b, n)' => InFlight(p, b, n)
<1> SUFFICES ASSUME NEW p, NEW b, NEW n, InFlight(p, b, n)' PROVE InFlight(p, b, n)
  OBVIOUS
<1>1. CASE \E u \in Threads : /\ Numbered(u)' /\ maker'[u].peer = p
                              /\ maker'[u].buffer = b /\ maker'[u].seq = n
  BY <1>1, SameNumberFacts DEF InFlight
<1>2. CASE \E d \in datagrams' : d.peer = p /\ d.buffer = b /\ d.seq = n
  BY <1>2
<1> QED BY <1>1, <1>2 DEF InFlight

\* _sendSeq++ reads a number: if it was taken before, that is known.
LEMMA TakeNumberStep ==
  ASSUME ChunkInv, UdpInv, NEW t \in Threads, NEW p \in Peers, TakeNumber(t, p)
  PROVE  Quiet /\ UdpInv'
<1> DEFINE b == maker[t].buffer
           n == sendSeq[p]
<1>0. /\ TypeOK /\ ~ crash /\ maker[t].pc = "send" /\ p \in maker[t].targets
      /\ taken' = taken \cup {<<p, n>>} /\ twice' = twice \cup (taken \cap {<<p, n>>})
      /\ number' = number /\ pending' = pending /\ datagrams' = datagrams /\ got' = got
      /\ astray' = astray /\ holders' = holders
      /\ UNCHANGED bufferVars
  BY DEF ChunkInv, TakeNumber, At
<1>a. opened' = opened
  BY <1>0 DEF bufferVars
<1>1. /\ \A u \in Threads : u # t => maker'[u] = maker[u]
      /\ maker'[t].pc = "increment" /\ maker'[t].buffer = b
      /\ maker'[t].chunk = maker[t].chunk /\ maker'[t].size = maker[t].size
      /\ maker'[t].targets = maker[t].targets \ {p}
      /\ maker'[t].peer = p /\ maker'[t].seq = n
  BY <1>0, TakeNumberFacts
<1>2. /\ \A q, c, m : InFlight(q, c, m) =>
           /\ <<q, m>> \in taken
           /\ <<q, m>> \in got => <<q, m>> \in twice \cup astray
           /\ \A d : InFlight(q, d, m) => d = c \/ <<q, m>> \in twice
      /\ got \subseteq taken \cup astray
  BY DEF UdpInv, InvNumbers
<1> HIDE DEF b, n
<1>3. \A q, c, m : InFlight(q, c, m)' => InFlight(q, c, m) \/ (q = p /\ c = b /\ m = n)
  <2> SUFFICES ASSUME NEW q, NEW c, NEW m, InFlight(q, c, m)'
               PROVE  InFlight(q, c, m) \/ (q = p /\ c = b /\ m = n)
    OBVIOUS
  <2>1. CASE \E u \in Threads : /\ Numbered(u)' /\ maker'[u].peer = q
                                /\ maker'[u].buffer = c /\ maker'[u].seq = m
    <3>1. PICK u \in Threads : /\ Numbered(u)' /\ maker'[u].peer = q
                               /\ maker'[u].buffer = c /\ maker'[u].seq = m
      BY <2>1
    <3>2. CASE u = t
      BY <1>1, <3>1, <3>2
    <3>3. CASE u # t
      BY <1>1, <3>1, <3>3 DEF InFlight, Numbered
    <3> QED BY <3>2, <3>3
  <2>2. CASE \E d \in datagrams' : d.peer = q /\ d.buffer = c /\ d.seq = m
    BY <1>0, <2>2 DEF InFlight
  <2> QED BY <2>1, <2>2 DEF InFlight
<1>4. InvNumbers'
  <2>1. \A q, c, m : InFlight(q, c, m)' => <<q, m>> \in taken'
    BY <1>0, <1>2, <1>3
  <2>2. \A q, c, m : InFlight(q, c, m)' =>
          (<<q, m>> \in got' => <<q, m>> \in twice' \cup astray')
    <3>1. <<p, n>> \in got => <<p, n>> \in twice' \cup astray'
      BY <1>0, <1>2
    <3> QED BY <1>0, <1>2, <1>3, <3>1
  <2>3. \A q, c, m, d : InFlight(q, c, m)' /\ InFlight(q, d, m)' =>
          d = c \/ <<q, m>> \in twice'
    <3>1. \A c : InFlight(p, c, n) => <<p, n>> \in twice'
      BY <1>0, <1>2
    <3>2. \A q, c, m, d : InFlight(q, c, m) /\ InFlight(q, d, m) => d = c \/ <<q, m>> \in twice'
      BY <1>0, <1>2
    <3> QED BY <1>3, <3>1, <3>2
  <2>4. got' \subseteq taken' \cup astray'
    BY <1>0, <1>2
  <2> QED BY <2>1, <2>2, <2>3, <2>4 DEF InvNumbers
<1>5. InvOnce'
  <2>1. \A d \in datagrams : /\ d.buffer <= opened
                             /\ \A e \in datagrams : e.peer = d.peer /\ e.buffer = d.buffer => e = d
    BY <1>0, UdpFacts
  <2>2. \A u \in Threads, q \in Peers :
          (Unsent(u, q)' => Unsent(u, q)) /\ (Unlisted(u, q)' => Unlisted(u, q))
    BY <1>0, <1>1 DEF Unsent, Unlisted, Numbered
  <2>3. \A u \in Threads : maker'[u].buffer = maker[u].buffer
    BY <1>1 DEF b
  <2>4. \A u \in Threads, q \in Peers :
          /\ Unsent(u, q)' => \A d \in datagrams : d.peer # q \/ d.buffer # maker'[u].buffer
          /\ Unlisted(u, q)' => \A e \in pending : e.peer # q \/ e.buffer # maker'[u].buffer
    BY <2>2, <2>3 DEF UdpInv, InvOnce
  <2>5. \A u \in Threads : Numbered(u)' =>
          maker'[u].peer \in Peers /\ maker'[u].peer \notin maker'[u].targets
    <3>1. \A u \in Threads : u # t => (Numbered(u)' => Numbered(u))
      BY <1>1 DEF Numbered
    <3> QED BY <1>0, <1>1, <3>1, UdpFacts
  <2> QED BY <1>0, <1>a, <2>1, <2>4, <2>5 DEF InvOnce
<1>6. InvPosted'
  <2>1. \A u \in Threads : maker'[u].pc \in {"insert", "send udp"} =>
          maker'[u] = maker[u] /\ Entry(u)' = Entry(u)
    BY <1>1 DEF Entry
  <2> QED BY <1>0, <2>1 DEF UdpInv, InvPosted
<1>7. InvPending' /\ NumberExplained'
  BY <1>0 DEF UdpInv, InvPending, NumberExplained
<1>8. Quiet
  BY <1>0, <1>1, GoesOnQuiet DEF GoesOn, b
<1> QED BY <1>4, <1>5, <1>6, <1>7, <1>8 DEF UdpInv

LEMMA IncrementStep ==
  ASSUME ChunkInv, UdpInv, NEW t \in Threads, Increment(t) PROVE Quiet /\ UdpInv'
<1>0. /\ TypeOK /\ ~ crash /\ maker[t].pc = "increment"
      /\ taken' = taken /\ twice' = twice
      /\ number' = number /\ pending' = pending /\ datagrams' = datagrams /\ got' = got
      /\ astray' = astray /\ holders' = holders
      /\ UNCHANGED bufferVars
  BY DEF ChunkInv, Increment, At
<1>a. opened' = opened
  BY <1>0 DEF bufferVars
<1>1. SameNumber(t) /\ maker'[t].pc = "stamp"
  BY <1>0, GotoTyped DEF Increment, SameNumber, GoesOn, Numbered, Places
<1>2. InvNumbers'
  <2>1. \A d \in datagrams' : InFlight(d.peer, d.buffer, d.seq)
    BY <1>0, UdpFacts
  <2> QED BY <1>0, <1>1, <2>1, SameFlight, FewerInFlight DEF UdpInv
<1>3. InvOnce'
  <2>1. \A d \in datagrams : /\ d.buffer <= opened
                             /\ \A e \in datagrams : e.peer = d.peer /\ e.buffer = d.buffer => e = d
    BY <1>0, UdpFacts
  <2>2. \A u \in Threads, q \in Peers : Unlisted(u, q)' => Unlisted(u, q)
    BY <1>0, <1>1, SameNumberFacts DEF Unlisted, SameNumber, GoesOn, Numbered
  <2>3. \A u \in Threads, q \in Peers :
          /\ Unsent(u, q)' => \A d \in datagrams : d.peer # q \/ d.buffer # maker'[u].buffer
          /\ Unlisted(u, q)' => \A e \in pending : e.peer # q \/ e.buffer # maker'[u].buffer
    BY <1>1, <2>2, SameNumberFacts DEF UdpInv, InvOnce
  <2>4. \A u \in Threads : Numbered(u)' =>
          maker'[u].peer \in Peers /\ maker'[u].peer \notin maker'[u].targets
    BY <1>0, <1>1, SameNumberFacts, UdpFacts
  <2> QED BY <1>0, <1>a, <2>1, <2>3, <2>4 DEF InvOnce
<1>4. InvPosted'
  <2>1. \A u \in Threads : maker'[u].pc \in {"insert", "send udp"} =>
          maker'[u] = maker[u] /\ Entry(u)' = Entry(u)
    BY <1>1 DEF Entry, SameNumber, GoesOn
  <2> QED BY <1>0, <2>1 DEF UdpInv, InvPosted
<1>5. InvPending' /\ NumberExplained'
  BY <1>0 DEF UdpInv, InvPending, NumberExplained
<1>6. Quiet
  BY <1>0, <1>1, GoesOnQuiet DEF SameNumber
<1> QED BY <1>2, <1>3, <1>4, <1>5, <1>6 DEF UdpInv

\* The header gets the number; the datagrams that have the buffer go with it.
LEMMA StampStep ==
  ASSUME ChunkInv, UdpInv, NEW t \in Threads, Stamp(t) PROVE Quiet /\ UdpInv'
<1> DEFINE b == maker[t].buffer
<1>0. /\ TypeOK /\ ~ crash /\ maker[t].pc = "stamp"
      /\ number' = [number EXCEPT ![b] = maker[t].seq]
      /\ datagrams' = {IF d.buffer = b THEN [d EXCEPT !.restamped = TRUE] ELSE d : d \in datagrams}
      /\ pending' = pending /\ got' = got /\ astray' = astray /\ holders' = holders
      /\ UNCHANGED bufferVars
  BY DEF ChunkInv, Stamp, At
<1>a. opened' = opened /\ taken' = taken /\ twice' = twice
  BY <1>0 DEF bufferVars, numberVars, Stamp
<1>1. SameNumber(t) /\ maker'[t].pc = "insert"
  BY <1>0, GotoTyped DEF Stamp, SameNumber, GoesOn, Numbered, Places
<1>2. b \in Buffers /\ \A u \in Threads : u # t => maker[u].buffer # b
  BY <1>0, OwnBuffer
<1>3. number'[b] = maker[t].seq /\ \A x \in Buffers : x # b => number'[x] = number[x]
  BY <1>0, <1>2 DEF TypeOK
<1> HIDE DEF b
<1>4. \A d \in datagrams' : \E e \in datagrams :
        /\ d = IF e.buffer = b THEN [e EXCEPT !.restamped = TRUE] ELSE e
        /\ d.peer = e.peer /\ d.buffer = e.buffer /\ d.seq = e.seq
        /\ e.buffer = b => d.restamped
        /\ e.restamped => d.restamped
  <2> SUFFICES ASSUME NEW d \in datagrams'
               PROVE  \E e \in datagrams :
                        /\ d = IF e.buffer = b THEN [e EXCEPT !.restamped = TRUE] ELSE e
                        /\ d.peer = e.peer /\ d.buffer = e.buffer /\ d.seq = e.seq
                        /\ e.buffer = b => d.restamped
                        /\ e.restamped => d.restamped
    OBVIOUS
  <2>1. PICK e \in datagrams : d = IF e.buffer = b THEN [e EXCEPT !.restamped = TRUE] ELSE e
    BY <1>0
  <2>2. e \in DatagramType
    BY <1>0 DEF TypeOK, DatagramType
  <2>3. CASE e.buffer = b
    <3>1. d = [e EXCEPT !.restamped = TRUE]
      BY <2>1, <2>3
    <3>2. d.peer = e.peer /\ d.buffer = e.buffer /\ d.seq = e.seq /\ d.restamped = TRUE
      BY <2>2, <3>1 DEF DatagramType
    <3> QED BY <2>1, <3>2
  <2>4. CASE e.buffer # b
    BY <2>1, <2>4
  <2> QED BY <2>3, <2>4
<1>5. InvNumbers'
  <2>1. \A d \in datagrams' : InFlight(d.peer, d.buffer, d.seq)
    <3> SUFFICES ASSUME NEW d \in datagrams' PROVE InFlight(d.peer, d.buffer, d.seq)
      OBVIOUS
    <3>1. PICK e \in datagrams : d.peer = e.peer /\ d.buffer = e.buffer /\ d.seq = e.seq
      BY <1>4
    <3>2. InFlight(e.peer, e.buffer, e.seq)
      BY <1>0, UdpFacts
    <3> QED BY <3>1, <3>2
  <2> QED BY <1>0, <1>a, <1>1, <2>1, SameFlight, FewerInFlight DEF UdpInv
<1>6. InvOnce'
  <2>1. \A d, e \in datagrams' : e.peer = d.peer /\ e.buffer = d.buffer => e = d
    <3> SUFFICES ASSUME NEW d \in datagrams', NEW e \in datagrams',
                        e.peer = d.peer, e.buffer = d.buffer
                 PROVE  e = d
      OBVIOUS
    <3>1. PICK d0 \in datagrams :
            /\ d = IF d0.buffer = b THEN [d0 EXCEPT !.restamped = TRUE] ELSE d0
            /\ d.peer = d0.peer /\ d.buffer = d0.buffer
      BY <1>4
    <3>2. PICK e0 \in datagrams :
            /\ e = IF e0.buffer = b THEN [e0 EXCEPT !.restamped = TRUE] ELSE e0
            /\ e.peer = e0.peer /\ e.buffer = e0.buffer
      BY <1>4
    <3>3. e0 = d0
      BY <1>0, <3>1, <3>2, UdpFacts
    <3> QED BY <3>1, <3>2, <3>3
  <2>2. \A d \in datagrams' : d.buffer <= opened
    BY <1>0, <1>4, UdpFacts
  <2>3. \A u \in Threads, q \in Peers : Unlisted(u, q)' => Unlisted(u, q)
    BY <1>0, <1>1, SameNumberFacts DEF Unlisted, SameNumber, GoesOn, Numbered
  <2>4. \A u \in Threads, q \in Peers :
          /\ Unsent(u, q)' => \A d \in datagrams : d.peer # q \/ d.buffer # maker'[u].buffer
          /\ Unlisted(u, q)' => \A e \in pending : e.peer # q \/ e.buffer # maker'[u].buffer
    BY <1>1, <2>3, SameNumberFacts DEF UdpInv, InvOnce
  <2>5. \A u \in Threads, q \in Peers :
          Unsent(u, q)' => \A d \in datagrams' : d.peer # q \/ d.buffer # maker'[u].buffer
    BY <1>4, <2>4
  <2>6. \A u \in Threads : Numbered(u)' =>
          maker'[u].peer \in Peers /\ maker'[u].peer \notin maker'[u].targets
    BY <1>0, <1>1, SameNumberFacts, UdpFacts
  <2> QED BY <1>0, <1>a, <2>1, <2>2, <2>4, <2>5, <2>6 DEF InvOnce
<1>7. InvPosted'
  <2>1. \A u \in Threads : u # t /\ maker'[u].pc \in {"insert", "send udp"} =>
          /\ maker'[u] = maker[u] /\ Entry(u)' = Entry(u)
          /\ number'[maker[u].buffer] = number[maker[u].buffer]
    <3> SUFFICES ASSUME NEW u \in Threads, u # t, maker'[u].pc \in {"insert", "send udp"}
                 PROVE  /\ maker'[u] = maker[u] /\ Entry(u)' = Entry(u)
                        /\ number'[maker[u].buffer] = number[maker[u].buffer]
      OBVIOUS
    <3>1. maker'[u] = maker[u]
      BY <1>1 DEF SameNumber, GoesOn
    <3>2. maker[u].buffer \in Buffers
      BY <1>0, <3>1, OwnBuffer
    <3> QED BY <1>2, <1>3, <3>1, <3>2 DEF Entry
  <2>2. number'[maker'[t].buffer] = maker'[t].seq
    <3>1. maker'[t].buffer = b /\ maker'[t].seq = maker[t].seq
      BY <1>1 DEF SameNumber, GoesOn, b
    <3> QED BY <1>3, <3>1
  <2>3. \A u \in Threads : u # t /\ maker'[u].pc \in {"insert", "send udp"} =>
          /\ number'[maker'[u].buffer] = maker'[u].seq
          /\ maker'[u].pc = "send udp" =>
               Entry(u)' \in pending' \/ <<maker'[u].peer, maker'[u].seq>> \in twice' \cup astray'
    <3>1. \A u \in Threads : maker[u].pc \in {"insert", "send udp"} =>
            /\ number[maker[u].buffer] = maker[u].seq
            /\ maker[u].pc = "send udp" =>
                 Entry(u) \in pending \/ <<maker[u].peer, maker[u].seq>> \in twice \cup astray
      BY DEF UdpInv, InvPosted
    <3>2. pending' = pending /\ twice' \cup astray' = twice \cup astray
      BY <1>0, <1>a
    <3> QED BY <2>1, <3>1, <3>2
  <2>4. maker'[t].pc # "send udp"
    BY <1>1
  <2> QED BY <2>2, <2>3, <2>4 DEF InvPosted
<1>8. NumberExplained'
  <2> SUFFICES ASSUME NEW d \in datagrams', <<d.peer, d.seq>> \notin twice \cup astray
               PROVE  /\ [peer |-> d.peer, seq |-> d.seq, buffer |-> d.buffer] \in pending
                      /\ number'[d.buffer] = d.seq \/ d.restamped
    BY <1>0, <1>a DEF NumberExplained
  <2>1. PICK e \in datagrams :
          /\ d.peer = e.peer /\ d.buffer = e.buffer /\ d.seq = e.seq
          /\ e.buffer = b => d.restamped
          /\ e.restamped => d.restamped
    BY <1>4
  <2>2. /\ [peer |-> e.peer, seq |-> e.seq, buffer |-> e.buffer] \in pending
        /\ number[e.buffer] = e.seq \/ e.restamped
    BY <2>1 DEF UdpInv, NumberExplained
  <2>3. e.buffer \in Buffers
    BY <1>0, UdpFacts
  <2> QED BY <1>3, <2>1, <2>2, <2>3
<1>9. InvPending'
  BY <1>0 DEF UdpInv, InvPending
<1>10. Quiet
  BY <1>0, <1>1, GoesOnQuiet DEF SameNumber
<1> QED BY <1>5, <1>6, <1>7, <1>8, <1>9, <1>10 DEF UdpInv

\* The entry that keeps the packet: no other is there for the same buffer.
LEMMA InsertStep ==
  ASSUME ChunkInv, UdpInv, NEW t \in Threads, Insert(t) PROVE Quiet /\ UdpInv'
<1> DEFINE b == maker[t].buffer
           p == maker[t].peer
<1>0. /\ TypeOK /\ ~ crash /\ maker[t].pc = "insert"
      /\ pending' = pending \cup {Entry(t)}
      /\ holders' = [holders EXCEPT ![b] = @ \cup {p}]
      /\ number' = number /\ datagrams' = datagrams /\ got' = got /\ astray' = astray
      /\ UNCHANGED bufferVars
  BY DEF ChunkInv, Insert, At
<1>a. opened' = opened /\ taken' = taken /\ twice' = twice
  BY <1>0 DEF bufferVars, numberVars, Insert
<1>1. SameNumber(t) /\ maker'[t].pc = "send udp"
  BY <1>0, GotoTyped DEF Insert, SameNumber, GoesOn, Numbered, Places
<1>2. /\ b \in Buffers /\ holders[b] # {}
      /\ \A u \in Threads : u # t => maker[u].buffer # b
  BY <1>0, OwnBuffer
<1>3. p \in Peers /\ p \notin maker[t].targets /\ Unlisted(t, p)
  BY <1>0, UdpFacts DEF Numbered, Unlisted
<1>4. Entry(t).peer = p /\ Entry(t).buffer = b /\ Entry(t).seq = maker[t].seq
  BY DEF Entry
<1>5. \A e \in pending : e.peer # p \/ e.buffer # b
  BY <1>3 DEF UdpInv, InvOnce
<1>6. /\ p \in holders'[b]
      /\ \A x \in Buffers : holders'[x] = holders[x] \/ (x = b /\ holders'[x] = holders[x] \cup {p})
  BY <1>0, <1>2 DEF TypeOK
<1> HIDE DEF b, p
<1>7. InvNumbers'
  <2>1. \A d \in datagrams' : InFlight(d.peer, d.buffer, d.seq)
    BY <1>0, UdpFacts
  <2> QED BY <1>0, <1>a, <1>1, <2>1, SameFlight, FewerInFlight DEF UdpInv
<1>8. InvPending'
  <2>1. \A e \in pending :
          /\ e.peer \in holders'[e.buffer]
          /\ \A f \in pending : f.peer = e.peer /\ f.buffer = e.buffer => f = e
    BY <1>0, <1>6, UdpFacts
  <2> QED BY <1>0, <1>4, <1>5, <1>6, <2>1 DEF InvPending
<1>9. InvOnce'
  <2>1. \A d \in datagrams : /\ d.buffer <= opened
                             /\ \A e \in datagrams : e.peer = d.peer /\ e.buffer = d.buffer => e = d
    BY <1>0, UdpFacts
  <2>2. \A u \in Threads, q \in Peers :
          Unlisted(u, q)' => Unlisted(u, q) /\ (u # t \/ q \in maker[t].targets)
    BY <1>0, <1>1, SameNumberFacts DEF Unlisted, SameNumber, GoesOn, Numbered
  <2>3. \A u \in Threads, q \in Peers :
          /\ Unsent(u, q)' => \A d \in datagrams : d.peer # q \/ d.buffer # maker'[u].buffer
          /\ Unlisted(u, q)' => \A e \in pending : e.peer # q \/ e.buffer # maker'[u].buffer
    <3>1. /\ \A u \in Threads : maker'[u].buffer = maker[u].buffer
          /\ \A u \in Threads, q \in Peers : Unsent(u, q)' => Unsent(u, q)
      BY <1>1, SameNumberFacts
    <3>2. \A u \in Threads, q \in Peers :
            /\ Unsent(u, q) => \A d \in datagrams : d.peer # q \/ d.buffer # maker[u].buffer
            /\ Unlisted(u, q) => \A e \in pending : e.peer # q \/ e.buffer # maker[u].buffer
      BY DEF UdpInv, InvOnce
    <3> QED BY <2>2, <3>1, <3>2
  <2>4. \A u \in Threads, q \in Peers :
          Unlisted(u, q)' => Entry(t).peer # q \/ Entry(t).buffer # maker'[u].buffer
    BY <1>1, <1>2, <1>3, <1>4, <2>2, SameNumberFacts DEF b
  <2>5. \A u \in Threads, q \in Peers :
          Unlisted(u, q)' => \A e \in pending' : e.peer # q \/ e.buffer # maker'[u].buffer
    BY <1>0, <2>3, <2>4
  <2>6. \A u \in Threads : Numbered(u)' =>
          maker'[u].peer \in Peers /\ maker'[u].peer \notin maker'[u].targets
    BY <1>0, <1>1, SameNumberFacts, UdpFacts
  <2> QED BY <1>0, <1>a, <2>1, <2>3, <2>5, <2>6 DEF InvOnce
<1>10. InvPosted'
  <2>1. \A u \in Threads : u # t /\ maker'[u].pc \in {"insert", "send udp"} =>
          /\ number'[maker'[u].buffer] = maker'[u].seq
          /\ maker'[u].pc = "send udp" =>
               Entry(u)' \in pending' \/ <<maker'[u].peer, maker'[u].seq>> \in twice' \cup astray'
    <3>1. \A u \in Threads : u # t => maker'[u] = maker[u] /\ Entry(u)' = Entry(u)
      BY <1>1, SameNumberFacts DEF SameNumber, GoesOn
    <3> QED BY <1>0, <1>a, <3>1 DEF UdpInv, InvPosted
  <2>2. number'[maker'[t].buffer] = maker'[t].seq
    <3>1. number[maker[t].buffer] = maker[t].seq
      BY <1>0 DEF UdpInv, InvPosted
    <3> QED BY <1>0, <1>1, <3>1 DEF SameNumber, GoesOn
  <2>3. Entry(t)' \in pending'
    BY <1>0, <1>1, SameNumberFacts
  <2> QED BY <2>1, <2>2, <2>3 DEF InvPosted
<1>11. NumberExplained'
  BY <1>0, <1>a DEF UdpInv, NumberExplained
<1>12. Quiet
  <2>1. \A u \in Threads :
          /\ maker'[u].chunk = maker[u].chunk /\ maker'[u].buffer = maker[u].buffer
          /\ maker'[u].size = maker[u].size
          /\ \/ maker'[u].pc = maker[u].pc
             \/ /\ maker[u].pc \notin {"idle", "swap", "write"}
                /\ maker'[u].pc \notin {"idle", "swap", "write"}
    BY <1>1 DEF SameNumber, GoesOn
  <2>2. \A x \in Buffers :
          \/ holders'[x] = holders[x]
          \/ holders[x] # {} /\ \E h \in Peers \cup {Tcp} : holders'[x] = holders[x] \cup {h}
    BY <1>2, <1>3, <1>6
  <2> QED BY <1>0, <2>1, <2>2 DEF Quiet
<1> QED BY <1>7, <1>8, <1>9, <1>10, <1>11, <1>12 DEF UdpInv

\* WSASendTo: the packet is pending, and no other datagram of it is on its way.
LEMMA SendUdpStep ==
  ASSUME ChunkInv, UdpInv, NEW t \in Threads, SendUdp(t) PROVE Quiet /\ UdpInv'
<1> DEFINE b == maker[t].buffer
           p == maker[t].peer
           n == maker[t].seq
           new == [peer |-> p, buffer |-> b, seq |-> n, restamped |-> FALSE]
<1>0. /\ TypeOK /\ ~ crash /\ maker[t].pc = "send udp"
      /\ datagrams' \in {datagrams, datagrams \cup {new}}
      /\ pending' = pending /\ holders' = holders
      /\ number' = number /\ got' = got /\ astray' = astray
      /\ UNCHANGED bufferVars
  BY DEF ChunkInv, SendUdp, At
<1>a. opened' = opened /\ taken' = taken /\ twice' = twice
  BY <1>0 DEF bufferVars, numberVars, SendUdp
<1>1. SameNumber(t) /\ maker'[t].pc = "send"
  BY <1>0, GotoTyped DEF SendUdp, SameNumber, GoesOn, Numbered, Places
<1>2. b \in Buffers /\ b <= opened /\ \A u \in Threads : u # t => maker[u].buffer # b
  BY <1>0, OwnBuffer
<1>3. p \in Peers /\ p \notin maker[t].targets /\ Unsent(t, p) /\ InFlight(p, b, n)
  BY <1>0, UdpFacts DEF Numbered, Unsent
<1>4. new.peer = p /\ new.buffer = b /\ new.seq = n
  OBVIOUS
<1>5. \A d \in datagrams : d.peer # p \/ d.buffer # b
  BY <1>3 DEF UdpInv, InvOnce
<1>b. /\ number[b] = n
      /\ \/ [peer |-> p, seq |-> n, buffer |-> b] \in pending
         \/ <<p, n>> \in twice \cup astray
  BY <1>0 DEF UdpInv, InvPosted, Entry
<1> HIDE DEF b, p, n, new
<1>6. \A d \in datagrams' : d \in datagrams \/ d = new
  BY <1>0
<1>7. InvNumbers'
  <2>1. \A d \in datagrams' : InFlight(d.peer, d.buffer, d.seq)
    BY <1>0, <1>3, <1>4, <1>6, UdpFacts
  <2> QED BY <1>0, <1>a, <1>1, <2>1, SameFlight, FewerInFlight DEF UdpInv
<1>8. InvOnce'
  <2>1. \A d \in datagrams : /\ d.buffer <= opened
                             /\ \A e \in datagrams : e.peer = d.peer /\ e.buffer = d.buffer => e = d
    BY <1>0, UdpFacts
  <2>2. \A d \in datagrams' :
          /\ d.buffer <= opened
          /\ \A e \in datagrams' : e.peer = d.peer /\ e.buffer = d.buffer => e = d
    BY <1>2, <1>4, <1>5, <1>6, <2>1
  <2>3. \A u \in Threads, q \in Peers :
          /\ Unsent(u, q)' => Unsent(u, q) /\ (u # t \/ q \in maker[t].targets)
          /\ Unlisted(u, q)' => Unlisted(u, q)
    BY <1>0, <1>1, SameNumberFacts DEF Unsent, Unlisted, SameNumber, GoesOn, Numbered
  <2>4. \A u \in Threads, q \in Peers :
          /\ Unsent(u, q)' => \A d \in datagrams : d.peer # q \/ d.buffer # maker'[u].buffer
          /\ Unlisted(u, q)' => \A e \in pending : e.peer # q \/ e.buffer # maker'[u].buffer
    BY <1>1, <2>3, SameNumberFacts DEF UdpInv, InvOnce
  <2>5. \A u \in Threads, q \in Peers :
          Unsent(u, q)' => new.peer # q \/ new.buffer # maker'[u].buffer
    BY <1>1, <1>2, <1>3, <1>4, <2>3, SameNumberFacts DEF b
  <2>6. \A u \in Threads, q \in Peers :
          Unsent(u, q)' => \A d \in datagrams' : d.peer # q \/ d.buffer # maker'[u].buffer
    BY <1>6, <2>4, <2>5
  <2>7. \A u \in Threads : Numbered(u)' =>
          maker'[u].peer \in Peers /\ maker'[u].peer \notin maker'[u].targets
    BY <1>0, <1>1, SameNumberFacts, UdpFacts
  <2> QED BY <1>0, <1>a, <2>2, <2>4, <2>6, <2>7 DEF InvOnce
<1>9. InvPosted'
  <2>1. \A u \in Threads : maker'[u].pc \in {"insert", "send udp"} =>
          maker'[u] = maker[u] /\ Entry(u)' = Entry(u)
    BY <1>1, SameNumberFacts DEF SameNumber, GoesOn
  <2> QED BY <1>0, <1>a, <2>1 DEF UdpInv, InvPosted
<1>10. NumberExplained'
  <2>1. \A d \in datagrams :
          \/ <<d.peer, d.seq>> \in twice \cup astray
          \/ /\ [peer |-> d.peer, seq |-> d.seq, buffer |-> d.buffer] \in pending
             /\ number[d.buffer] = d.seq \/ d.restamped
    BY DEF UdpInv, NumberExplained
  <2>2. \/ <<new.peer, new.seq>> \in twice \cup astray
        \/ /\ [peer |-> new.peer, seq |-> new.seq, buffer |-> new.buffer] \in pending
           /\ number[new.buffer] = new.seq
    BY <1>4, <1>b
  <2> QED BY <1>0, <1>a, <1>6, <2>1, <2>2 DEF NumberExplained
<1>11. InvPending'
  BY <1>0 DEF UdpInv, InvPending
<1>12. Quiet
  BY <1>0, <1>1, GoesOnQuiet DEF SameNumber
<1> QED BY <1>7, <1>8, <1>9, <1>10, <1>11, <1>12 DEF UdpInv

\* The kernel reads a datagram: its number is on its way no more.
LEMMA UdpReadStep ==
  ASSUME ChunkInv, UdpInv, NEW d \in datagrams, UdpRead(d) PROVE Quiet /\ UdpInv'
<1>0. /\ TypeOK /\ ~ crash /\ maker' = maker /\ holders' = holders /\ number' = number
      /\ pending' = pending /\ datagrams' = datagrams \ {d}
      /\ UNCHANGED bufferVars
  BY DEF ChunkInv, UdpRead
<1>a. opened' = opened /\ taken' = taken /\ twice' = twice
  BY <1>0 DEF bufferVars, numberVars, UdpRead
<1>1. PICK n \in Reads(d.buffer) :
        /\ got' = got \cup {<<d.peer, n>>}
        /\ astray' = IF n = d.seq THEN astray ELSE astray \cup {<<d.peer, n>>}
  BY DEF UdpRead
<1>2. astray \subseteq astray' /\ (n # d.seq => <<d.peer, n>> \in astray')
  BY <1>1
<1>3. /\ \A q, c, m : InFlight(q, c, m) =>
           /\ <<q, m>> \in taken
           /\ <<q, m>> \in got => <<q, m>> \in twice \cup astray
           /\ \A x : InFlight(q, x, m) => x = c \/ <<q, m>> \in twice
      /\ got \subseteq taken \cup astray
  BY DEF UdpInv, InvNumbers
<1>4. /\ d.peer \in Peers /\ InFlight(d.peer, d.buffer, d.seq)
      /\ \A e \in datagrams : e.peer = d.peer /\ e.buffer = d.buffer => e = d
  BY <1>0, UdpFacts
<1>5. \A u \in Threads : Numbered(u)' <=> Numbered(u)
  BY <1>0 DEF Numbered
<1>6. \A q, c, m : InFlight(q, c, m)' =>
        InFlight(q, c, m) /\ ~ (q = d.peer /\ c = d.buffer)
  <2> SUFFICES ASSUME NEW q, NEW c, NEW m, InFlight(q, c, m)'
               PROVE  InFlight(q, c, m) /\ ~ (q = d.peer /\ c = d.buffer)
    OBVIOUS
  <2>1. CASE \E u \in Threads : /\ Numbered(u)' /\ maker'[u].peer = q
                                /\ maker'[u].buffer = c /\ maker'[u].seq = m
    <3>1. PICK u \in Threads : /\ Numbered(u) /\ maker[u].peer = q
                               /\ maker[u].buffer = c /\ maker[u].seq = m
      BY <1>0, <1>5, <2>1
    <3>2. q = d.peer => Unsent(u, d.peer)
      BY <3>1 DEF Unsent
    <3>3. q = d.peer => c # d.buffer
      BY <1>4, <3>1, <3>2 DEF UdpInv, InvOnce
    <3> QED BY <3>1, <3>3 DEF InFlight
  <2>2. CASE \E e \in datagrams' : e.peer = q /\ e.buffer = c /\ e.seq = m
    <3>1. PICK e \in datagrams' : e.peer = q /\ e.buffer = c /\ e.seq = m
      BY <2>2
    <3>2. e \in datagrams /\ e # d
      BY <1>0, <3>1
    <3> QED BY <1>4, <3>1, <3>2 DEF InFlight
  <2> QED BY <2>1, <2>2 DEF InFlight
<1>7. InvNumbers'
  <2>1. \A q, c, m : InFlight(q, c, m)' => <<q, m>> \in taken'
    BY <1>a, <1>3, <1>6
  <2>2. \A q, c, m : InFlight(q, c, m)' =>
          (<<q, m>> \in got' => <<q, m>> \in twice' \cup astray')
    <3> SUFFICES ASSUME NEW q, NEW c, NEW m, InFlight(q, c, m)', <<q, m>> \in got'
                 PROVE  <<q, m>> \in twice' \cup astray'
      OBVIOUS
    <3>1. InFlight(q, c, m) /\ ~ (q = d.peer /\ c = d.buffer)
      BY <1>6
    <3>2. CASE <<q, m>> \in got
      BY <1>a, <1>2, <1>3, <3>1, <3>2
    <3>3. CASE q = d.peer /\ m = n
      <4>1. CASE n # d.seq
        BY <1>2, <3>3, <4>1
      <4>2. CASE n = d.seq
        BY <1>a, <1>3, <1>4, <3>1, <3>3, <4>2
      <4> QED BY <4>1, <4>2
    <3> QED BY <1>1, <3>2, <3>3
  <2>3. \A q, c, m : InFlight(q, c, m)' =>
          \A x : InFlight(q, x, m)' => x = c \/ <<q, m>> \in twice'
    BY <1>a, <1>3, <1>6
  <2>4. got' \subseteq taken' \cup astray'
    <3>1. n = d.seq => <<d.peer, n>> \in taken
      BY <1>3, <1>4
    <3> QED BY <1>a, <1>1, <1>2, <1>3, <3>1
  <2> QED BY <2>1, <2>2, <2>3, <2>4 DEF InvNumbers
<1>8. InvOnce'
  <2>1. \A e \in datagrams : /\ e.buffer <= opened
                             /\ \A f \in datagrams : f.peer = e.peer /\ f.buffer = e.buffer => f = e
    BY <1>0, UdpFacts
  <2>2. \A u \in Threads, q \in Peers :
          (Unsent(u, q)' => Unsent(u, q)) /\ (Unlisted(u, q)' => Unlisted(u, q))
    BY <1>0, <1>5 DEF Unsent, Unlisted
  <2>3. \A u \in Threads, q \in Peers :
          /\ Unsent(u, q)' => \A e \in datagrams : e.peer # q \/ e.buffer # maker'[u].buffer
          /\ Unlisted(u, q)' => \A e \in pending : e.peer # q \/ e.buffer # maker'[u].buffer
    BY <1>0, <2>2 DEF UdpInv, InvOnce
  <2>4. \A u \in Threads : Numbered(u)' =>
          maker'[u].peer \in Peers /\ maker'[u].peer \notin maker'[u].targets
    BY <1>0, <1>5, UdpFacts
  <2> QED BY <1>0, <1>a, <2>1, <2>3, <2>4 DEF InvOnce
<1>9. InvPosted'
  <2>1. \A u \in Threads : maker'[u] = maker[u] /\ Entry(u)' = Entry(u)
    BY <1>0 DEF Entry
  <2> QED BY <1>0, <1>a, <1>2, <2>1 DEF UdpInv, InvPosted
<1>10. InvPending' /\ NumberExplained'
  BY <1>0, <1>a, <1>2 DEF UdpInv, InvPending, NumberExplained
<1>11. Quiet
  BY <1>0 DEF Quiet
<1> QED BY <1>7, <1>8, <1>9, <1>10, <1>11 DEF UdpInv

-----------------------------------------------------------------------------

\* ProcessSend, HandleAck, the overwriting of an entry and the end of a maker: a
\* reference goes.
LEMMA TcpDropStep ==
  ASSUME IInv, TcpDrop PROVE IInv'
<1>0. ChunkInv /\ UdpInv /\ TypeOK
  BY DEF IInv, ChunkInv
<1>1. TypeOK'
  BY <1>0, TcpDropTyped
<1> DEFINE b == Head(sent)
<1>2. /\ ~ crash /\ Release(b, Tcp) /\ maker' = maker /\ b \in Buffers
      /\ UNCHANGED <<numberVars, pending, datagrams, got, astray>>
  BY <1>0, TailFacts DEF TcpDrop, TypeOK
<1> HIDE DEF b
<1>3. Dropper(b, Tcp) /\ Tcp \notin Peers
  BY <1>2, Constants DEF Dropper
<1>4. ChunkInv'
  BY <1>0, <1>1, <1>2, <1>3, ReleaseStep
<1>5. \A e \in pending : e.peer # Tcp
  BY <1>0, <1>3, UdpFacts
<1>6. UdpInv'
  BY <1>0, <1>2, <1>3, <1>5, UdpReleaseStep
<1> QED BY <1>4, <1>6 DEF IInv

LEMMA ForgetStep ==
  ASSUME IInv, NEW t \in Threads, Forget(t) PROVE IInv'
<1>0. ChunkInv /\ UdpInv /\ TypeOK
  BY DEF IInv, ChunkInv
<1>1. TypeOK'
  BY <1>0, ForgetTyped
<1> DEFINE b == maker[t].buffer
<1>2. /\ ~ crash /\ maker[t].pc = "send" /\ Release(b, t) /\ b \in Buffers
      /\ maker' = [maker EXCEPT ![t] = NotMaking]
      /\ UNCHANGED <<numberVars, pending, datagrams, got, astray>>
  BY <1>0, Making DEF Forget, At
<1>3. Dropper(b, t) /\ t \notin Peers
  BY <1>2, Constants DEF Dropper
<1> HIDE DEF b
<1>4. ChunkInv'
  BY <1>0, <1>1, <1>2, <1>3, ReleaseStep
<1>5. \A e \in pending : e.peer # t
  BY <1>0, <1>3, UdpFacts
<1>6. UdpInv'
  BY <1>0, <1>2, <1>3, <1>5, UdpReleaseStep
<1> QED BY <1>4, <1>6 DEF IInv

\* An entry goes for good.
LEMMA EraseStep ==
  ASSUME IInv, TypeOK', ~ crash, NEW e \in pending, Release(e.buffer, e.peer),
         pending' = pending \ {e}, maker' = maker,
         InFlight(e.peer, e.buffer, e.seq) => <<e.peer, e.seq>> \in twice \cup astray',
         UNCHANGED <<numberVars, datagrams, got>>, astray \subseteq astray'
  PROVE  IInv'
<1>0. ChunkInv /\ UdpInv /\ TypeOK
  BY DEF IInv, ChunkInv
<1>1. e.buffer \in Buffers /\ e.peer \in Peers
  BY <1>0, UdpFacts
<1>2. Dropper(e.buffer, e.peer)
  BY <1>1, Constants DEF Dropper
<1>3. ChunkInv'
  BY <1>0, <1>1, <1>2, ReleaseStep
<1>4. \A f \in pending' : f.peer # e.peer \/ f.buffer # e.buffer
  BY <1>0, UdpFacts
<1>5. \A f \in pending : f \notin pending' /\ InFlight(f.peer, f.buffer, f.seq) =>
        <<f.peer, f.seq>> \in twice \cup astray'
  OBVIOUS
<1>6. pending' \subseteq pending
  OBVIOUS
<1>7. UdpInv'
  BY <1>0, <1>1, <1>2, <1>4, <1>5, <1>6, UdpReleaseStep
<1> QED BY <1>3, <1>7 DEF IInv

\* What the client acknowledges it has got, or the number goes astray.
LEMMA HandleAckStep ==
  ASSUME IInv, NEW e \in pending, HandleAck(e) PROVE IInv'
<1>0. ChunkInv /\ UdpInv
  BY DEF IInv
<1>1. TypeOK'
  BY <1>0, HandleAckTyped
<1>2. /\ ~ crash /\ Release(e.buffer, e.peer) /\ pending' = pending \ {e} /\ maker' = maker
      /\ astray' = IF <<e.peer, e.seq>> \in got THEN astray
                   ELSE astray \cup {<<e.peer, e.seq>>}
      /\ UNCHANGED <<numberVars, datagrams, got>>
  BY DEF HandleAck
<1>3. astray \subseteq astray'
  BY <1>2
<1>4. InFlight(e.peer, e.buffer, e.seq) => <<e.peer, e.seq>> \in twice \cup astray'
  <2>1. <<e.peer, e.seq>> \notin got => <<e.peer, e.seq>> \in astray'
    BY <1>2
  <2>2. InFlight(e.peer, e.buffer, e.seq) /\ <<e.peer, e.seq>> \in got =>
          <<e.peer, e.seq>> \in twice \cup astray
    BY <1>0 DEF UdpInv, InvNumbers
  <2> QED BY <1>3, <2>1, <2>2
<1> QED BY <1>1, <1>2, <1>3, <1>4, EraseStep

\* Another packet has the number of the one that is to be put down: it was
\* taken twice.
LEMMA OverwriteStep ==
  ASSUME IInv, NEW t \in Threads, Overwrite(t) PROVE IInv'
<1>0. ChunkInv /\ UdpInv /\ TypeOK
  BY DEF IInv, ChunkInv
<1>1. TypeOK'
  BY <1>0, OverwriteTyped
<1>2. PICK e \in pending : /\ e.peer = maker[t].peer /\ e.seq = maker[t].seq
                           /\ Release(e.buffer, e.peer) /\ pending' = pending \ {e}
  BY DEF Overwrite, Under
<1>3. /\ ~ crash /\ maker[t].pc = "insert" /\ maker' = maker
      /\ UNCHANGED <<numberVars, datagrams, got>> /\ astray' = astray
  BY DEF Overwrite, At
<1>4. InFlight(maker[t].peer, maker[t].buffer, maker[t].seq)
  BY <1>0, <1>3, UdpFacts DEF Numbered
<1>5. Unlisted(t, maker[t].peer) /\ maker[t].peer \in Peers
  BY <1>0, <1>3, UdpFacts DEF Numbered, Unlisted
<1>6. e.buffer # maker[t].buffer
  BY <1>0, <1>2, <1>5 DEF UdpInv, InvOnce
<1>7. InFlight(e.peer, e.buffer, e.seq) => <<e.peer, e.seq>> \in twice
  BY <1>0, <1>2, <1>4, <1>6 DEF UdpInv, InvNumbers
<1> QED BY <1>1, <1>2, <1>3, <1>7, EraseStep

LEMMA OpenPreserves ==
  ASSUME IInv, NEW t \in Threads, NEW size \in Sizes, Open(t, size) PROVE IInv'
<1>0. ChunkInv /\ UdpInv /\ TypeOK
  BY DEF IInv, ChunkInv
<1>1. current[t] \in Chunks /\ size \in Nat /\ ~ crash
  BY <1>0, Typed, Constants DEF Open, HasRoom, At
<1>2. chunks \in [Chunks -> ChunkType] /\ OpenIn(t, current[t], chunks, size)
  BY <1>0 DEF TypeOK, ChunkType, Open
<1>3. UNCHANGED udpVars
  BY DEF Open
<1>4. TypeOK' /\ ChunkInv'
  BY <1>0, OpenTyped, OpenStep
<1>5. UdpInv'
  BY <1>0, <1>1, <1>2, <1>3, <1>4, UdpOpenIn
<1> QED BY <1>4, <1>5 DEF IInv

LEMMA SwapChunkPreserves ==
  ASSUME IInv, NEW t \in Threads, SwapChunk(t) PROVE IInv'
<1>0. ChunkInv /\ UdpInv /\ TypeOK
  BY DEF IInv, ChunkInv
<1> DEFINE c == maker[t].chunk
<1>1. /\ ~ crash /\ maker[t].pc = "swap" /\ OpenIn(t, c, Reset(c), maker[t].size)
      /\ UNCHANGED udpVars
  BY DEF SwapChunk, At
<1>2. c \in Chunks /\ maker[t].size \in Nat
  <2>1. c # None
    BY <1>0, <1>1 DEF ChunkInv, InvMaker
  <2> QED BY <1>0, <2>1, Typed
<1>3. Reset(c) \in [Chunks -> ChunkType]
  <2>1. chunks \in [Chunks -> ChunkType]
    BY <1>0 DEF TypeOK, ChunkType
  <2>2. [chunks[c] EXCEPT !.open = FALSE, !.used = 0] \in ChunkType
    BY <1>2, <2>1 DEF ChunkType
  <2>3. Reset(c) = [chunks EXCEPT ![c] = [chunks[c] EXCEPT !.open = FALSE, !.used = 0]]
    BY <2>1 DEF Reset, ChunkType
  <2> HIDE DEF c
  <2> QED BY <2>1, <2>2, <2>3
<1> HIDE DEF c
<1>4. TypeOK' /\ ChunkInv'
  BY <1>0, SwapChunkTyped, SwapChunkStep
<1>5. UdpInv'
  BY <1>0, <1>1, <1>2, <1>3, <1>4, UdpOpenIn
<1> QED BY <1>4, <1>5 DEF IInv

\* Every step keeps the invariant.
LEMMA NextPreserves == ASSUME IInv, [SendNext]_sendVars PROVE IInv'
<1>0. ChunkInv /\ UdpInv /\ TypeOK /\ InvOnce
  BY DEF IInv, ChunkInv, UdpInv
<1> DEFINE Kept == ChunkInv' /\ UdpInv'
<1>q. Kept => IInv'
  BY DEF IInv
<1>1. ASSUME NEW t \in Threads, MakerStep(t) PROVE IInv'
  <2>1. ASSUME NEW size \in Sizes, Open(t, size) PROVE IInv'
    BY <2>1, OpenPreserves
  <2>2. ASSUME NEW size \in Sizes, PopChunk(t, size) PROVE IInv'
    BY <1>0, <1>q, <2>2, PopChunkTyped, PopChunkStep, UdpPopChunk
  <2>3. CASE SwapChunk(t)
    BY <2>3, SwapChunkPreserves
  <2>4. CASE Write(t)
    BY <1>0, <1>q, <2>4, WriteTyped, WriteStep, UdpWrite
  <2>5. CASE SendTcp(t)
    BY <1>0, <1>q, <2>5, SendTcpTyped, SendTcpStep, QuietStep
  <2>6. ASSUME NEW p \in Peers, TakeNumber(t, p) PROVE IInv'
    BY <1>0, <1>q, <2>6, TakeNumberTyped, TakeNumberStep, QuietStep
  <2>7. CASE Increment(t)
    BY <1>0, <1>q, <2>7, IncrementTyped, IncrementStep, QuietStep
  <2>8. CASE Stamp(t)
    BY <1>0, <1>q, <2>8, StampTyped, StampStep, QuietStep
  <2>9. CASE Overwrite(t)
    BY <2>9, OverwriteStep
  <2>10. CASE Insert(t)
    BY <1>0, <1>q, <2>10, InsertTyped, InsertStep, QuietStep
  <2>11. CASE SendUdp(t)
    BY <1>0, <1>q, <2>11, SendUdpTyped, SendUdpStep, QuietStep
  <2>12. CASE Forget(t)
    BY <2>12, ForgetStep
  <2> QED BY <1>1, <2>1, <2>2, <2>3, <2>4, <2>5, <2>6, <2>7, <2>8, <2>9, <2>10, <2>11, <2>12
          DEF MakerStep
<1>2. CASE TcpRead
  <2>1. UNCHANGED <<bufferVars, udpVars, maker, holders>>
    BY <1>2 DEF TcpRead
  <2> QED BY <1>0, <1>2, <2>1, TcpReadTyped, TcpQuietStep
<1>3. CASE RegisterSend
  <2>1. UNCHANGED <<bufferVars, udpVars, maker, holders>>
    BY <1>3 DEF RegisterSend
  <2> QED BY <1>0, <1>3, <2>1, RegisterSendTyped, TcpQuietStep
<1>4. CASE SendFails
  <2>1. UNCHANGED <<bufferVars, udpVars, maker, holders>>
    BY <1>4 DEF SendFails
  <2> QED BY <1>0, <1>4, <2>1, SendFailsTyped, TcpQuietStep
<1>5. CASE TcpDrop
  BY <1>5, TcpDropStep
<1>6. ASSUME NEW d \in datagrams, UdpRead(d) PROVE IInv'
  BY <1>0, <1>q, <1>6, UdpReadTyped, UdpReadStep, QuietStep
<1>7. ASSUME NEW e \in pending, HandleAck(e) PROVE IInv'
  BY <1>7, HandleAckStep
<1>8. CASE UNCHANGED sendVars
  <2>1. UNCHANGED <<bufferVars, udpVars, maker, holders>>
    BY <1>8 DEF sendVars
  <2>2. TypeOK'
    BY <1>0, <1>8 DEF TypeOK, sendVars, bufferVars, udpVars, numberVars, tcpVars
  <2> QED BY <2>1, <2>2, TcpQuietStep
<1> QED BY <1>1, <1>2, <1>3, <1>4, <1>5, <1>6, <1>7, <1>8 DEF SendNext, KernelStep

LEMMA Invariance == SendSpec => []IInv
<1>1. IInv /\ [SendNext]_sendVars => IInv'
  BY NextPreserves
<1> QED BY InitIInv, <1>1, PTL DEF SendSpec


-----------------------------------------------------------------------------

\* Every variable keeps its type: Open, Pop, Reset, Write, Close, the sends
\* and the references never leave the sets they are declared over.
THEOREM TypeCorrect == SendSpec => []TypeOK
<1>1. IInv => TypeOK
  BY DEF IInv, ChunkInv
<1> QED BY Invariance, <1>1, PTL

\* The bytes of a written buffer stay as they were written for as long as a
\* thread, a session's queue or _pendingAckMap has a reference to it.
THEOREM BytesStay == SendSpec => []BuffersIntact
<1>1. IInv => BuffersIntact
  <2> SUFFICES ASSUME IInv, NEW b \in Buffers, Closed(b), NEW i \in Cells(b)
               PROVE  chunks[area[b].chunk].bytes[i] = b
    BY DEF BuffersIntact
  <2>1. area[b].chunk # None /\ ~ Writing(b)
    BY DEF Closed, Writing
  <2> QED BY <2>1 DEF IInv, ChunkInv, InvBytes
<1> QED BY Invariance, <1>1, PTL

\* Pop, the swap of LSendBufferChunk and the deleter of a chunk lose none and
\* give none out twice.
THEOREM NoChunkLost == SendSpec => []ChunksAccounted
<1>1. IInv => ChunksAccounted
  <2> SUFFICES ASSUME IInv, NEW c \in 1..made
               PROVE  /\ InUse(c) <=> InPool(c) = {}
                      /\ \A i, j \in InPool(c) : i = j
                      /\ \A t, u \in Threads : current[t] = c /\ current[u] = c => t = u
    BY DEF ChunksAccounted
  <2>0. ChunkInv /\ TypeOK
    BY DEF IInv, ChunkInv
  <2>1. c \in Chunks /\ c # None
    <3>1. c \in Nat
      OBVIOUS
    <3> QED BY <2>0, <3>1, Typed
  <2>2. \A i \in DOMAIN pool : pool[i] = c =>
          /\ \A t \in Threads : current[t] # c /\ ~ Popped(t, c)
          /\ \A b \in Buffers : area[b].chunk # c
          /\ \A j \in DOMAIN pool : pool[j] = c => i = j
    BY <2>0 DEF ChunkInv, InvPool
  <2>3. \/ \E t \in Threads : current[t] = c \/ Popped(t, c)
        \/ \E b \in Buffers : area[b].chunk = c
        \/ \E i \in DOMAIN pool : pool[i] = c
    BY <2>0 DEF ChunkInv, InvKept
  <2>4. InUse(c) <=> \/ \E t \in Threads : current[t] = c \/ Popped(t, c)
                     \/ \E b \in Buffers : area[b].chunk = c
    <3>1. \A t \in Threads : maker[t].chunk = c => current[t] = c \/ Popped(t, c)
      BY <2>0, <2>1 DEF ChunkInv, InvMaker, Popped
    <3>2. LiveIn(c) # {} <=> \E b \in Buffers : area[b].chunk = c
      BY <2>0, <2>1 DEF ChunkInv, InvHolders, LiveIn
    <3> QED BY <3>1, <3>2 DEF InUse, Popped
  <2>5. InPool(c) # {} <=> \E i \in DOMAIN pool : pool[i] = c
    BY DEF InPool
  <2>6. \A i, j \in InPool(c) : i = j
    BY <2>2 DEF InPool
  <2>7. \A t, u \in Threads : current[t] = c /\ current[u] = c => t = u
    BY <2>0, <2>1 DEF ChunkInv, InvCurrent
  <2> QED BY <2>2, <2>3, <2>4, <2>5, <2>6, <2>7
<1> QED BY Invariance, <1>1, PTL

\* The assertions of SendBufferChunk and SendBufferManager fail only for a
\* packet that is longer than a chunk.
THEOREM NoOtherCrash == SendSpec => []CrashExplained
<1>1. IInv => CrashExplained
  BY DEF IInv, ChunkInv, InvMaker, CrashExplained
<1> QED BY Invariance, <1>1, PTL

\* SendReliable writes the number into a buffer it shares with other sessions
\* and puts the packet down under it: as long as the datagram is on its way the
\* entry is there, and the header has the number or was restamped, but for the
\* numbers that two threads took from _sendSeq or that went astray.
THEOREM NumbersOnTheWay == SendSpec => []NumberExplained
<1>1. IInv => NumberExplained
  BY DEF IInv, UdpInv
<1> QED BY Invariance, <1>1, PTL

-----------------------------------------------------------------------------
(* The receiving half: RecvBuffer *)


Modest == largest + MaxPacket + BufferSize <= Capacity

\* The packets lie one behind the other and end where the stream ends.
InvStream ==
  /\ Len(packets) = 0 => total = 0
  /\ Len(packets) > 0 => packets[1].start = 0
  /\ \A i \in DOMAIN packets : packets[i].start + packets[i].size <= total
  /\ \A i \in DOMAIN packets :
       i = Len(packets) => packets[i].start + packets[i].size = total
  /\ \A i \in DOMAIN packets :
       i # Len(packets) => packets[i + 1].start = packets[i].start + packets[i].size
  /\ \A i, j \in DOMAIN packets : i < j => packets[i].start < packets[j].start

\* The parser stands at the beginning of the next packet to be handled.
InvCursor ==
  /\ handled < Len(packets) => packets[handled + 1].start = arrived - Rest
  /\ handled = Len(packets) => total = arrived - Rest

\* The cells between the positions hold the last bytes that arrived.
InvContents ==
  \A i \in 0 .. Capacity - 1 :
    readPos <= i /\ i < writePos => buffer[i] = arrived - writePos + i

InvRoom ==
  /\ phase = "receiving" => processLen = 0
  /\ Modest =>
       /\ phase # "closed"
       /\ readPos = 0
       /\ phase = "receiving" => writePos < MaxPacket
       /\ phase = "parsing" => writePos < MaxPacket + largest

RecvInv == RecvTypeOK /\ InvStream /\ InvCursor /\ InvContents /\ InvRoom /\ ~ mangled

-----------------------------------------------------------------------------

\* The capacity is a number of bytes, and has room for a byte.
LEMMA CapacityNat == Capacity \in Nat /\ Capacity > 0
<1>1. \A a, b \in Nat \ {0} : a * b \in Nat /\ a * b > 0
  OBVIOUS
<1> QED BY <1>1, BufferAssumption DEF Capacity, BufferAssumption

\* The empty stream has the type of a stream.
LEMMA EmptyStream == <<>> \in Seq([start : Nat, size : HeaderSize..MaxPacket])
<1> DEFINE Packet == [start : Nat, size : HeaderSize..MaxPacket]
<1> HIDE DEF Packet
<1>1. <<>> \in Seq(Packet)
  OBVIOUS
<1> QED BY <1>1 DEF Packet

\* What appending to a sequence leaves and adds.
LEMMA StreamAppend ==
  ASSUME NEW T, NEW s \in Seq(T), NEW e \in T
  PROVE  LET r == Append(s, e)
         IN  /\ r \in Seq(T)
             /\ Len(r) = Len(s) + 1 /\ Len(s) \in Nat
             /\ DOMAIN r = 1 .. Len(s) + 1 /\ DOMAIN s = 1 .. Len(s)
             /\ \A i \in DOMAIN s : r[i] = s[i] /\ s[i] \in T
             /\ r[Len(s) + 1] = e
OBVIOUS

\* Nothing has arrived: the invariant holds at the start.
LEMMA InitRecvInv == RecvInit => RecvInv
<1> SUFFICES ASSUME RecvInit PROVE RecvInv
  OBVIOUS
<1> USE CapacityNat, BufferAssumption DEF RecvInit, BufferAssumption, DataSize, Rest
<1>1. RecvTypeOK
  <2>1. packets \in Seq([start : Nat, size : HeaderSize..MaxPacket])
    BY EmptyStream
  <2>2. /\ total \in Nat /\ arrived \in 0..total
        /\ buffer \in [0 .. Capacity - 1 -> Nat]
        /\ writePos \in 0..Capacity /\ readPos \in 0..writePos
        /\ phase \in {"receiving", "parsing", "closed"}
        /\ processLen \in 0..DataSize
        /\ handled \in 0..Len(packets) /\ largest \in 0..Capacity
    OBVIOUS
  <2>3. mangled \in BOOLEAN
    BY Zenon
  <2> QED BY <2>1, <2>2, <2>3 DEF RecvTypeOK
<1>2. InvStream /\ InvCursor /\ InvContents
  BY DEF InvStream, InvCursor, InvContents
<1>3. InvRoom /\ ~ mangled
  BY DEF InvRoom
<1> QED BY <1>1, <1>2, <1>3 DEF RecvInv

\* The peer's next packet goes behind the others.
LEMMA SendKeeps == RecvInv /\ Send => RecvInv'
<1> SUFFICES ASSUME RecvInv, NEW size \in HeaderSize..MaxPacket, Extend(size), UNCHANGED recvVars
             PROVE RecvInv'
  BY DEF Send
<1> USE BufferAssumption, CapacityNat DEF BufferAssumption
<1>0. /\ RecvTypeOK /\ InvStream /\ InvCursor /\ InvContents /\ InvRoom /\ ~ mangled
  BY DEF RecvInv
<1> DEFINE Packet == [start : Nat, size : HeaderSize..MaxPacket]
<1> DEFINE new == [start |-> total, size |-> size]
<1>1. /\ packets \in Seq(Packet) /\ new \in Packet /\ total \in Nat /\ size \in Nat /\ size > 0
  BY <1>0 DEF RecvTypeOK
<1>2. packets' = Append(packets, new) /\ total' = total + size
  BY DEF Extend
<1>3. /\ packets' \in Seq(Packet)
      /\ Len(packets') = Len(packets) + 1 /\ Len(packets) \in Nat
      /\ DOMAIN packets' = 1 .. Len(packets) + 1 /\ DOMAIN packets = 1 .. Len(packets)
      /\ \A i \in DOMAIN packets : packets'[i] = packets[i] /\ packets[i] \in Packet
      /\ packets'[Len(packets) + 1] = new
  <2> HIDE DEF Packet, new
  <2> QED BY <1>1, <1>2, StreamAppend
<1> HIDE DEF Packet, new
<1>4. /\ new.start = total /\ new.size = size
      /\ \A i \in DOMAIN packets : /\ packets[i].start \in Nat /\ packets[i].size \in Nat
                                   /\ packets[i].size > 0
  BY <1>3 DEF Packet, new
<1>5. RecvTypeOK'
  <2>1. arrived' \in 0..total'
    BY <1>0, <1>1, <1>2 DEF RecvTypeOK, recvVars
  <2>2. handled' \in 0..Len(packets')
    BY <1>0, <1>3 DEF RecvTypeOK, recvVars
  <2>3. total' \in Nat
    BY <1>1, <1>2
  <2> QED BY <1>0, <1>3, <2>1, <2>2, <2>3 DEF RecvTypeOK, recvVars, DataSize, Packet
<1>6. InvStream'
  <2>1. Len(packets') > 0 => packets'[1].start = 0
    BY <1>0, <1>3, <1>4 DEF InvStream
  <2>2. \A i \in DOMAIN packets' : packets'[i].start + packets'[i].size <= total'
    BY <1>0, <1>1, <1>2, <1>3, <1>4 DEF InvStream
  <2>3. \A i \in DOMAIN packets' :
          i = Len(packets') => packets'[i].start + packets'[i].size = total'
    BY <1>1, <1>2, <1>3, <1>4
  <2>4. ASSUME NEW i \in DOMAIN packets', i # Len(packets')
        PROVE  packets'[i + 1].start = packets'[i].start + packets'[i].size
    <3>1. i \in DOMAIN packets
      BY <1>3, <2>4
    <3>2. CASE i = Len(packets)
      BY <1>0, <1>3, <1>4, <3>1, <3>2 DEF InvStream
    <3>3. CASE i # Len(packets)
      <4>1. i + 1 \in DOMAIN packets
        BY <1>3, <3>1, <3>3
      <4> QED BY <1>0, <1>3, <3>1, <3>3, <4>1 DEF InvStream
    <3> QED BY <3>2, <3>3
  <2>5. ASSUME NEW i \in DOMAIN packets', NEW j \in DOMAIN packets', i < j
        PROVE  packets'[i].start < packets'[j].start
    <3>1. i \in DOMAIN packets
      BY <1>3, <2>5
    <3>2. CASE j = Len(packets) + 1
      BY <1>0, <1>1, <1>3, <1>4, <3>1, <3>2 DEF InvStream
    <3>3. CASE j # Len(packets) + 1
      <4>1. j \in DOMAIN packets
        BY <1>3, <3>3
      <4> QED BY <1>0, <1>3, <2>5, <3>1, <4>1 DEF InvStream
    <3> QED BY <3>2, <3>3
  <2>6. Len(packets') = 0 => total' = 0
    BY <1>3
  <2> QED BY <2>1, <2>2, <2>3, <2>4, <2>5, <2>6 DEF InvStream
<1>7. InvCursor'
  <2>1. arrived' - Rest' = arrived - Rest /\ handled' = handled
    BY DEF recvVars, Rest, DataSize
  <2>2. handled \in 0..Len(packets)
    BY <1>0 DEF RecvTypeOK
  <2>0. handled' < Len(packets')
    BY <1>3, <2>1, <2>2
  <2>3. CASE handled < Len(packets)
    <3>1. handled + 1 \in DOMAIN packets
      BY <1>3, <2>2, <2>3
    <3>2. packets'[handled + 1].start = arrived - Rest
      BY <1>0, <1>3, <2>3, <3>1 DEF InvCursor
    <3> QED BY <1>3, <2>0, <2>1, <2>2, <3>2 DEF InvCursor
  <2>4. CASE handled = Len(packets)
    <3>1. packets'[handled + 1].start = arrived - Rest
      BY <1>0, <1>3, <1>4, <2>4 DEF InvCursor
    <3> QED BY <1>3, <2>0, <2>1, <2>2, <3>1 DEF InvCursor
  <2> QED BY <2>2, <2>3, <2>4
<1>8. InvContents' /\ InvRoom' /\ ~ mangled'
  BY <1>0 DEF InvContents, InvRoom, Modest, recvVars
<1> QED BY <1>5, <1>6, <1>7, <1>8 DEF RecvInv

\* The facts about positions that every step of the receiver starts from.
LEMMA Positions ==
  RecvInv => /\ {total, arrived, readPos, writePos, processLen, handled, largest,
              Len(packets)} \subseteq Nat
          /\ arrived <= total /\ readPos <= writePos /\ writePos <= Capacity
          /\ readPos + processLen <= writePos
          /\ handled <= Len(packets) /\ largest <= Capacity
          /\ DOMAIN packets = 1 .. Len(packets)
          /\ \A i \in DOMAIN packets :
               /\ packets[i].start \in Nat /\ packets[i].size \in HeaderSize..MaxPacket
<1> SUFFICES ASSUME RecvInv PROVE Positions!2
  OBVIOUS
<1> USE BufferAssumption, CapacityNat DEF BufferAssumption
<1> DEFINE Packet == [start : Nat, size : HeaderSize..MaxPacket]
<1>1. RecvTypeOK
  BY DEF RecvInv
<1>2. packets \in Seq(Packet)
  BY <1>1 DEF RecvTypeOK
<1>3. \A i \in DOMAIN packets : packets[i] \in Packet
  <2> HIDE DEF Packet
  <2> QED BY <1>2
<1>4. Len(packets) \in Nat /\ DOMAIN packets = 1 .. Len(packets)
  <2> HIDE DEF Packet
  <2> QED BY <1>2
<1>5. /\ {total, arrived, readPos, writePos, processLen, handled, largest} \subseteq Nat
      /\ arrived <= total /\ readPos <= writePos /\ writePos <= Capacity
      /\ readPos + processLen <= writePos
      /\ handled <= Len(packets) /\ largest <= Capacity
  BY <1>1, <1>4 DEF RecvTypeOK, DataSize
<1>6. \A i \in DOMAIN packets :
        /\ packets[i].start \in Nat /\ packets[i].size \in HeaderSize..MaxPacket
  BY <1>3
<1> QED BY <1>4, <1>5, <1>6

\* The parser reads a whole packet exactly when the next one is all there.
LEMMA NextPacket ==
  ASSUME RecvInv, phase = "parsing"
  PROVE  /\ \A p \in DOMAIN packets : Complete(p) => p = handled + 1
         /\ Rest >= MaxPacket => \E p \in DOMAIN packets : Complete(p)
<1> USE BufferAssumption, CapacityNat DEF BufferAssumption
<1>p. /\ total \in Nat /\ arrived \in Nat /\ readPos \in Nat /\ writePos \in Nat
      /\ processLen \in Nat /\ handled \in Nat /\ largest \in Nat /\ Len(packets) \in Nat
      /\ arrived <= total /\ readPos <= writePos /\ writePos <= Capacity
      /\ readPos + processLen <= writePos
      /\ handled <= Len(packets) /\ largest <= Capacity
      /\ DOMAIN packets = 1 .. Len(packets)
  BY Positions
<1> USE <1>p
<1> DEFINE at == readPos + processLen
<1>0. InvStream /\ InvCursor /\ InvContents
  BY DEF RecvInv
<1>1. Rest \in Nat /\ Rest = writePos - at /\ at \in Nat
  BY DEF Rest, DataSize
<1>2. ASSUME Rest > 0
      PROVE  /\ buffer[at] = arrived - Rest
             /\ handled + 1 \in DOMAIN packets
             /\ packets[handled + 1].start = arrived - Rest
  <2>1. at \in 0 .. Capacity - 1 /\ readPos <= at /\ at < writePos
    BY <1>1, <1>2
  <2>2. buffer[at] = arrived - writePos + at
    BY <1>0, <2>1 DEF InvContents
  <2>3. buffer[at] = arrived - Rest
    BY <1>1, <2>2
  <2>4. handled < Len(packets)
    <3>1. ASSUME handled = Len(packets) PROVE FALSE
      <4>1. total = arrived - Rest
        BY <1>0, <3>1 DEF InvCursor
      <4>2. \A a, t, r \in Nat : a <= t /\ t = a - r => ~ (r > 0)
        OBVIOUS
      <4> QED BY <1>1, <1>2, <4>1, <4>2
    <3>2. \A h, l \in Nat : h <= l /\ h # l => h < l
      OBVIOUS
    <3>3. handled # Len(packets)
      BY <3>1
    <3> QED BY <3>2, <3>3
  <2>5. packets[handled + 1].start = arrived - Rest
    BY <1>0, <2>4 DEF InvCursor
  <2> QED BY <2>3, <2>4, <2>5
<1>3. ASSUME NEW p \in DOMAIN packets, Complete(p) PROVE p = handled + 1
  <2>1. Rest > 0 /\ packets[p].start = buffer[at]
    BY <1>1, <1>3 DEF Complete, HeaderAt
  <2>2. packets[p].start = packets[handled + 1].start /\ handled + 1 \in DOMAIN packets
    BY <1>2, <2>1
  <2>3. /\ p < handled + 1 => packets[p].start < packets[handled + 1].start
        /\ handled + 1 < p => packets[handled + 1].start < packets[p].start
    BY <1>0, <2>2 DEF InvStream
  <2>4. packets[p].start \in Nat /\ packets[handled + 1].start \in Nat
    BY <2>2, Positions
  <2>5. ~ (p < handled + 1) /\ ~ (handled + 1 < p)
    BY <2>2, <2>3, <2>4
  <2> QED BY <2>5
<1>4. ASSUME Rest >= MaxPacket PROVE Complete(handled + 1)
  <2>1. Rest > 0
    BY <1>1, <1>4
  <2>2. packets[handled + 1].size \in HeaderSize..MaxPacket /\ handled + 1 \in DOMAIN packets
    BY <1>2, <2>1, Positions
  <2>3. Rest >= HeaderSize /\ Rest >= packets[handled + 1].size
    BY <1>1, <1>4, <2>2
  <2>4. HeaderAt(handled + 1)
    BY <1>2, <2>1, <2>2 DEF HeaderAt
  <2> QED BY <2>3, <2>4 DEF Complete
<1>5. Rest >= MaxPacket => handled + 1 \in DOMAIN packets
  BY <1>1, <1>2
<1> QED BY <1>3, <1>4, <1>5

\* A receive adds bytes behind the others.
LEMMA ProcessRecvKeeps == ASSUME RecvInv, NEW n \in 1..Capacity, ProcessRecv(n) PROVE RecvInv'
<1> USE BufferAssumption, CapacityNat DEF BufferAssumption
<1>p. /\ total \in Nat /\ arrived \in Nat /\ readPos \in Nat /\ writePos \in Nat
      /\ processLen \in Nat /\ handled \in Nat /\ largest \in Nat /\ Len(packets) \in Nat
      /\ arrived <= total /\ readPos <= writePos /\ writePos <= Capacity
      /\ readPos + processLen <= writePos
      /\ handled <= Len(packets) /\ largest <= Capacity
      /\ DOMAIN packets = 1 .. Len(packets)
  BY Positions
<1> USE <1>p
<1>0. RecvTypeOK /\ InvStream /\ InvCursor /\ InvContents /\ InvRoom /\ ~ mangled
  BY DEF RecvInv
<1>1. /\ n \in Nat /\ n > 0 /\ writePos + n <= Capacity /\ arrived + n <= total
      /\ writePos' = writePos + n /\ arrived' = arrived + n
      /\ readPos' = readPos /\ handled' = handled /\ packets' = packets /\ total' = total
      /\ mangled' = mangled /\ processLen' = 0 /\ phase = "receiving" /\ phase' = "parsing"
      /\ largest' = IF n > largest THEN n ELSE largest
  BY DEF ProcessRecv, FreeSize, streamVars
<1>2. buffer \in [0 .. Capacity - 1 -> Nat]
  BY <1>0 DEF RecvTypeOK
<1>3. buffer' = [i \in 0 .. Capacity - 1 |->
        IF i >= writePos /\ i < writePos + n THEN arrived + (i - writePos) ELSE buffer[i]]
  BY <1>2 DEF ProcessRecv
<1>4. RecvTypeOK'
  <2>1. buffer' \in [0 .. Capacity - 1 -> Nat]
    <3>1. ASSUME NEW i \in 0 .. Capacity - 1 PROVE buffer'[i] \in Nat
      <4>1. CASE i >= writePos /\ i < writePos + n
        <5>1. buffer'[i] = arrived + (i - writePos)
          BY <1>3, <4>1
        <5> QED BY <4>1, <5>1
      <4>2. CASE ~ (i >= writePos /\ i < writePos + n)
        <5>1. buffer'[i] = buffer[i]
          BY <1>3, <4>2
        <5> QED BY <1>2, <5>1
      <4> QED BY <4>1, <4>2
    <3> QED BY <1>3, <3>1
  <2>2. packets' \in Seq([start : Nat, size : HeaderSize..MaxPacket]) /\ mangled' \in BOOLEAN
    BY <1>0, <1>1, Zenon DEF RecvTypeOK
  <2>3. /\ total' \in Nat /\ arrived' \in 0..total'
        /\ writePos' \in 0..Capacity /\ readPos' \in 0..writePos'
        /\ handled' \in 0..Len(packets') /\ largest' \in 0..Capacity
        /\ processLen' \in 0..(writePos' - readPos')
    <3>1. largest' \in Nat /\ largest' <= Capacity
      BY <1>1
    <3> QED BY <1>1, <3>1
  <2> QED BY <1>1, <2>1, <2>2, <2>3 DEF RecvTypeOK, DataSize
<1>5. InvStream' /\ ~ mangled'
  BY <1>0, <1>1 DEF InvStream
<1>6. InvCursor'
  <2>1. processLen = 0
    BY <1>0, <1>1 DEF InvRoom
  <2>2. arrived' - Rest' = arrived - Rest
    BY <1>1, <2>1 DEF Rest, DataSize
  <2> QED BY <1>0, <1>1, <2>2 DEF InvCursor
<1>7. InvContents'
  <2> SUFFICES ASSUME NEW i \in 0 .. Capacity - 1, readPos <= i, i < writePos + n
               PROVE  buffer'[i] = arrived + n - (writePos + n) + i
    BY <1>1 DEF InvContents
  <2>1. CASE i < writePos
    <3>1. buffer[i] = arrived - writePos + i
      BY <1>0, <2>1 DEF InvContents
    <3>2. buffer'[i] = buffer[i]
      BY <1>3, <2>1
    <3> QED BY <1>1, <2>1, <3>1, <3>2
  <2>2. CASE i >= writePos
    <3>1. buffer'[i] = arrived + (i - writePos)
      BY <1>3, <2>2
    <3> QED BY <1>1, <2>2, <3>1
  <2> QED BY <2>1, <2>2
<1>8. InvRoom'
  <2>1. ASSUME Modest' PROVE readPos' = 0 /\ writePos' < MaxPacket + largest'
    <3>1. Modest /\ largest' >= n
      BY <1>1, <2>1 DEF Modest
    <3>2. readPos = 0 /\ writePos < MaxPacket
      BY <1>0, <1>1, <3>1 DEF InvRoom
    <3> QED BY <1>1, <3>1, <3>2
  <2> QED BY <1>1, <2>1 DEF InvRoom
<1> QED BY <1>4, <1>5, <1>6, <1>7, <1>8 DEF RecvInv

\* A receive without room never completes while receives are modest.
LEMMA ReceiveNothingKeeps == RecvInv /\ ReceiveNothing => RecvInv'
<1> SUFFICES ASSUME RecvInv, ReceiveNothing PROVE RecvInv'
  OBVIOUS
<1> USE BufferAssumption, CapacityNat DEF BufferAssumption
<1>p. /\ total \in Nat /\ arrived \in Nat /\ readPos \in Nat /\ writePos \in Nat
      /\ processLen \in Nat /\ handled \in Nat /\ largest \in Nat /\ Len(packets) \in Nat
      /\ arrived <= total /\ readPos <= writePos /\ writePos <= Capacity
      /\ readPos + processLen <= writePos
      /\ handled <= Len(packets) /\ largest <= Capacity
      /\ DOMAIN packets = 1 .. Len(packets)
  BY Positions
<1> USE <1>p
<1>0. RecvTypeOK /\ InvStream /\ InvCursor /\ InvContents /\ InvRoom /\ ~ mangled
  BY DEF RecvInv
<1>1. /\ UNCHANGED <<arrived, buffer, readPos, writePos, processLen, handled, mangled, largest,
                     packets, total>>
      /\ phase = "receiving" /\ phase' = "closed" /\ writePos = Capacity
  BY DEF ReceiveNothing, FreeSize, streamVars
<1>2. ~ Modest
  BY <1>0, <1>1 DEF InvRoom, Modest
<1>3. RecvTypeOK'
  BY <1>0, <1>1 DEF RecvTypeOK, DataSize
<1>4. InvStream' /\ InvCursor' /\ InvContents'
  BY <1>0, <1>1 DEF InvStream, InvCursor, InvContents, Rest, DataSize
<1>5. InvRoom' /\ ~ mangled'
  BY <1>0, <1>1, <1>2 DEF InvRoom, Modest
<1> QED BY <1>3, <1>4, <1>5 DEF RecvInv

\* OnRecv gets the next packet, all of it.
LEMMA ParsePacketKeeps ==
  ASSUME RecvInv, NEW p \in 1..MaxPackets, ParsePacket(p) PROVE RecvInv'
<1> USE BufferAssumption, CapacityNat DEF BufferAssumption
<1>p. /\ total \in Nat /\ arrived \in Nat /\ readPos \in Nat /\ writePos \in Nat
      /\ processLen \in Nat /\ handled \in Nat /\ largest \in Nat /\ Len(packets) \in Nat
      /\ arrived <= total /\ readPos <= writePos /\ writePos <= Capacity
      /\ readPos + processLen <= writePos
      /\ handled <= Len(packets) /\ largest <= Capacity
      /\ DOMAIN packets = 1 .. Len(packets)
  BY Positions
<1> USE <1>p
<1>0. RecvTypeOK /\ InvStream /\ InvCursor /\ InvContents /\ InvRoom /\ ~ mangled
  BY DEF RecvInv
<1>1. /\ UNCHANGED <<arrived, buffer, readPos, writePos, phase, largest, packets, total>>
      /\ phase = "parsing" /\ Complete(p) /\ p \in DOMAIN packets
      /\ processLen' = processLen + packets[p].size /\ handled' = handled + 1
      /\ mangled' = (mangled \/ p # handled + 1 \/ ~ IsPacket(p, readPos + processLen))
  BY DEF ParsePacket, Complete, HeaderAt, streamVars
<1>2. p = handled + 1
  BY <1>1, NextPacket
<1>3. /\ Rest >= packets[p].size /\ Rest = writePos - readPos - processLen
      /\ packets[p].size \in Nat /\ packets[p].size > 0
      /\ packets[p].start = arrived - Rest
  <2>1. packets[p].size \in HeaderSize..MaxPacket /\ p \in 1 .. Len(packets)
    BY <1>1, Positions
  <2>2. packets[p].start = arrived - Rest
    <3>1. handled < Len(packets)
      BY <1>2, <2>1
    <3> QED BY <1>0, <1>2, <3>1 DEF InvCursor
  <2>3. Rest >= packets[p].size /\ Rest = writePos - readPos - processLen
    BY <1>1 DEF Complete, Rest, DataSize
  <2>4. packets[p].size \in Nat /\ packets[p].size > 0
    BY <2>1
  <2> QED BY <2>2, <2>3, <2>4
<1>4. RecvTypeOK'
  <2>1. processLen' \in 0 .. (writePos' - readPos')
    <3>1. /\ writePos \in Nat /\ readPos \in Nat /\ processLen \in Nat
      BY <1>0 DEF RecvTypeOK, DataSize
    <3>2. /\ writePos' = writePos /\ readPos' = readPos
          /\ processLen' = processLen + packets[p].size
      BY ONLY <1>1
    <3>3. processLen' \in Nat
      BY ONLY <1>3, <3>1, <3>2
    <3>4. processLen' <= writePos' - readPos'
      BY ONLY <1>3, <3>1, <3>2
    <3> QED BY ONLY <3>1, <3>2, <3>3, <3>4
  <2>2. handled' \in 0 .. Len(packets')
    BY <1>1, <1>2
  <2>3. mangled' \in BOOLEAN
    BY <1>1, Zenon
  <2>4. /\ packets' \in Seq([start : Nat, size : HeaderSize..MaxPacket])
        /\ buffer' \in [0 .. Capacity - 1 -> Nat]
        /\ phase' \in {"receiving", "parsing", "closed"}
    BY <1>0, <1>1 DEF RecvTypeOK
  <2>5. /\ total' \in Nat /\ arrived' \in 0..total' /\ largest' \in 0..Capacity
        /\ writePos' \in 0..Capacity /\ readPos' \in 0..writePos'
    BY <1>1
  <2> QED BY <2>1, <2>2, <2>3, <2>4, <2>5 DEF RecvTypeOK, DataSize
<1>5. ~ mangled'
  <2>1. ASSUME NEW i \in 0 .. packets[p].size - 1
        PROVE  buffer[readPos + processLen + i] = packets[p].start + i
    <3>1. /\ readPos + processLen + i \in 0 .. Capacity - 1
          /\ readPos <= readPos + processLen + i /\ readPos + processLen + i < writePos
      <4>1. i \in Nat /\ i < packets[p].size
        BY <1>3
      <4>2. i < writePos - readPos - processLen
        BY <1>3, <4>1
      <4> HIDE <1>3
      <4> QED BY <4>1, <4>2
    <3>2. buffer[readPos + processLen + i] = arrived - writePos + (readPos + processLen + i)
      BY <1>0, <3>1 DEF InvContents
    <3>3. packets[p].start = arrived - (writePos - readPos - processLen) /\ i \in Int
      BY <1>3
    <3> HIDE <1>3
    <3> QED BY <3>2, <3>3
  <2>2. IsPacket(p, readPos + processLen)
    BY <2>1 DEF IsPacket
  <2> QED BY <1>0, <1>1, <1>2, <2>2
<1>6. InvCursor'
  <2>1. arrived' - Rest' = packets[p].start + packets[p].size
    <3>1. arrived' - Rest' = arrived - (writePos - readPos - (processLen + packets[p].size))
      BY <1>1 DEF Rest, DataSize
    <3> QED BY <1>3, <3>1
  <2>2. CASE p = Len(packets)
    <3>1. packets[p].start + packets[p].size = total
      BY <1>0, <1>1, <2>2 DEF InvStream
    <3>2. total' = arrived' - Rest' /\ handled' = Len(packets')
      BY <1>1, <1>2, <2>1, <2>2, <3>1
    <3>3. ~ (handled' < Len(packets'))
      <4>1. \A h, l \in Nat : h = l => ~ (h < l)
        OBVIOUS
      <4> QED BY <1>1, <1>2, <3>2, <4>1
    <3> QED BY <3>2, <3>3 DEF InvCursor
  <2>3. CASE p # Len(packets)
    <3>1. packets[p + 1].start = packets[p].start + packets[p].size
      BY <1>0, <1>1, <2>3 DEF InvStream
    <3> QED BY <1>1, <1>2, <2>1, <2>3, <3>1 DEF InvCursor
  <2> QED BY <2>2, <2>3
<1>7. InvStream' /\ InvContents' /\ InvRoom'
  BY <1>0, <1>1 DEF InvStream, InvContents, InvRoom, Modest
<1> QED BY <1>4, <1>5, <1>6, <1>7 DEF RecvInv

\* Less than a packet is left when the parser stops, and Clean moves it.
LEMMA ParseEndKeeps == RecvInv /\ ParseEnd => RecvInv'
<1> SUFFICES ASSUME RecvInv, ParseEnd PROVE RecvInv'
  OBVIOUS
<1> USE BufferAssumption, CapacityNat DEF BufferAssumption
<1>p. /\ total \in Nat /\ arrived \in Nat /\ readPos \in Nat /\ writePos \in Nat
      /\ processLen \in Nat /\ handled \in Nat /\ largest \in Nat /\ Len(packets) \in Nat
      /\ arrived <= total /\ readPos <= writePos /\ writePos <= Capacity
      /\ readPos + processLen <= writePos
      /\ handled <= Len(packets) /\ largest <= Capacity
      /\ DOMAIN packets = 1 .. Len(packets)
  BY Positions
<1> USE <1>p
<1> DEFINE read == readPos + processLen
<1>0. RecvTypeOK /\ InvStream /\ InvCursor /\ InvContents /\ InvRoom /\ ~ mangled
  BY DEF RecvInv
<1>1. /\ UNCHANGED <<arrived, handled, mangled, largest, packets, total>>
      /\ phase = "parsing" /\ phase' = "receiving" /\ processLen' = 0
      /\ Clean(read)
      /\ \A p \in DOMAIN packets : ~ Complete(p)
  BY DEF ParseEnd, streamVars
<1>2. Rest < MaxPacket /\ Rest = writePos - read /\ read \in Nat /\ Rest \in Nat
  <2>1. Rest \in Nat /\ Rest = writePos - read
    BY DEF Rest, DataSize
  <2> QED BY <1>1, <2>1, NextPacket
<1>3. buffer \in [0 .. Capacity - 1 -> Nat]
  BY <1>0 DEF RecvTypeOK
<1> DEFINE moved == [i \in 0 .. Capacity - 1 |->
                       IF i < writePos - read THEN buffer[read + i] ELSE buffer[i]]
<1>4. \/ writePos = read /\ readPos' = 0 /\ writePos' = 0 /\ buffer' = buffer
      \/ writePos # read /\ buffer' = moved /\ readPos' = 0 /\ writePos' = writePos - read
      \/ /\ writePos # read /\ ~ (Capacity - writePos > BufferSize)
         /\ readPos' = read /\ writePos' = writePos /\ buffer' = buffer
  <2>1. DOMAIN buffer = 0 .. Capacity - 1
    BY <1>3
  <2> HIDE DEF read
  <2> QED BY <1>1, <2>1 DEF Clean, FreeSize
<1> HIDE DEF moved
<1>5. /\ readPos' \in Nat /\ writePos' \in Nat /\ readPos' <= writePos' /\ writePos' <= Capacity
      /\ writePos' - readPos' = Rest
  BY <1>2, <1>4
<1>a. 0 .. (writePos' - readPos') = 0 .. Rest /\ 0 \in 0 .. Rest
  <2>1. \A r \in Nat : 0 \in 0 .. r
    OBVIOUS
  <2> QED BY <1>2, <1>5, <2>1
<1>6. buffer' \in [0 .. Capacity - 1 -> Nat]
  <2>1. ASSUME NEW i \in 0 .. Capacity - 1, i < writePos - read
        PROVE  read + i \in 0 .. Capacity - 1
    BY <1>2, <2>1
  <2>2. moved \in [0 .. Capacity - 1 -> Nat]
    <3> HIDE DEF read
    <3> QED BY <1>3, <2>1 DEF moved
  <2> QED BY <1>3, <1>4, <2>2
<1>7. RecvTypeOK'
  <2>1. packets' \in Seq([start : Nat, size : HeaderSize..MaxPacket]) /\ mangled' \in BOOLEAN
    BY <1>0, <1>1, Zenon DEF RecvTypeOK
  <2>2. /\ total' \in Nat /\ arrived' \in 0..total' /\ largest' \in 0..Capacity
        /\ handled' \in 0..Len(packets') /\ phase' \in {"receiving", "parsing", "closed"}
    BY <1>1
  <2>3. /\ writePos' \in 0..Capacity /\ readPos' \in 0..writePos'
        /\ processLen' \in 0..(writePos' - readPos')
    <3>1. \A r, w, c \in Nat : r <= w /\ w <= c => w \in 0..c /\ r \in 0..w
      OBVIOUS
    <3> QED BY <1>1, <1>5, <1>a, <3>1
  <2> QED BY <1>6, <2>1, <2>2, <2>3 DEF RecvTypeOK, DataSize
<1>8. InvStream' /\ ~ mangled'
  BY <1>0, <1>1 DEF InvStream
<1>9. InvCursor'
  <2>1. Rest' = Rest
    <3>1. Rest' = (writePos' - readPos') - 0
      BY <1>1 DEF Rest, DataSize
    <3>2. \A a \in Nat : a - 0 = a
      OBVIOUS
    <3> QED BY <1>2, <1>5, <3>1, <3>2
  <2> QED BY <1>0, <1>1, <2>1 DEF InvCursor
<1>10. InvContents'
  <2> SUFFICES ASSUME NEW i \in 0 .. Capacity - 1, readPos' <= i, i < writePos'
               PROVE  buffer'[i] = arrived - writePos' + i
    BY <1>1 DEF InvContents
  <2>1. CASE writePos = read /\ writePos' = 0
    BY <2>1
  <2>2. CASE buffer' = moved /\ readPos' = 0 /\ writePos' = writePos - read
    <3>1. read + i \in 0 .. Capacity - 1 /\ readPos <= read + i /\ read + i < writePos
      <4>1. i \in Nat /\ i < writePos - read /\ readPos <= read
        BY <2>2
      <4> QED BY <1>2, <4>1
    <3>2. buffer[read + i] = arrived - writePos + (read + i)
      BY <1>0, <3>1 DEF InvContents
    <3>3. buffer'[i] = buffer[read + i]
      <4>1. i < writePos - read
        BY <2>2
      <4> HIDE DEF read
      <4> QED BY <2>2, <4>1 DEF moved
    <3> QED BY <1>2, <2>2, <3>2, <3>3
  <2>3. CASE readPos' = read /\ writePos' = writePos /\ buffer' = buffer
    BY <1>0, <1>2, <2>3 DEF InvContents
  <2> QED BY <1>4, <2>1, <2>2, <2>3
<1>11. InvRoom'
  <2>1. ASSUME Modest' PROVE readPos' = 0 /\ writePos' < MaxPacket
    <3>1. writePos < MaxPacket + largest /\ largest + MaxPacket + BufferSize <= Capacity
      BY <1>0, <1>1, <2>1 DEF InvRoom, Modest
    <3>2. readPos' = 0
      BY <1>4, <3>1
    <3>3. \A a, b \in Nat : a - 0 = b => a = b
      OBVIOUS
    <3>4. writePos' = Rest
      BY <1>2, <1>5, <3>2, <3>3
    <3> QED BY <1>2, <3>2, <3>4
  <2> QED BY <1>1, <2>1 DEF InvRoom
<1> QED BY <1>7, <1>8, <1>9, <1>10, <1>11 DEF RecvInv

\* The invariant holds in every reachable state.
LEMMA RecvInvariance == RecvSpec => []RecvInv
<1>1. RecvInv /\ [RecvNext]_<<streamVars, recvVars>> => RecvInv'
  <2> SUFFICES ASSUME RecvInv, [RecvNext]_<<streamVars, recvVars>> PROVE RecvInv'
    OBVIOUS
  <2>1. CASE Send
    BY <2>1, SendKeeps
  <2>2. CASE \E n \in 1..Capacity : ProcessRecv(n)
    BY <2>2, ProcessRecvKeeps
  <2>3. CASE ReceiveNothing
    BY <2>3, ReceiveNothingKeeps
  <2>4. CASE \E p \in 1..MaxPackets : ParsePacket(p)
    BY <2>4, ParsePacketKeeps
  <2>5. CASE ParseEnd
    BY <2>5, ParseEndKeeps
  <2>6. CASE UNCHANGED <<streamVars, recvVars>>
    BY <2>6 DEF RecvInv, RecvTypeOK, InvStream, InvCursor, InvContents, InvRoom, Modest, Rest,
                DataSize, streamVars, recvVars
  <2> QED BY <2>1, <2>2, <2>3, <2>4, <2>5, <2>6 DEF RecvNext, RecvStep
<1> QED BY <1>1, InitRecvInv, PTL DEF RecvSpec

\* Positions stay inside the buffer for every size of buffer and packet.
THEOREM RecvTypeCorrect == RecvSpec => []RecvTypeOK
<1>1. RecvInv => RecvTypeOK
  BY DEF RecvInv
<1> QED BY <1>1, RecvInvariance, PTL

\* OnRecv gets the packets of the stream whole, once and in order, for every
\* way receives cut it and however often Clean moves what is left.
THEOREM PacketsInOrder == RecvSpec => []HandledInOrder
<1>1. RecvInv => HandledInOrder
  BY DEF RecvInv, HandledInOrder
<1> QED BY <1>1, RecvInvariance, PTL

\* Receives that leave room for a packet and BufferSize bytes never lead to a
\* receive without room.
THEOREM RoomForEveryReceive == RecvSpec => []AlwaysRoom
<1>1. RecvInv => AlwaysRoom
  <2> SUFFICES ASSUME RecvInv, Modest PROVE phase # "closed" /\ (phase = "receiving" => FreeSize > 0)
    BY DEF AlwaysRoom, Modest
  <2> QED BY Positions, BufferAssumption, CapacityNat
          DEF RecvInv, InvRoom, Modest, FreeSize, BufferAssumption
<1> QED BY <1>1, RecvInvariance, PTL

-----------------------------------------------------------------------------
(* The whole way: PacketPipe *)

\* A buffer is as long as a packet that is made, and fits its chunk.
InvSizes ==
  /\ \A t \in Threads : maker[t].pc = "swap" => maker[t].size \in Sizes
  /\ \A b \in Buffers : area[b].chunk # None =>
       area[b].size \in Sizes /\ area[b].size <= ChunkSize

\* A buffer is given to the TCP session once, when it is written, and the
\* session holds it until the kernel has completed it.
InvTcp ==
  /\ \A i \in DOMAIN sendQueue :
       Tcp \in holders[sendQueue[i]] /\ sendQueue[i] <= opened
  /\ \A i \in DOMAIN sent : sent[i] <= opened
  /\ \A i, j \in DOMAIN sendQueue : sendQueue[i] = sendQueue[j] => i = j
  /\ \A i \in DOMAIN sendQueue, j \in DOMAIN sent : sendQueue[i] # sent[j]
  /\ \A t \in Threads : Tcp \in maker[t].targets \/ maker[t].pc = "write" =>
       /\ \A i \in DOMAIN sendQueue : sendQueue[i] # maker[t].buffer
       /\ \A i \in DOMAIN sent : sent[i] # maker[t].buffer

\* The stream has the bytes of a packet for each, and they are one buffer's.
InvWire ==
  /\ wire \in Seq(Seq(Buffers)) /\ Len(wire) = Len(packets)
  /\ \A p \in DOMAIN wire : Shown(p) \in Buffers

GivenInv == InvSizes /\ InvTcp

\* What most steps leave to the TCP session: its buffers, and who is about to
\* give it one.
Aside ==
  /\ UNCHANGED <<sendQueue, sent, opened>>
  /\ \A b \in Buffers : Tcp \in holders[b] => Tcp \in holders'[b]
  /\ \A b \in Buffers : area'[b] = area[b] \/ area'[b].chunk = None
  /\ \A t \in Threads :
       /\ maker'[t].pc = "swap" =>
            \/ maker'[t].size \in Sizes
            \/ maker[t].pc = "swap" /\ maker'[t].size = maker[t].size
       /\ Tcp \in maker'[t].targets \/ maker'[t].pc = "write" =>
            /\ Tcp \in maker[t].targets \/ maker[t].pc = "write"
            /\ maker'[t].buffer = maker[t].buffer

\* Such a step keeps what is known of the TCP session's buffers.
LEMMA AsideStep == ASSUME TypeOK, GivenInv, Aside PROVE GivenInv'
<1>1. \A i \in DOMAIN sendQueue : sendQueue[i] \in Buffers
  <2>1. sendQueue \in Seq(Buffers)
    BY DEF TypeOK
  <2> QED BY <2>1
<1>2. InvSizes'
  BY DEF GivenInv, InvSizes, Aside
<1>3. InvTcp'
  BY <1>1 DEF GivenInv, InvTcp, Aside
<1> QED BY <1>2, <1>3 DEF GivenInv

\* A reference that goes, and is not the TCP session's, is such a step.
LEMMA ReleaseAside ==
  ASSUME TypeOK, NEW b, NEW h, h # Tcp, Release(b, h)
  PROVE  /\ opened' = opened
         /\ \A x \in Buffers : Tcp \in holders[x] => Tcp \in holders'[x]
         /\ \A x \in Buffers : area'[x] = area[x] \/ area'[x].chunk = None
<1>1. opened' = opened
  BY DEF Release
<1>2. \A x \in Buffers : Tcp \in holders[x] => Tcp \in holders'[x]
  BY DEF Release, TypeOK
<1>3. area' = [area EXCEPT ![b] = NoArea] \/ area' = area
  BY DEF Release
<1>4. \A x \in Buffers : area'[x] = area[x] \/ area'[x].chunk = None
  BY <1>3 DEF TypeOK, NoArea
<1> QED BY <1>1, <1>2, <1>4

\* The maker's own steps but for the opening of a buffer and Send.
LEMMA MakerAside ==
  ASSUME IInv, NEW t \in Threads,
         \/ \E size \in Sizes : PopChunk(t, size)
         \/ Write(t) \/ Forget(t) \/ Overwrite(t)
         \/ \E p \in Peers : TakeNumber(t, p)
         \/ Increment(t) \/ Stamp(t) \/ Insert(t) \/ SendUdp(t)
  PROVE  Aside
<1>0. TypeOK /\ ChunkInv /\ UdpInv
  BY DEF IInv, ChunkInv
<1> DEFINE Mine ==
       /\ maker'[t].pc = "swap" =>
            \/ maker'[t].size \in Sizes
            \/ maker[t].pc = "swap" /\ maker'[t].size = maker[t].size
       /\ Tcp \in maker'[t].targets \/ maker'[t].pc = "write" =>
            /\ Tcp \in maker[t].targets \/ maker[t].pc = "write"
            /\ maker'[t].buffer = maker[t].buffer
<1>1. ASSUME NEW size \in Sizes, PopChunk(t, size) PROVE Aside
  <2> DEFINE r == [NotMaking EXCEPT !.pc = "swap", !.size = size,
                     !.chunk = IF pool = <<>> THEN made' ELSE pool[Len(pool)]]
  <2>1. UNCHANGED <<sendQueue, sent, opened, holders, area>> /\ maker' = [maker EXCEPT ![t] = r]
    BY <1>1 DEF PopChunk, tcpVars
  <2>2. r.size = size /\ r.targets = {} /\ r.pc = "swap"
    BY DEF NotMaking
  <2> HIDE DEF r
  <2>3. maker'[t] = r /\ \A u \in Threads : u # t => maker'[u] = maker[u]
    BY <1>0, <2>1, MakerFacts
  <2> QED BY <2>1, <2>2, <2>3 DEF Aside
<1>2. CASE Write(t) \/ Increment(t) \/ Stamp(t) \/ Insert(t) \/ SendUdp(t)
  <2>1. PICK place \in {"send", "stamp", "insert", "send udp"} : Goto(t, place)
    BY <1>2 DEF Write, Increment, Stamp, Insert, SendUdp
  <2>2. /\ maker'[t].pc = place /\ maker'[t].buffer = maker[t].buffer
        /\ maker'[t].targets = maker[t].targets
        /\ \A u \in Threads : u # t => maker'[u] = maker[u]
    BY <1>0, <2>1, GotoTyped DEF Places
  <2>3. UNCHANGED <<sendQueue, sent, opened, area>>
    BY <1>2 DEF Write, Increment, Stamp, Insert, SendUdp, tcpVars, bufferVars
  <2>4. \A b \in Buffers : Tcp \in holders[b] => Tcp \in holders'[b]
    <3>1. CASE Insert(t)
      <4>1. holders' = [holders EXCEPT ![maker[t].buffer] = @ \cup {maker[t].peer}]
        BY <3>1 DEF Insert
      <4> QED BY <1>0, <4>1 DEF TypeOK
    <3>2. CASE ~ Insert(t)
      BY <1>2, <3>2 DEF Write, Increment, Stamp, SendUdp
    <3> QED BY <3>1, <3>2
  <2> QED BY <2>1, <2>2, <2>3, <2>4 DEF Aside
<1>3. ASSUME NEW p \in Peers, TakeNumber(t, p) PROVE Aside
  <2>1. UNCHANGED <<sendQueue, sent, opened, holders, area>>
    BY <1>3 DEF TakeNumber, tcpVars, bufferVars
  <2>2. /\ maker'[t].pc = "increment" /\ maker'[t].buffer = maker[t].buffer
        /\ maker'[t].targets = maker[t].targets \ {p}
        /\ \A u \in Threads : u # t => maker'[u] = maker[u]
    BY <1>0, <1>3, TakeNumberFacts
  <2> QED BY <2>1, <2>2 DEF Aside
<1>4. CASE Forget(t)
  <2>1. /\ UNCHANGED <<sendQueue, sent>> /\ Release(maker[t].buffer, t)
        /\ maker' = [maker EXCEPT ![t] = NotMaking]
    BY <1>4 DEF Forget, tcpVars
  <2>2. maker'[t] = NotMaking /\ \A u \in Threads : u # t => maker'[u] = maker[u]
    BY <1>0, <2>1 DEF TypeOK
  <2>3. Mine
    BY <2>2 DEF NotMaking
  <2>4. t # Tcp
    BY Constants
  <2> QED BY <1>0, <2>1, <2>2, <2>3, <2>4, ReleaseAside DEF Aside
<1>5. CASE Overwrite(t)
  <2>1. PICK e \in pending : Release(e.buffer, e.peer)
    BY <1>5 DEF Overwrite, Under
  <2>2. UNCHANGED <<sendQueue, sent, maker>>
    BY <1>5 DEF Overwrite, tcpVars
  <2>3. e.peer # Tcp
    BY <1>0, Constants, UdpFacts
  <2> QED BY <1>0, <2>1, <2>2, <2>3, ReleaseAside DEF Aside
<1> QED BY <1>1, <1>2, <1>3, <1>4, <1>5

\* The kernel's steps but for those that move or drop the TCP session's buffers.
LEMMA KernelAside ==
  ASSUME IInv, \/ \E d \in datagrams : UdpRead(d)
               \/ \E e \in pending : HandleAck(e)
               \/ RegisterSend
               \/ UNCHANGED sendVars
  PROVE  Aside
<1>0. TypeOK /\ UdpInv
  BY DEF IInv, ChunkInv
<1>1. ASSUME NEW d \in datagrams, UdpRead(d) PROVE Aside
  BY <1>1 DEF UdpRead, bufferVars, tcpVars, Aside
<1>2. ASSUME NEW e \in pending, HandleAck(e) PROVE Aside
  <2>1. /\ UNCHANGED <<sendQueue, sent, maker>> /\ Release(e.buffer, e.peer)
    BY <1>2 DEF HandleAck, tcpVars
  <2>2. e.peer # Tcp
    BY <1>0, Constants, UdpFacts
  <2> QED BY <1>0, <2>1, <2>2, ReleaseAside DEF Aside
<1>3. CASE RegisterSend
  BY <1>3 DEF RegisterSend, bufferVars, Aside
<1>4. CASE UNCHANGED sendVars
  BY <1>4 DEF sendVars, bufferVars, tcpVars, Aside
<1> QED BY <1>1, <1>2, <1>3, <1>4

\* A buffer that is opened is a new one, and fits.
LEMMA OpenPipe ==
  ASSUME IInv, GivenInv, NEW t \in Threads,
         (\E size \in Sizes : Open(t, size)) \/ SwapChunk(t)
  PROVE  GivenInv'
<1>0. ChunkInv /\ TypeOK /\ InvMaker
  BY DEF IInv, ChunkInv
<1>1. PICK size \in Sizes, c \in Chunks, table \in [Chunks -> ChunkType] :
        OpenIn(t, c, table, size)
  <2>1. ASSUME NEW size \in Sizes, Open(t, size)
        PROVE  /\ current[t] \in Chunks /\ chunks \in [Chunks -> ChunkType]
               /\ OpenIn(t, current[t], chunks, size)
    BY <1>0, <2>1, Typed DEF Open, HasRoom, TypeOK, ChunkType
  <2>2. ASSUME SwapChunk(t)
        PROVE  /\ maker[t].size \in Sizes /\ maker[t].chunk \in Chunks
               /\ Reset(maker[t].chunk) \in [Chunks -> ChunkType]
               /\ OpenIn(t, maker[t].chunk, Reset(maker[t].chunk), maker[t].size)
    <3> DEFINE c == maker[t].chunk
    <3>1. maker[t].pc = "swap" /\ OpenIn(t, c, Reset(c), maker[t].size)
      BY <2>2 DEF SwapChunk, At
    <3>2. maker[t].size \in Sizes
      BY <3>1 DEF GivenInv, InvSizes
    <3>3. c \in Chunks
      <4>1. c # None
        BY <1>0, <3>1 DEF InvMaker
      <4> QED BY <1>0, <4>1, Typed
    <3>4. Reset(c) \in [Chunks -> ChunkType]
      <4>1. chunks \in [Chunks -> ChunkType]
        BY <1>0 DEF TypeOK, ChunkType
      <4>2. [chunks[c] EXCEPT !.open = FALSE, !.used = 0] \in ChunkType
        BY <3>3, <4>1 DEF ChunkType
      <4>3. Reset(c) = [chunks EXCEPT ![c] = [chunks[c] EXCEPT !.open = FALSE, !.used = 0]]
        BY <4>1 DEF Reset, ChunkType
      <4> HIDE DEF c
      <4> QED BY <4>1, <4>2, <4>3
    <3> QED BY <3>1, <3>2, <3>3, <3>4
  <2> QED BY <2>1, <2>2
<1>2. size \in Nat /\ ChunkSize \in Nat
  BY Constants
<1>3. /\ \A u \in Threads : u # t => maker'[u] = maker[u]
      /\ maker'[t].pc = "write" /\ opened' = opened + 1 /\ opened' \in Nat
      /\ Refused(t, c, table, size) \/ Opened(t, c, table, size)
  BY <1>0, <1>1, <1>2, OpenInFacts
<1>4. UNCHANGED <<sendQueue, sent>> /\ maker[t].pc \in {"idle", "swap"}
  BY DEF Open, SwapChunk, tcpVars, At
<1>5. maker[t].buffer = None
  BY <1>0, <1>4 DEF InvMaker
<1>6. /\ \A i \in DOMAIN sendQueue : sendQueue[i] \in Buffers
      /\ \A i \in DOMAIN sent : sent[i] \in Buffers
      /\ \A b \in Buffers : b \in Nat /\ b # None
      /\ opened \in Nat
  <2>1. sendQueue \in Seq(Buffers) /\ sent \in Seq(Buffers)
    BY <1>0 DEF TypeOK
  <2> QED BY <1>0, <2>1, Typed
<1>7. CASE Refused(t, c, table, size)
  <2>1. area' = area /\ holders' = holders /\ maker'[t].buffer = None
    BY <1>5, <1>7 DEF Refused
  <2>2. InvSizes'
    BY <1>3, <2>1 DEF GivenInv, InvSizes
  <2>3. InvTcp'
    BY <1>3, <1>4, <1>6, <2>1 DEF GivenInv, InvTcp
  <2> QED BY <2>2, <2>3 DEF GivenInv
<1>8. CASE Opened(t, c, table, size)
  <2>1. /\ \A b \in Buffers : b # opened' => area'[b] = area[b] /\ holders'[b] = holders[b]
        /\ area'[opened'].size = size /\ maker'[t].buffer = opened'
        /\ table[c].used + size <= ChunkSize
    BY <1>8 DEF Opened
  <2>2. size <= ChunkSize
    <3>1. table[c].used \in Nat
      BY <1>1 DEF ChunkType
    <3> QED BY <1>2, <2>1, <3>1
  <2>3. InvSizes'
    BY <1>3, <2>1, <2>2 DEF GivenInv, InvSizes
  <2>4. InvTcp'
    BY <1>3, <1>4, <1>6, <2>1 DEF GivenInv, InvTcp
  <2> QED BY <2>3, <2>4 DEF GivenInv
<1> QED BY <1>3, <1>7, <1>8

\* Send puts the buffer behind the others: it is not there yet.
LEMMA SendTcpPipe ==
  ASSUME IInv, GivenInv, NEW t \in Threads, SendTcp(t)
  PROVE  GivenInv' /\ sendQueue' = Append(sendQueue, maker[t].buffer) /\ maker[t].buffer \in Buffers
<1>0. ChunkInv /\ TypeOK /\ InvHolders
  BY DEF IInv, ChunkInv
<1>1. PICK b \in Buffers : b = maker[t].buffer
  BY <1>0, Making DEF SendTcp, At
<1>2. /\ ~ crash /\ maker[t].pc = "send" /\ Tcp \in maker[t].targets
      /\ maker' = [maker EXCEPT ![t].targets = @ \ {Tcp}]
      /\ holders' = [holders EXCEPT ![b] = @ \cup {Tcp}]
      /\ sendQueue' = Append(sendQueue, b)
      /\ UNCHANGED <<sent, opened, area>>
  BY <1>1 DEF SendTcp, At, bufferVars
<1>3. /\ maker'[t].pc = "send" /\ maker'[t].buffer = b /\ Tcp \notin maker'[t].targets
      /\ \A u \in Threads : u # t => maker'[u] = maker[u]
  <2>1. maker[t] \in MakerType
    BY <1>0 DEF TypeOK, MakerType
  <2>2. maker'[t] = [maker[t] EXCEPT !.targets = @ \ {Tcp}]
    BY <1>0, <1>2 DEF TypeOK
  <2>3. \A u \in Threads : u # t => maker'[u] = maker[u]
    BY <1>0, <1>2 DEF TypeOK
  <2> QED BY <1>1, <1>2, <2>1, <2>2, <2>3 DEF MakerType
<1>4. b <= opened
  <2>1. t \in holders[b]
    BY <1>0, <1>1 DEF InvHolders
  <2> QED BY <1>0, <2>1, Typed DEF InvHolders
<1>5. \A x \in Buffers : Tcp \in holders'[x] <=> Tcp \in holders[x] \/ x = b
  BY <1>0, <1>2 DEF TypeOK
<1>6. /\ sendQueue \in Seq(Buffers)
      /\ DOMAIN sendQueue = 1..Len(sendQueue) /\ Len(sendQueue) \in Nat
      /\ DOMAIN sendQueue' = 1..(Len(sendQueue) + 1)
      /\ \A i \in DOMAIN sendQueue : sendQueue'[i] = sendQueue[i] /\ sendQueue[i] \in Buffers
      /\ sendQueue'[Len(sendQueue) + 1] = b
  <2>1. sendQueue \in Seq(Buffers)
    BY <1>0 DEF TypeOK
  <2> QED BY <1>2, <2>1, AppendFacts
<1>7. /\ \A i \in DOMAIN sendQueue : sendQueue[i] # b
      /\ \A i \in DOMAIN sent : sent[i] # b
  BY <1>1, <1>2 DEF GivenInv, InvTcp
<1>8. \A u \in Threads : maker[u].buffer = b => u = t
  BY <1>0, <1>1 DEF InvHolders, Buffers, None
<1>9. \A i \in DOMAIN sendQueue' :
        \/ i \in DOMAIN sendQueue /\ sendQueue'[i] = sendQueue[i] /\ sendQueue[i] \in Buffers
        \/ i = Len(sendQueue) + 1 /\ sendQueue'[i] = b
  BY <1>6
<1>10. InvSizes'
  BY <1>2, <1>3 DEF GivenInv, InvSizes
<1>11. InvTcp'
  <2>1. \A i \in DOMAIN sendQueue' : Tcp \in holders'[sendQueue'[i]] /\ sendQueue'[i] <= opened'
    BY <1>2, <1>4, <1>5, <1>9 DEF GivenInv, InvTcp
  <2>2. \A i \in DOMAIN sent' : sent'[i] <= opened'
    BY <1>2 DEF GivenInv, InvTcp
  <2>3. \A i, j \in DOMAIN sendQueue' : sendQueue'[i] = sendQueue'[j] => i = j
    BY <1>7, <1>9 DEF GivenInv, InvTcp
  <2>4. \A i \in DOMAIN sendQueue', j \in DOMAIN sent' : sendQueue'[i] # sent'[j]
    BY <1>2, <1>7, <1>9 DEF GivenInv, InvTcp
  <2>5. ASSUME NEW u \in Threads, Tcp \in maker'[u].targets \/ maker'[u].pc = "write"
        PROVE  /\ \A i \in DOMAIN sendQueue' : sendQueue'[i] # maker'[u].buffer
               /\ \A i \in DOMAIN sent' : sent'[i] # maker'[u].buffer
    <3>1. u # t /\ maker'[u] = maker[u]
      BY <1>3, <2>5
    <3>2. maker[u].buffer # b
      BY <1>8, <3>1
    <3> QED BY <1>2, <1>9, <2>5, <3>1, <3>2 DEF GivenInv, InvTcp
  <2> QED BY <2>1, <2>2, <2>3, <2>4, <2>5 DEF InvTcp
<1> QED BY <1>1, <1>2, <1>10, <1>11 DEF GivenInv

\* What taking the first element of a sequence leaves.
LEMMA RestFacts ==
  ASSUME NEW S, NEW q \in Seq(S), q # <<>>
  PROVE  /\ Head(q) = q[1] /\ Head(q) \in S /\ Tail(q) \in Seq(S)
         /\ Len(q) \in Nat /\ Len(q) > 0
         /\ DOMAIN q = 1..Len(q) /\ DOMAIN Tail(q) = 1..(Len(q) - 1)
         /\ \A i \in 1..(Len(q) - 1) : Tail(q)[i] = q[i + 1] /\ i + 1 \in DOMAIN q
OBVIOUS

\* The kernel takes the first buffer from the queue: it is nowhere else.
LEMMA TcpReadPipe ==
  ASSUME IInv, GivenInv, TcpRead
  PROVE  GivenInv'
<1>0. TypeOK
  BY DEF IInv, ChunkInv
<1>1. /\ sendQueue # <<>> /\ sendQueue' = Tail(sendQueue)
      /\ sent' = Append(sent, Head(sendQueue))
      /\ UNCHANGED <<opened, area, maker, holders>>
  BY <1>0, TcpReadTyped DEF TcpRead, bufferVars
<1>2. sendQueue \in Seq(Buffers) /\ sent \in Seq(Buffers)
  BY <1>0 DEF TypeOK
<1>3. /\ Head(sendQueue) = sendQueue[1] /\ Head(sendQueue) \in Buffers
      /\ Len(sendQueue) \in Nat /\ Len(sendQueue) > 0
      /\ DOMAIN sendQueue = 1..Len(sendQueue) /\ DOMAIN sendQueue' = 1..(Len(sendQueue) - 1)
      /\ \A i \in DOMAIN sendQueue' :
           sendQueue'[i] = sendQueue[i + 1] /\ i + 1 \in DOMAIN sendQueue
  BY <1>1, <1>2, RestFacts
<1>4. \A j \in DOMAIN sent' :
        \/ j \in DOMAIN sent /\ sent'[j] = sent[j]
        \/ sent'[j] = sendQueue[1]
  <2>1. /\ DOMAIN sent' = 1..(Len(sent) + 1) /\ DOMAIN sent = 1..Len(sent) /\ Len(sent) \in Nat
        /\ \A i \in DOMAIN sent : sent'[i] = sent[i]
        /\ sent'[Len(sent) + 1] = sendQueue[1]
    BY <1>1, <1>2, <1>3, AppendFacts
  <2> QED BY <2>1
<1>5. 1 \in DOMAIN sendQueue
  BY <1>3
<1>6. InvSizes'
  BY <1>1 DEF GivenInv, InvSizes
<1>7. InvTcp'
  <2>1. \A i \in DOMAIN sendQueue' : Tcp \in holders'[sendQueue'[i]] /\ sendQueue'[i] <= opened'
    BY <1>1, <1>3 DEF GivenInv, InvTcp
  <2>2. \A i \in DOMAIN sent' : sent'[i] <= opened'
    BY <1>1, <1>4, <1>5 DEF GivenInv, InvTcp
  <2>3. \A i, j \in DOMAIN sendQueue' : sendQueue'[i] = sendQueue'[j] => i = j
    <3>1. ASSUME NEW i \in DOMAIN sendQueue', NEW j \in DOMAIN sendQueue',
                 sendQueue'[i] = sendQueue'[j]
          PROVE  i = j
      <4>1. i + 1 = j + 1 /\ i \in Nat /\ j \in Nat
        BY <1>3, <3>1 DEF GivenInv, InvTcp
      <4> QED BY <4>1
    <3> QED BY <3>1
  <2>4. \A i \in DOMAIN sendQueue', j \in DOMAIN sent' : sendQueue'[i] # sent'[j]
    <3>1. ASSUME NEW i \in DOMAIN sendQueue' PROVE i + 1 # 1 /\ sendQueue[i + 1] # sendQueue[1]
      BY <1>3, <1>5 DEF GivenInv, InvTcp
    <3> QED BY <1>3, <1>4, <3>1 DEF GivenInv, InvTcp
  <2>5. \A u \in Threads : Tcp \in maker'[u].targets \/ maker'[u].pc = "write" =>
          /\ \A i \in DOMAIN sendQueue' : sendQueue'[i] # maker'[u].buffer
          /\ \A i \in DOMAIN sent' : sent'[i] # maker'[u].buffer
    BY <1>1, <1>3, <1>4, <1>5 DEF GivenInv, InvTcp
  <2> QED BY <2>1, <2>2, <2>3, <2>4, <2>5 DEF InvTcp
<1> QED BY <1>6, <1>7 DEF GivenInv

\* What cutting a sequence in two gives.
LEMMA CutFacts ==
  ASSUME NEW S, NEW q \in Seq(S), NEW k \in 0..Len(q)
  PROVE  LET front == SubSeq(q, 1, k)
             rest == SubSeq(q, k + 1, Len(q))
         IN  /\ DOMAIN q = 1..Len(q) /\ Len(q) \in Nat /\ k \in Nat
             /\ DOMAIN front = 1..k /\ DOMAIN rest = 1..(Len(q) - k)
             /\ \A i \in 1..k : front[i] = q[i] /\ i \in 1..Len(q)
             /\ \A i \in 1..(Len(q) - k) : rest[i] = q[i + k] /\ i + k \in 1..Len(q)
OBVIOUS

\* What a failed WSASend leaves on the event is not in the queue.
LEMMA SendFailsPipe ==
  ASSUME IInv, GivenInv, SendFails
  PROVE  GivenInv'
<1>0. TypeOK
  BY DEF IInv, ChunkInv
<1>1. /\ sendQueue \in Seq(Buffers) /\ batch \in 0..Len(sendQueue)
      /\ sent' = SubSeq(sendQueue, 1, batch)
      /\ sendQueue' = SubSeq(sendQueue, batch + 1, Len(sendQueue))
      /\ UNCHANGED <<opened, area, maker, holders>>
  BY <1>0 DEF SendFails, TypeOK, bufferVars
<1>2. /\ DOMAIN sendQueue = 1..Len(sendQueue) /\ Len(sendQueue) \in Nat /\ batch \in Nat
      /\ DOMAIN sent' = 1..batch /\ DOMAIN sendQueue' = 1..(Len(sendQueue) - batch)
      /\ \A i \in DOMAIN sent' : sent'[i] = sendQueue[i] /\ i \in DOMAIN sendQueue
      /\ \A i \in DOMAIN sendQueue' :
           sendQueue'[i] = sendQueue[i + batch] /\ i + batch \in DOMAIN sendQueue
  BY <1>1, CutFacts
<1>3. /\ \A i \in DOMAIN sendQueue :
           Tcp \in holders[sendQueue[i]] /\ sendQueue[i] <= opened
      /\ \A i, j \in DOMAIN sendQueue : sendQueue[i] = sendQueue[j] => i = j
      /\ \A t \in Threads : Tcp \in maker[t].targets \/ maker[t].pc = "write" =>
           \A i \in DOMAIN sendQueue : sendQueue[i] # maker[t].buffer
  BY DEF GivenInv, InvTcp
<1>4. InvSizes'
  BY <1>1 DEF GivenInv, InvSizes
<1>5. InvTcp'
  <2>1. \A i \in DOMAIN sendQueue' : Tcp \in holders'[sendQueue'[i]] /\ sendQueue'[i] <= opened'
    BY <1>1, <1>2, <1>3
  <2>2. \A i \in DOMAIN sent' : sent'[i] <= opened'
    BY <1>1, <1>2, <1>3
  <2>3. \A i, j \in DOMAIN sendQueue' : sendQueue'[i] = sendQueue'[j] => i = j
    <3>1. ASSUME NEW i \in DOMAIN sendQueue', NEW j \in DOMAIN sendQueue',
                 sendQueue'[i] = sendQueue'[j]
          PROVE  i = j
      <4>1. i + batch = j + batch /\ i \in Nat /\ j \in Nat
        BY <1>2, <1>3, <3>1
      <4> QED BY <1>2, <4>1
    <3> QED BY <3>1
  <2>4. \A i \in DOMAIN sendQueue', j \in DOMAIN sent' : sendQueue'[i] # sent'[j]
    <3>1. ASSUME NEW i \in DOMAIN sendQueue', NEW j \in DOMAIN sent' PROVE i + batch # j
      BY <1>2
    <3> QED BY <1>2, <1>3, <3>1
  <2>5. \A t \in Threads : Tcp \in maker'[t].targets \/ maker'[t].pc = "write" =>
          /\ \A i \in DOMAIN sendQueue' : sendQueue'[i] # maker'[t].buffer
          /\ \A i \in DOMAIN sent' : sent'[i] # maker'[t].buffer
    BY <1>1, <1>2, <1>3
  <2> QED BY <2>1, <2>2, <2>3, <2>4, <2>5 DEF InvTcp
<1> QED BY <1>4, <1>5 DEF GivenInv

\* A completed send gives up a buffer that is not in the queue.
LEMMA TcpDropPipe ==
  ASSUME IInv, GivenInv, TcpDrop
  PROVE  GivenInv'
<1>0. TypeOK
  BY DEF IInv, ChunkInv
<1>1. /\ sent # <<>> /\ sent' = Tail(sent) /\ Release(Head(sent), Tcp)
      /\ UNCHANGED <<sendQueue, maker>>
  BY DEF TcpDrop
<1>2. sendQueue \in Seq(Buffers) /\ sent \in Seq(Buffers)
  BY <1>0 DEF TypeOK
<1>3. /\ Head(sent) = sent[1] /\ 1 \in DOMAIN sent
      /\ \A i \in DOMAIN sent' : sent'[i] = sent[i + 1] /\ i + 1 \in DOMAIN sent
  BY <1>1, <1>2, RestFacts
<1>4. opened' = opened
  BY <1>1 DEF Release
<1>5. \A i \in DOMAIN sendQueue : sendQueue[i] \in Buffers
  BY <1>2
<1>6. \A x \in Buffers : x # sent[1] => holders'[x] = holders[x]
  BY <1>0, <1>1, <1>3 DEF Release, TypeOK
<1>7. \A x \in Buffers : area'[x] = area[x] \/ area'[x].chunk = None
  <2>1. area' = [area EXCEPT ![sent[1]] = NoArea] \/ area' = area
    BY <1>1, <1>3 DEF Release
  <2> QED BY <1>0, <2>1 DEF TypeOK, NoArea
<1>8. InvSizes'
  BY <1>1, <1>7 DEF GivenInv, InvSizes
<1>9. InvTcp'
  BY <1>1, <1>3, <1>4, <1>5, <1>6 DEF GivenInv, InvTcp
<1> QED BY <1>8, <1>9 DEF GivenInv

\* Every step of the sending half keeps what is known of the queue.
LEMMA GivenStep == ASSUME IInv, GivenInv, [SendNext]_sendVars PROVE GivenInv'
<1>0. TypeOK
  BY DEF IInv, ChunkInv
<1>1. ASSUME NEW t \in Threads, MakerStep(t) PROVE GivenInv'
  BY <1>0, <1>1, MakerAside, AsideStep, OpenPipe, SendTcpPipe DEF MakerStep
<1>2. CASE TcpRead
  BY <1>2, TcpReadPipe
<1>3. CASE KernelStep
  BY <1>0, <1>3, KernelAside, AsideStep, SendFailsPipe, TcpDropPipe DEF KernelStep
<1>4. CASE UNCHANGED sendVars
  BY <1>0, <1>4, KernelAside, AsideStep
<1> QED BY <1>1, <1>2, <1>3, <1>4 DEF SendNext

\* Nothing is in the queue at first.
LEMMA InitGivenInv == SendInit => GivenInv
<1> SUFFICES ASSUME SendInit PROVE GivenInv
  OBVIOUS
<1>1. InvSizes
  BY DEF SendInit, InvSizes, NotMaking, NoArea, None
<1>2. InvTcp
  BY DEF SendInit, InvTcp, NotMaking
<1> QED BY <1>1, <1>2 DEF GivenInv

\* Both hold of every reachable state of the sending half.
LEMMA GivenInvariance == SendSpec => [](IInv /\ GivenInv)
<1>1. IInv /\ GivenInv /\ [SendNext]_sendVars => (IInv /\ GivenInv)'
  BY NextPreserves, GivenStep
<1> QED BY InitIInv, InitGivenInv, <1>1, PTL DEF SendSpec

\* The next buffer for the kernel is finished, has not been given up, and is
\* as long as a packet of the stream.
LEMMA NextBuffer ==
  ASSUME IInv, GivenInv, sendQueue # <<>>
  PROVE  LET b == Head(sendQueue)
         IN  /\ b \in Buffers
             /\ area[b].size \in HeaderSize..MaxPacket /\ area[b].size \in Nat /\ area[b].size > 0
             /\ \A i \in 1..area[b].size : chunks[area[b].chunk].bytes[area[b].at + i] = b
<1>0. ChunkInv /\ TypeOK /\ InvHolders /\ InvBytes
  BY DEF IInv, ChunkInv
<1>1. sendQueue \in Seq(Buffers)
  BY <1>0 DEF TypeOK
<1>2. PICK b \in Buffers : b = Head(sendQueue) /\ b = sendQueue[1] /\ 1 \in DOMAIN sendQueue
  BY <1>1, RestFacts
<1>3. Tcp \in holders[b]
  BY <1>2 DEF GivenInv, InvTcp
<1>4. area[b].chunk # None
  BY <1>0, <1>3 DEF InvHolders
<1>5. ~ Writing(b)
  BY <1>2 DEF GivenInv, InvTcp, Writing
<1>6. /\ area[b].size \in HeaderSize..MaxPacket /\ area[b].size \in Nat /\ area[b].size > 0
      /\ area[b].at \in Nat
  BY <1>0, <1>4, PipeAssumption, Constants, Typed DEF GivenInv, InvSizes
<1>7. ASSUME NEW i \in 1..area[b].size
      PROVE  chunks[area[b].chunk].bytes[area[b].at + i] = b
  <2>1. area[b].at + i \in Cells(b)
    BY <1>6 DEF Cells
  <2> QED BY <1>0, <1>4, <1>5, <2>1 DEF InvBytes
<1> QED BY <1>2, <1>6, <1>7

\* A step of the whole is a step of each half, or nothing to it.
LEMMA HalfSteps ==
  ASSUME IInv, GivenInv, [PipeNext]_pipeVars
  PROVE  [SendNext]_sendVars /\ [RecvNext]_<<streamVars, recvVars>>
<1>1. CASE SenderStep
  BY <1>1 DEF SenderStep, SendNext
<1>2. CASE Transmit
  <2>1. TcpRead /\ Extend(area[Head(sendQueue)].size) /\ UNCHANGED recvVars
    BY <1>2 DEF Transmit
  <2>2. area[Head(sendQueue)].size \in HeaderSize..MaxPacket
    <3>1. sendQueue # <<>>
      BY <2>1, TcpReadTyped DEF IInv, ChunkInv
    <3> QED BY <3>1, NextBuffer
  <2> QED BY <2>1, <2>2 DEF SendNext, RecvNext, Send
<1>3. CASE Receive
  BY <1>3 DEF Receive, RecvNext
<1>4. CASE UNCHANGED pipeVars
  BY <1>4 DEF pipeVars
<1> QED BY <1>1, <1>2, <1>3, <1>4 DEF PipeNext

\* The sender is what SendBuffer says.
THEOREM PipeSends == PipeSpec => SendSpec
<1>1. IInv /\ GivenInv /\ [PipeNext]_pipeVars => [SendNext]_sendVars /\ (IInv /\ GivenInv)'
  BY HalfSteps, NextPreserves, GivenStep
<1> QED BY <1>1, InitIInv, InitGivenInv, PTL DEF PipeSpec, PipeInit, SendSpec

\* The receiver is what RecvBuffer says: the kernel appends only packets that
\* it expects.
THEOREM PipeReceives == PipeSpec => RecvSpec
<1>1. IInv /\ GivenInv /\ [PipeNext]_pipeVars => [RecvNext]_<<streamVars, recvVars>>
  BY HalfSteps
<1> QED BY <1>1, PipeSends, GivenInvariance, PTL DEF PipeSpec, PipeInit, RecvSpec

\* The kernel appends the next buffer's bytes, all of them its number.
LEMMA Transmitted ==
  ASSUME IInv, GivenInv, InvWire, RecvInv, Transmit
  PROVE  LET b == Head(sendQueue)
         IN  /\ wire' \in Seq(Seq(Buffers)) /\ Len(wire') = Len(wire) + 1
             /\ \A p \in 1..Len(wire) : Shown(p)' = Shown(p)
             /\ \A p : p = Len(wire) + 1 => Shown(p)' = b
             /\ b \in Buffers
             /\ Len(packets') = Len(packets) + 1
<1>1. /\ sendQueue # <<>> /\ wire \in Seq(Seq(Buffers))
      /\ packets \in Seq([start : Nat, size : HeaderSize..MaxPacket])
  BY TcpReadTyped DEF Transmit, IInv, ChunkInv, InvWire, RecvInv, RecvTypeOK
<1>2. PICK b \in Buffers :
        /\ b = Head(sendQueue)
        /\ area[b].size \in Nat /\ area[b].size > 0
        /\ \A i \in 1..area[b].size : chunks[area[b].chunk].bytes[area[b].at + i] = b
  BY <1>1, NextBuffer
<1>3. PICK n \in Nat : n = area[b].size /\ n > 0
  BY <1>2
<1> DEFINE w == [i \in 1..n |-> b]
<1>4. w \in Seq(Buffers) /\ DOMAIN w = 1..n /\ \A i \in 1..n : w[i] = b
  OBVIOUS
<1>5. wire' = Append(wire, w)
  <2>1. wire' = Append(wire, [i \in 1..area[b].size |->
                         chunks[area[b].chunk].bytes[area[b].at + i]])
    BY <1>2 DEF Transmit
  <2>2. [i \in 1..area[b].size |-> chunks[area[b].chunk].bytes[area[b].at + i]] = w
    BY <1>2, <1>3
  <2> QED BY <2>1, <2>2
<1> HIDE DEF w
<1>6. /\ wire' \in Seq(Seq(Buffers)) /\ Len(wire) \in Nat
      /\ DOMAIN wire = 1..Len(wire) /\ DOMAIN wire' = 1..(Len(wire) + 1)
      /\ \A p \in 1..Len(wire) : wire'[p] = wire[p]
      /\ wire'[Len(wire) + 1] = w
  <2> DEFINE S == Seq(Buffers)
  <2>1. w \in S /\ wire \in Seq(S)
    BY <1>1, <1>4
  <2> HIDE DEF S
  <2>2. /\ Append(wire, w) \in Seq(S) /\ Len(wire) \in Nat
        /\ DOMAIN wire = 1..Len(wire) /\ DOMAIN Append(wire, w) = 1..(Len(wire) + 1)
        /\ \A p \in DOMAIN wire : Append(wire, w)[p] = wire[p]
        /\ Append(wire, w)[Len(wire) + 1] = w
    BY <2>1, AppendFacts
  <2> QED BY <1>5, <2>2 DEF S
<1>7. Len(wire') = Len(wire) + 1
  BY <1>6
<1>8. \A p \in 1..Len(wire) : Shown(p)' = Shown(p)
  BY <1>6 DEF Shown
<1>9. ASSUME NEW p, p = Len(wire) + 1
      PROVE  Shown(p)' = b
  <2>1. 1 \in 1..n
    BY <1>3
  <2>2. wire'[p] = w
    BY <1>6, <1>9
  <2> QED BY <1>4, <2>1, <2>2 DEF Shown
<1>10. Len(packets') = Len(packets) + 1
  <2> DEFINE P == [start : Nat, size : HeaderSize..MaxPacket]
  <2> DEFINE e == [start |-> total, size |-> area[b].size]
  <2>1. packets \in Seq(P)
    BY <1>1
  <2>2. packets' = Append(packets, e)
    BY <1>2 DEF Transmit, Extend
  <2> HIDE DEF P, e
  <2> QED BY <2>1, <2>2
<1> QED BY <1>2, <1>6, <1>7, <1>8, <1>9, <1>10

\* Every packet of the stream shows one buffer.
LEMMA WireStep ==
  ASSUME IInv, GivenInv, RecvInv, InvWire, [PipeNext]_pipeVars
  PROVE  InvWire'
<1>1. CASE Transmit
  <2>1. Len(wire) \in Nat /\ DOMAIN wire = 1..Len(wire)
    BY DEF InvWire
  <2>2. /\ wire' \in Seq(Seq(Buffers)) /\ Len(wire') = Len(wire) + 1
        /\ Len(packets') = Len(packets) + 1
    BY <1>1, Transmitted
  <2>3. DOMAIN wire' = 1..(Len(wire) + 1)
    BY <2>2
  <2>4. ASSUME NEW p \in DOMAIN wire' PROVE Shown(p)' \in Buffers
    <3>1. p \in DOMAIN wire \/ p = Len(wire) + 1
      BY <2>1, <2>3
    <3>2. p \in DOMAIN wire => Shown(p) \in Buffers
      BY DEF InvWire
    <3> QED BY <1>1, <2>1, <3>1, <3>2, Transmitted
  <2>5. Len(wire') = Len(packets')
    BY <2>2 DEF InvWire
  <2> QED BY <2>2, <2>4, <2>5 DEF InvWire
<1>2. CASE ~ Transmit
  <2>1. wire' = wire /\ packets' = packets
    <3>1. CASE SenderStep
      BY <3>1 DEF SenderStep, streamVars
    <3>2. CASE Receive
      BY <3>2 DEF Receive, RecvStep, ProcessRecv, ReceiveNothing, ParsePacket, ParseEnd, streamVars
    <3>3. CASE UNCHANGED pipeVars
      BY <3>3 DEF pipeVars, streamVars
    <3> QED BY <1>2, <3>1, <3>2, <3>3 DEF PipeNext
  <2> QED BY <2>1 DEF InvWire, Shown
<1> QED BY <1>1, <1>2

WholeInv == IInv /\ GivenInv /\ RecvInv /\ InvWire

\* The joint invariant of sender, stream and receiver.
THEOREM PipeInvariance == PipeSpec => []WholeInv
<1>1. RecvInit /\ wire = <<>> => InvWire
  <2> SUFFICES ASSUME RecvInit, wire = <<>> PROVE InvWire
    OBVIOUS
  <2>1. packets = <<>> /\ Len(wire) = 0 /\ DOMAIN wire = {} /\ Len(packets) = 0
    BY DEF RecvInit
  <2>2. wire \in Seq(Seq(Buffers))
    BY EmptyFacts
  <2> QED BY <2>1, <2>2 DEF InvWire
<1>2. IInv /\ GivenInv /\ RecvInv /\ InvWire /\ [PipeNext]_pipeVars => InvWire'
  BY WireStep
<1>3. PipeSpec => [](IInv /\ GivenInv /\ RecvInv)
  BY PipeSends, PipeReceives, GivenInvariance, RecvInvariance, PTL
<1> QED BY <1>1, <1>2, <1>3, PTL DEF PipeSpec, PipeInit, WholeInv

-----------------------------------------------------------------------------
(* PacketPipe implements Fifo *)

\* What the channel is made of, by the invariant.
ChannelView ==
  /\ ~ mangled
  /\ Len(wire) \in Nat /\ handled \in Nat /\ handled <= Len(wire)
  /\ OnTheWay \in Seq(Buffers) /\ Len(OnTheWay) = Len(wire) - handled
  /\ \A p \in 1 .. Len(wire) - handled : OnTheWay[p] = Shown(p + handled)
  /\ sendQueue \in Seq(Buffers)

LEMMA ChannelViewHolds == WholeInv => ChannelView
<1> SUFFICES ASSUME WholeInv PROVE ChannelView
  OBVIOUS
<1>1. ~ mangled /\ handled \in Nat /\ handled <= Len(packets) /\ Len(wire) = Len(packets)
  <2>1. Len(packets) \in Nat
    <3> DEFINE P == [start : Nat, size : HeaderSize..MaxPacket]
    <3>1. packets \in Seq(P)
      BY DEF WholeInv, RecvInv, RecvTypeOK
    <3> HIDE DEF P
    <3> QED BY <3>1
  <2> QED BY <2>1 DEF WholeInv, RecvInv, RecvTypeOK, InvWire
<1>2. Len(wire) \in Nat /\ DOMAIN wire = 1..Len(wire)
  BY DEF WholeInv, InvWire
<1>3. PICK n \in Nat : n = Len(wire) - handled
  <2>1. Len(wire) - handled \in Nat
    BY <1>1, <1>2
  <2> QED BY <2>1
<1>4. \A p \in 1..n : Shown(p + handled) \in Buffers
  <2>1. \A p \in 1..n : p + handled \in DOMAIN wire
    BY <1>1, <1>2, <1>3
  <2> QED BY <2>1 DEF WholeInv, InvWire
<1>5. OnTheWay = [p \in 1..n |-> Shown(p + handled)]
  BY <1>1, <1>3 DEF OnTheWay
<1>6. OnTheWay \in Seq(Buffers) /\ Len(OnTheWay) = n
  BY <1>4, <1>5
<1>7. \A p \in 1..n : OnTheWay[p] = Shown(p + handled)
  BY <1>5
<1>8. sendQueue \in Seq(Buffers)
  BY DEF WholeInv, IInv, ChunkInv, TypeOK
<1> QED BY <1>1, <1>2, <1>3, <1>6, <1>7, <1>8 DEF ChannelView

\* What the kernel takes from the queue is the last on the way.
LEMMA TransmitTakes ==
  ASSUME WholeInv, ChannelView, ChannelView', Transmit
  PROVE  Channel!Take
<1> DEFINE b == Head(sendQueue)
<1>1. handled' = handled /\ sendQueue' = Tail(sendQueue) /\ sendQueue # <<>>
  BY TcpReadTyped DEF Transmit, TcpRead, recvVars, WholeInv, IInv, ChunkInv
<1>2. PICK n \in Nat : n = Len(wire) - handled
  <2>1. Len(wire) \in Nat /\ handled \in Nat /\ handled <= Len(wire)
    BY DEF ChannelView
  <2>2. Len(wire) - handled \in Nat
    BY <2>1
  <2> QED BY <2>2
<1>3. /\ Len(wire') = Len(wire) + 1 /\ b \in Buffers
      /\ \A p \in 1..Len(wire) : Shown(p)' = Shown(p)
      /\ \A p : p = Len(wire) + 1 => Shown(p)' = b
  BY Transmitted DEF WholeInv
<1>4. /\ OnTheWay \in Seq(Buffers) /\ Len(OnTheWay) = n
      /\ \A p \in 1..n : OnTheWay[p] = Shown(p + handled)
  BY <1>2 DEF ChannelView
<1>5. /\ OnTheWay' \in Seq(Buffers) /\ Len(OnTheWay') = n + 1
      /\ \A p \in 1..(n + 1) : OnTheWay'[p] = Shown(p + handled)'
  <2>1. /\ OnTheWay' \in Seq(Buffers) /\ Len(OnTheWay') = Len(wire') - handled'
        /\ \A p \in 1 .. Len(wire') - handled' : OnTheWay'[p] = Shown(p + handled)'
    BY DEF ChannelView
  <2>2. Len(wire') - handled' = n + 1
    BY <1>1, <1>2, <1>3 DEF ChannelView
  <2> QED BY <2>1, <2>2
<1>6. OnTheWay' = Append(OnTheWay, b)
  <2>1. ASSUME NEW p \in 1..n PROVE OnTheWay'[p] = OnTheWay[p]
    <3>1. PICK k : k = p + handled
      OBVIOUS
    <3>2. k \in 1..Len(wire)
      BY <1>2, <3>1 DEF ChannelView
    <3>3. Shown(k)' = Shown(k)
      BY <1>3, <3>2
    <3>4. OnTheWay'[p] = Shown(k)'
      BY <1>1, <1>5, <3>1
    <3> QED BY <1>4, <3>1, <3>3, <3>4
  <2>2. OnTheWay'[n + 1] = b
    <3>1. PICK k : k = (n + 1) + handled
      OBVIOUS
    <3>2. k = Len(wire) + 1
      BY <1>2, <3>1 DEF ChannelView
    <3>3. OnTheWay'[n + 1] = Shown(k)'
      BY <1>1, <1>5, <3>1
    <3> QED BY <1>3, <3>2, <3>3
  <2> HIDE DEF b
  <2> QED BY <1>3, <1>4, <1>5, <2>1, <2>2
<1> QED BY <1>1, <1>6 DEF Channel!Take

\* Send is Put, and a WSASend that fails is a loss of what it was given.
LEMMA SendPuts ==
  ASSUME WholeInv, ChannelView, ChannelView', SenderStep
  PROVE  [Channel!Next]_<<sendQueue, OnTheWay>>
<1>0. IInv /\ GivenInv
  BY DEF WholeInv
<1>1. UNCHANGED OnTheWay
  <2>1. UNCHANGED <<wire, handled, mangled>>
    BY DEF SenderStep, recvVars
  <2> QED BY <2>1 DEF OnTheWay, Shown
<1>2. ASSUME NEW t \in Threads, SendTcp(t)
      PROVE  \E b \in Buffers : Channel!Put(b)
  <2>1. PICK b \in Buffers : sendQueue' = Append(sendQueue, b)
    BY <1>0, <1>2, SendTcpPipe
  <2> QED BY <1>1, <2>1 DEF Channel!Put
<1>3. ASSUME SendFails
      PROVE  \E n \in 1..Len(sendQueue) : Channel!Lose(n)
  <2>1. batch \in 1..Len(sendQueue)
    <3>1. batch \in 0..Len(sendQueue) /\ batch > 0
      BY <1>0, <1>3 DEF IInv, ChunkInv, TypeOK, SendFails
    <3> QED BY <3>1
  <2>2. sendQueue' = SubSeq(sendQueue, batch + 1, Len(sendQueue))
    BY <1>3 DEF SendFails
  <2> QED BY <1>1, <2>1, <2>2 DEF Channel!Lose
<1>4. ASSUME NEW t \in Threads, MakerStep(t), ~ SendTcp(t) PROVE sendQueue' = sendQueue
  BY <1>4 DEF MakerStep, Open, PopChunk, SwapChunk, Write, TakeNumber, Increment, Stamp,
              Overwrite, Insert, SendUdp, Forget, tcpVars
<1>5. ASSUME KernelStep, ~ SendFails PROVE sendQueue' = sendQueue
  BY <1>5 DEF KernelStep, RegisterSend, TcpDrop, UdpRead, HandleAck, tcpVars
<1>6. CASE sendQueue' = sendQueue
  BY <1>1, <1>6
<1>7. CASE (\E b \in Buffers : Channel!Put(b)) \/ \E n \in 1..Len(sendQueue) : Channel!Lose(n)
  BY <1>7 DEF Channel!Next
<1> QED BY <1>2, <1>3, <1>4, <1>5, <1>6, <1>7 DEF SenderStep

\* OnRecv is Get.
LEMMA ParsePacketGets ==
  ASSUME WholeInv, ChannelView, ChannelView', Receive
  PROVE  [Channel!Next]_<<sendQueue, OnTheWay>>
<1>1. UNCHANGED <<wire, sendQueue>>
  BY DEF Receive, sendVars, tcpVars
<1>2. ~ mangled /\ ~ mangled'
  BY Zenon DEF ChannelView
<1>3. CASE \E p \in 1..MaxPackets : ParsePacket(p)
  <2>1. handled' = handled + 1
    BY <1>3 DEF ParsePacket
  <2>2. handled + 1 <= Len(wire)
    <3>1. handled' <= Len(wire')
      BY Zenon DEF ChannelView
    <3> QED BY <1>1, <2>1, <3>1
  <2>3. PICK n \in Nat : n = Len(wire) - (handled + 1)
    <3>1. Len(wire) \in Nat /\ handled \in Nat
      BY DEF ChannelView
    <3>2. Len(wire) - (handled + 1) \in Nat
      BY <2>2, <3>1
    <3> QED BY <3>2
  <2>4. /\ OnTheWay \in Seq(Buffers) /\ Len(OnTheWay) = n + 1
        /\ \A p \in 1..(n + 1) : OnTheWay[p] = Shown(p + handled)
    <3>1. Len(wire) - handled = n + 1
      BY <2>3 DEF ChannelView
    <3> QED BY <3>1 DEF ChannelView
  <2>5. /\ OnTheWay' \in Seq(Buffers) /\ Len(OnTheWay') = n
        /\ \A p \in 1..n : OnTheWay'[p] = Shown(p + (handled + 1))
    <3>1. /\ OnTheWay' \in Seq(Buffers) /\ Len(OnTheWay') = Len(wire') - handled'
          /\ \A p \in 1 .. Len(wire') - handled' : OnTheWay'[p] = Shown(p + handled)'
      BY DEF ChannelView
    <3>2. \A p : Shown(p + handled)' = Shown(p + (handled + 1))
      BY <1>1, <2>1 DEF Shown
    <3> QED BY <1>1, <2>1, <2>3, <3>1, <3>2
  <2>6. OnTheWay' = Tail(OnTheWay) /\ OnTheWay # <<>>
    <3>1. \A p \in 1..n : OnTheWay'[p] = OnTheWay[p + 1]
      <4>1. ASSUME NEW p \in 1..n PROVE OnTheWay'[p] = OnTheWay[p + 1]
        <5>1. p + 1 \in 1..(n + 1) /\ (p + 1) + handled = p + (handled + 1)
          BY DEF ChannelView
        <5> QED BY <2>4, <2>5, <5>1
      <4> QED BY <4>1
    <3> QED BY <2>4, <2>5, <3>1
  <2>7. Channel!Get
    BY <1>1, <2>6 DEF Channel!Get
  <2> QED BY <2>7 DEF Channel!Next
<1>4. CASE ~ \E p \in 1..MaxPackets : ParsePacket(p)
  <2>1. handled' = handled
    BY <1>4 DEF Receive, RecvStep, ProcessRecv, ReceiveNothing, ParseEnd
  <2> QED BY <1>1, <1>2, <2>1 DEF OnTheWay, Shown
<1> QED BY <1>3, <1>4

\* Chunks, references, receives and the parser together are a queue of whole
\* packets: what MakeSendBufferImpl wrote and Send was given is what OnRecv
\* gets, once and in order, for any sizes of buffers, chunks and packets and
\* whatever buffer is written where the last one was dropped.  Nothing is lost
\* of what the kernel took; a WSASend that fails loses all it was given.
THEOREM PacketsGetThrough == PipeSpec => ImplementsFifo
<1>1. PipeInit => Channel!Init
  <2> SUFFICES ASSUME PipeInit PROVE Channel!Init
    OBVIOUS
  <2>1. wire = <<>> /\ handled = 0 /\ sendQueue = <<>>
    BY DEF PipeInit, SendInit, RecvInit
  <2>2. OnTheWay = [p \in 1..0 |-> IF mangled THEN None ELSE Shown(p + handled)]
    BY <2>1 DEF OnTheWay
  <2>3. OnTheWay = <<>>
    BY <2>2
  <2> QED BY <2>1, <2>3 DEF Channel!Init
<1>2. WholeInv /\ ChannelView /\ ChannelView' /\ [PipeNext]_pipeVars =>
        [Channel!Next]_<<sendQueue, OnTheWay>>
  <2> SUFFICES ASSUME WholeInv, ChannelView, ChannelView', [PipeNext]_pipeVars
               PROVE  [Channel!Next]_<<sendQueue, OnTheWay>>
    OBVIOUS
  <2>1. CASE SenderStep
    BY <2>1, SendPuts
  <2>2. CASE Transmit
    BY <2>2, TransmitTakes DEF Channel!Next
  <2>3. CASE Receive
    BY <2>3, ParsePacketGets
  <2>4. CASE UNCHANGED pipeVars
    <3>1. UNCHANGED <<wire, handled, mangled, sendQueue>>
      BY <2>4 DEF pipeVars, recvVars, sendVars, tcpVars
    <3> QED BY <3>1 DEF OnTheWay, Shown
  <2> QED BY <2>1, <2>2, <2>3, <2>4 DEF PipeNext
<1>3. PipeSpec => [](WholeInv /\ ChannelView)
  BY PipeInvariance, ChannelViewHolds, PTL
<1> QED BY <1>1, <1>2, <1>3, PTL DEF PipeSpec, ImplementsFifo, Channel!Spec
=============================================================================
