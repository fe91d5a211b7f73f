----------------------------- MODULE PacketPipe -----------------------------
(***************************************************************************)
(* A packet's way from MakeSendBufferImpl to OnRecv: SendBuffer makes,     *)
(* shares and sends the buffers, RecvBuffer cuts the stream into packets   *)
(* again.  Both ends run this repository's code.                           *)
(*                                                                         *)
(* TCP keeps the stream; how late the receiver is does not matter to it,   *)
(* so here it starts when the senders are done and their references gone:  *)
(* whatever it could have received before, it can receive then.            *)
(***************************************************************************)
EXTENDS SendBuffer, RecvBuffer

\* A packet that fits a chunk is one the receiver can tell: it has a header, and
\* a size that the header's 16 bits hold.
ASSUME PipeAssumption ==
  \A size \in Sizes : size <= ChunkSize => size \in HeaderSize..MaxPacket

VARIABLE wire   \* the bytes of each packet of the stream

pipeVars == <<sendVars, streamVars, recvVars, wire>>

PipeInit == SendInit /\ RecvInit /\ wire = <<>>

SenderStep ==
  /\ (\E t \in Threads : MakerStep(t)) \/ KernelStep
  /\ UNCHANGED <<streamVars, recvVars, wire>>

\* The kernel takes the next buffer, as its chunk has it at this moment.
Transmit ==
  /\ TcpRead
  /\ LET b == Head(sendQueue)
     IN  /\ Extend(area[b].size)
         /\ wire' = Append(wire, [i \in 1..area[b].size |->
                             chunks[area[b].chunk].bytes[area[b].at + i]])
  /\ UNCHANGED recvVars

SendersDone ==
  /\ opened = MaxBuffers /\ ~ crash
  /\ \A b \in Buffers : holders[b] = {}
  /\ datagrams = {}

Receive ==
  /\ SendersDone
  /\ RecvStep
  /\ UNCHANGED <<sendVars, wire>>

PipeNext == SenderStep \/ Transmit \/ Receive

PipeSpec == PipeInit /\ [][PipeNext]_pipeVars

-----------------------------------------------------------------------------

\* The buffer a packet of the stream shows, None if its bytes are not those
\* of one buffer.
Shown(p) ==
  LET b == wire[p][1]
  IN  IF \A i \in DOMAIN wire[p] : wire[p][i] = b THEN b ELSE None

OnTheWay ==
  [p \in 1 .. Len(wire) - handled |->
     IF mangled THEN None ELSE Shown(p + handled)]

Channel == INSTANCE Fifo WITH Packets <- Buffers, waiting <- sendQueue,
                              inTransit <- OnTheWay

\* Chunks, references, receives and the parser together implement a queue: what
\* Send was given is what OnRecv gets, whole, once and in order.  Only a WSASend
\* that fails leaves packets out, and only such as the kernel took nothing of.
ImplementsFifo == Channel!Spec
=============================================================================
