----------------------------- MODULE RecvBuffer -----------------------------
(***************************************************************************)
(* The receiving half of a TCP session: core::network::RecvBuffer, filled  *)
(* by one receive at a time (TcpSession.OneReceiver), cut into packets by  *)
(* IsParsingPacket and cleaned before the next receive.                    *)
(*                                                                         *)
(* The stream is a sequence of packets, each known by where it starts and  *)
(* how long it is.  A byte in the buffer is its position in the stream, so *)
(* reading a header at a byte finds the packet that starts there, if any.  *)
(* The stream is well formed: no packet is shorter than its header.        *)
(***************************************************************************)
EXTENDS Integers, Sequences

CONSTANTS
  HeaderSize,   \* sizeof(TcpPacketHeader), 4
  MaxPacket,    \* the longest packet; its size is a uint16
  BufferSize,   \* RecvBuffer::_bufferSize, 64 KB
  BufferCount,  \* BUFFER_COUNT, 10
  MaxPackets    \* bound: packets on the stream

Capacity == BufferSize * BufferCount

ASSUME BufferAssumption ==
  /\ HeaderSize \in Nat \ {0} /\ MaxPacket \in Nat
  /\ BufferSize \in Nat \ {0} /\ BufferCount \in Nat \ {0}
  /\ HeaderSize <= MaxPacket
  /\ MaxPackets \in Nat

VARIABLES
  packets,     \* the stream: [start, size] of each packet
  total,       \* its bytes so far
  arrived,     \* the bytes of it that have been received
  buffer,      \* _buffer: the stream position each cell holds
  readPos, writePos,
  phase,       \* "receiving" (the receive is posted), "parsing", "closed"
  processLen,  \* IsParsingPacket's progress
  handled,     \* packets given to OnRecv
  \* history
  mangled,     \* OnRecv was given something else than the next packet
  largest      \* the largest receive so far

streamVars == <<packets, total>>
recvVars == <<arrived, buffer, readPos, writePos, phase, processLen, handled,
              mangled, largest>>

DataSize == writePos - readPos
FreeSize == Capacity - writePos

RecvInit ==
  /\ packets = <<>> /\ total = 0
  /\ arrived = 0
  /\ buffer = [i \in 0 .. Capacity - 1 |-> 0]
  /\ readPos = 0 /\ writePos = 0
  /\ phase = "receiving"
  /\ processLen = 0
  /\ handled = 0
  /\ mangled = FALSE
  /\ largest = 0

\* The peer sends one more packet.
Extend(size) ==
  /\ Len(packets) < MaxPackets
  /\ packets' = Append(packets, [start |-> total, size |-> size])
  /\ total' = total + size

-----------------------------------------------------------------------------

\* A receive completes with n bytes: OnWrite, then the parser starts.  The
\* receive was posted with all the free room, and may fill it.
ProcessRecv(n) ==
  /\ phase = "receiving"
  /\ n > 0 /\ n <= FreeSize
  /\ arrived + n <= total
  /\ buffer' = [i \in DOMAIN buffer |->
       IF i >= writePos /\ i < writePos + n THEN arrived + (i - writePos) ELSE buffer[i]]
  /\ writePos' = writePos + n
  /\ arrived' = arrived + n
  /\ phase' = "parsing"
  /\ processLen' = 0
  /\ largest' = IF n > largest THEN n ELSE largest
  /\ UNCHANGED <<readPos, handled, mangled, streamVars>>

\* A receive of no room at all completes with no bytes, which ProcessRecv
\* takes for the end of the connection.
ReceiveNothing ==
  /\ phase = "receiving"
  /\ FreeSize = 0
  /\ phase' = "closed"
  /\ UNCHANGED <<arrived, buffer, readPos, writePos, processLen, handled, mangled, largest,
                 streamVars>>

Rest == DataSize - processLen

\* The packet whose header the parser reads, by the byte it finds there.
HeaderAt(p) == p \in DOMAIN packets /\ packets[p].start = buffer[readPos + processLen]

Complete(p) == Rest >= HeaderSize /\ HeaderAt(p) /\ Rest >= packets[p].size

IsPacket(p, at) ==
  \A i \in 0 .. packets[p].size - 1 : buffer[at + i] = packets[p].start + i

\* OnRecv(&buffer[processLen], header->size).
ParsePacket(p) ==
  /\ phase = "parsing"
  /\ Complete(p)
  /\ processLen' = processLen + packets[p].size
  /\ handled' = handled + 1
  /\ mangled' = (mangled \/ p # handled + 1 \/ ~ IsPacket(p, readPos + processLen))
  /\ UNCHANGED <<arrived, buffer, readPos, writePos, phase, largest, streamVars>>

\* Fault: the bytes stay where they are whenever there are any.
CleanResets(read) ==
  /\ readPos' = IF writePos = read THEN 0 ELSE read
  /\ writePos' = IF writePos = read THEN 0 ELSE writePos
  /\ UNCHANGED buffer

\* Fault: the positions move and the bytes do not.
CleanForgetsBytes(read) ==
  /\ readPos' = 0 /\ writePos' = writePos - read
  /\ UNCHANGED buffer

\* RecvBuffer::Clean after OnRead has set the read position to read.  The
\* build's memcpy (the one of MSVC) copies overlapping regions correctly.
Clean(read) ==
  IF writePos = read
  THEN readPos' = 0 /\ writePos' = 0 /\ UNCHANGED buffer
  ELSE IF FreeSize > BufferSize
       THEN /\ buffer' = [i \in DOMAIN buffer |->
                 IF i < writePos - read THEN buffer[read + i] ELSE buffer[i]]
            /\ readPos' = 0 /\ writePos' = writePos - read
       ELSE readPos' = read /\ UNCHANGED <<writePos, buffer>>

\* The parser leaves its loop: OnRead, Clean, RegisterRecv.
ParseEnd ==
  /\ phase = "parsing"
  /\ \A p \in DOMAIN packets : ~ Complete(p)
  /\ Clean(readPos + processLen)
  /\ phase' = "receiving"
  /\ processLen' = 0
  /\ UNCHANGED <<arrived, handled, mangled, largest, streamVars>>

RecvStep ==
  \/ \E n \in 1..Capacity : ProcessRecv(n)
  \/ ReceiveNothing
  \/ \E p \in 1..MaxPackets : ParsePacket(p)
  \/ ParseEnd

Send ==
  /\ \E size \in HeaderSize..MaxPacket : Extend(size)
  /\ UNCHANGED recvVars

RecvNext == Send \/ RecvStep

RecvSpec == RecvInit /\ [][RecvNext]_<<streamVars, recvVars>>

-----------------------------------------------------------------------------
(* Correctness *)

\* Positions stay inside the buffer, and the packets follow each other.
RecvTypeOK ==
  /\ packets \in Seq([start : Nat, size : HeaderSize..MaxPacket])
  /\ total \in Nat /\ arrived \in 0..total
  /\ buffer \in [0 .. Capacity - 1 -> Nat]
  /\ writePos \in 0..Capacity /\ readPos \in 0..writePos
  /\ phase \in {"receiving", "parsing", "closed"}
  /\ processLen \in 0..DataSize
  /\ handled \in 0..Len(packets)
  /\ mangled \in BOOLEAN
  /\ largest \in 0..Capacity

\* OnRecv gets the packets of the stream, each whole, once and in order,
\* however the receives cut the stream and whenever Clean moves the rest.
HandledInOrder == ~ mangled

\* As long as no receive brought so much that a packet and BufferSize bytes
\* did not fit beside it, a posted receive has room and the session is not
\* closed for want of it.  The premise is a real limit of the code: Clean
\* moves the rest to the front when there is plenty of room, and not when
\* room is short.
AlwaysRoom ==
  largest + MaxPacket + BufferSize <= Capacity =>
    phase # "closed" /\ (phase = "receiving" => FreeSize > 0)
=============================================================================
