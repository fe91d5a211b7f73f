CONSTANTS
  t1 = t1
  t2 = t2
  p1 = p1
  p2 = p2
  Tcp = Tcp
  Threads = {t1, t2}
  Peers = {p1, p2}
  ChunkSize = 3
  Sizes = {1, 2, 4}
  MaxBuffers = 3
  MaxChunks = 4
  MaxDatagrams = 3
  HeaderSize = 1
  MaxPacket = 2
  BufferSize = 1
  BufferCount = 5
  MaxPackets = 3
SPECIFICATION PipeSpec
CHECK_DEADLOCK FALSE
CONSTRAINT Explored
SYMMETRY Symmetry
INVARIANTS
  BuffersIntact
  ChunksAccounted
  NumberExplained
  AlwaysRoom
PROPERTY ImplementsFifo
