CONSTANTS
  Threads = {t1, t2, t3}
  NoThread = NoThread
  MaxSends = 3
  MaxRecvs = 2
SPECIFICATION FairSpec
CHECK_DEADLOCK FALSE
INVARIANTS
  OneSender
  OneReceiver
  RecvArmed
  ReleaseAsserted
  WireInOrder
  Pinned
PROPERTIES
  EverySendLeaves
  Reclaimed
