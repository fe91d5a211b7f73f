SPECIFICATION Spec
CONSTANTS
  Threads = {t1, t2}
  SeqMod = 20
  WindowSize = 4
  BitfieldSize = 2
  MaxSends = 5
SYMMETRY Symmetry
INVARIANTS RecordedOnce FreshRecorded NoFalseAck PendingExact
CHECK_DEADLOCK FALSE
