CONSTANTS
  t1 = t1
  t2 = t2
  t3 = t3
  Threads = {t1, t2, t3}
  NoThread = NoThread
  MaxNesting = 2
  READ_COUNT_MASK = 6
SPECIFICATION Spec
SYMMETRY Symmetry
INVARIANTS
  NoMisuseCrash
  WaitsForRunner
PROPERTY ImplementsLock
