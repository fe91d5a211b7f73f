SPECIFICATION Spec
CONSTANTS
  Threads = {t1, t2, t3}
  Addresses = {a1, a2}
  NoAddress = NoAddress
  Sessions = {s1, s2, s3}
  NoSession = NoSession
  Users = {0, 1}
  FirstId = 0
  MaxDatagrams = 4
SYMMETRY Symmetry
INVARIANTS RightSession OneListener ListedAlive
CHECK_DEADLOCK FALSE
