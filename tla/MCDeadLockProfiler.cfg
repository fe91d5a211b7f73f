CONSTANTS
  t1 = t1
  t2 = t2
  t3 = t3
  a1 = a1
  a2 = a2
  b = b
  c = c
  A = A
  B = B
  C = C
  Callers = {t1, t2, t3}
  Locks = {a1, a2, b, c}
  Shared = {a1, a2}
  NameOf <- MCNameOf
  MaxDepth = 2
SPECIFICATION ProfilerSpec
CHECK_DEADLOCK FALSE
SYMMETRY Symmetry
INVARIANTS
  AlarmExact
  DeadlocksShareName
