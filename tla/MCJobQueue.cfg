CONSTANTS
  w1 = w1
  w2 = w2
  main = main
  q1 = q1
  q2 = q2
  Threads = {w1, w2, main}
  Workers = {w1, w2}
  Queues = {q1, q2}
  NoQueue = NoQueue
  MaxJobs = 4
SPECIFICATION Spec
CHECK_DEADLOCK FALSE
SYMMETRY Symmetry
INVARIANTS
  OneToken
  NeverStranded
PROPERTY ImplementsSerialQueue
