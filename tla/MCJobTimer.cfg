CONSTANTS
  w1 = w1
  w2 = w2
  q1 = q1
  Threads = {w1, w2}
  Workers = {w1, w2}
  Queues = {q1}
  NoQueue = NoQueue
  MaxJobs = 3
  MaxTimers = 2
  MaxTime = 1
SPECIFICATION FairTimerSpec
CHECK_DEADLOCK FALSE
INVARIANT ItemsKept
PROPERTIES
  FiredInDueOrder
  TimersFire
  EveryJobRuns
