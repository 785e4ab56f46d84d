CONSTANTS
  t1 = t1
  t2 = t2
  t3 = t3
  NoTask = NoTask
  Task = {t1, t2}
  Dependencies <- Chain
  TaskMaxTries <- TwoTries
  HasDeadline = {}
  Faults = {"crash"}
  QueueMaxTries = 3
  MaxConcurrent = 2
  Proc = {p1, p2}
  Concurrency = 1
  Slot = {s1}
  Discard = {}
  Client = {c1}
  MaxEnqueues = 1
  MaxCalls = 0
  Operations = {}
SPECIFICATION FairSpec
INVARIANTS OneWorker
PROPERTIES EventuallySettled QueueDrains
CHECK_DEADLOCK FALSE
