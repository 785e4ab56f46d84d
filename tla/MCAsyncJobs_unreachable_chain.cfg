CONSTANTS
  t1 = t1
  t2 = t2
  t3 = t3
  NoTask = NoTask
  Task = {t1, t2, t3}
  Dependencies <- Chain
  TaskMaxTries <- OneTry
  HasDeadline = {}
  Faults = {}
  QueueMaxTries <- NoLimit
  MaxConcurrent = 2
  Proc = {p1}
  Concurrency = 1
  Slot = {s1}
  Discard = {}
  Client = {c1}
  MaxEnqueues = 1
  MaxCalls = 0
  Operations = {}
SPECIFICATION FairSpec
PROPERTIES UnreachableSpreads
CHECK_DEADLOCK FALSE
