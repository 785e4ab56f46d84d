CONSTANTS
  t1 = t1
  t2 = t2
  t3 = t3
  NoTask = NoTask
  Task = {t1}
  Dependencies <- NoDependencies
  TaskMaxTries <- OneTry
  HasDeadline = {t1}
  Faults = {"slow"}
  QueueMaxTries = 2
  MaxConcurrent = 2
  Proc = {p1, p2}
  Concurrency = 1
  Slot = {s1}
  Discard = {"complete", "expired", "terminated"}
  Client = {c1}
  MaxEnqueues = 2
  MaxCalls = 1
  Operations = {"retry", "delete", "purge"}
SPECIFICATION Spec
PROPERTIES NotResurrected
SYMMETRY ProcSymmetry
CHECK_DEADLOCK FALSE
