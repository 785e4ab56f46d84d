CONSTANTS
  t1 = t1
  t2 = t2
  t3 = t3
  NoTask = NoTask
  Task = {t1}
  Dependencies <- NoDependencies
  TaskMaxTries <- TwoTries
  HasDeadline = {}
  Faults = {"crash", "slow", "lostRequest", "lostReply"}
  QueueMaxTries = 2
  MaxConcurrent = 2
  Proc = {p1, p2}
  Concurrency = 1
  Slot = {s1}
  Discard = {}
  Client = {c1}
  MaxEnqueues = 1
  MaxCalls = 1
  Operations = {"retry"}
SPECIFICATION Spec
INVARIANTS SoleOwner TriesBounded Fenced
PROPERTIES FinalUnlessRetried ImplementsLifecycle
SYMMETRY ProcSymmetry
CHECK_DEADLOCK FALSE
