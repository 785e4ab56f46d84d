CONSTANTS
  t1 = t1
  t2 = t2
  t3 = t3
  t4 = t4
  NoTask = NoTask
  Task = {t1, t2, t3, t4}
  Dependencies <- Join
  TaskMaxTries <- LastTwice
  HasDeadline = {}
  Faults = {}
  QueueMaxTries = 3
  MaxConcurrent = 2
  Proc = {p1, p2}
  Concurrency = 2
  Slot = {s1, s2}
  Discard = {}
  Client = {c1}
  MaxEnqueues = 1
  MaxCalls = 0
  Operations = {}
SPECIFICATION HistorySpec
INVARIANTS RunsBounded TriesCountRuns TokensConserved InFlightBounded
PROPERTIES RunsAfterParents UnreachableMeansFailed TerminatedNotRun
SYMMETRY ProcSymmetry
CHECK_DEADLOCK FALSE
