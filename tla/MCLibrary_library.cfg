CONSTANTS
  MaxRunTime = 5
  MaxDelay = 2
  MaxOverdue = 3
  RunDeadlines = {0, 4, 5, 6, 7, 8, 11}
  MaxLatency = 3
  Horizon = 12
  TaskType <- Types
  Global = {"g1", "g2"}
  PerRoute = {"r1", "r2"}
  MaxRoutes = 3
  MaxGlobal = 2
  Policies = {"default", "1m", "1h", "poll", "testing"}
  MaxDeliveries = 55
  c2 = c2
  Client = {c1, c2}
  Post = {p1, p2}
  Layouts = {1, 3}
  QueueSettings <- TwoSettings
  MaxDeletes = 1
  Signer = {s1, s2}
  Queue = {"A", "B"}
  Key = {"k1", "k2"}
  NoKey = "none"
  BadKey = "bad"
  Task = {"t1"}
  Content = {"x"}
  Sources = {"client", "scheduler", "post"}
  MaxRetries = 2
  MaxRotations = 2
  signing = s1
SPECIFICATION LibrarySpec
SYMMETRY PostSymmetry
INVARIANTS LockStep TimelyAnswerCounts RoutesToLongestPrefix ReadyAgrees BindersCreateNothing SignedStaysLoadable
PROPERTIES DelayInBounds BackoffGrows
CHECK_DEADLOCK FALSE
