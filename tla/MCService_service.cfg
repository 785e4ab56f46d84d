CONSTANTS
  Parts = {"election", "schedules", "jobs"}
  Node = {n1, n2}
  TTL = 4
  Timeout = 2
  Backoffs <- WithBackoff
  Deletions = {"unled"}
  MaxLost = 1
  MaxFaults = 3
  Scheduler = {s1}
  Schedule = {a, b}
  Operations = {"create", "update", "delete"}
  Shutdowns = {"stop", "cancel", "crash"}
  MaxWrites = 3
  MaxRounds = 1
  MaxStops = 1
SPECIFICATION ServiceFairSpec
INVARIANTS ToldApart CallbacksAgree FollowsBucket LoadedBeforeCron
PROPERTIES ImplementsLeadership EventuallyLed ChangesArrive LeaderCreates
CHECK_DEADLOCK FALSE
