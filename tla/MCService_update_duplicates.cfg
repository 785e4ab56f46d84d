CONSTANTS
  Parts = {"schedules"}
  Node = {n1}
  TTL = 4
  Timeout = 2
  Backoffs <- NoBackoff
  Deletions = {}
  MaxLost = 0
  MaxFaults = 0
  Scheduler = {s1}
  Schedule = {a}
  Operations = {"create", "update"}
  Shutdowns = {}
  MaxWrites = 3
  MaxRounds = 0
  MaxStops = 0
SPECIFICATION ServiceSpec
INVARIANTS OneEntryPerSchedule
CHECK_DEADLOCK FALSE
