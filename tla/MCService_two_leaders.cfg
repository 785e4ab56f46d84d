CONSTANTS
  Parts = {"election"}
  Node = {n1, n2}
  TTL = 4
  Timeout = 2
  Backoffs <- NoBackoff
  Deletions = {}
  MaxLost = 2
  MaxFaults = 3
  Scheduler = {s1}
  Schedule = {a}
  Operations = {}
  Shutdowns = {}
  MaxWrites = 0
  MaxRounds = 0
  MaxStops = 0
SPECIFICATION ServiceSpec
INVARIANTS OneLeader
