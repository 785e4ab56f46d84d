CONSTANTS
  t1 = t1
  t2 = t2
  s1 = s1
  s2 = s2
  s3 = s3
  l1 = l1
  l2 = l2
  Absent = Absent
  Stored = {s1, s2, s3}
  Unreadable = {s3}
  Lister = {l1, l2}
  Filters <- OneFilter
  Limits = {Absent, 0, 1}
  listTasksDefaultLimit = 2
  listTasksMaxLimit = 2
  MaxSeq = 3
  Request = {r1, r2}
  Operations = {"createTask", "retryTask", "retryTasks", "createSchedule"}
  Key = {k1, k2}
  NoKey = NoKey
  Task = {t1, t2}
  NoTask = NoTask
  Name = {"s"}
  IdLists <- Bodies
  bulkRetryMax = 2
  MaxChanges = 2
  MaxRestarts = 1
  MayExpire = TRUE
SPECIFICATION HttpSpec
INVARIANTS NeverPanics
CHECK_DEADLOCK FALSE
