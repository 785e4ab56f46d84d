---------------------------- MODULE HttpProofs ----------------------------
(***************************************************************************)
(* What the answers of the HTTP API mean, for any number of requests, keys *)
(* and tasks, however the requests overlap, tasks are deleted, keys expire *)
(* and the server restarts.                                                *)
(***************************************************************************)
EXTENDS HttpApi, TLAPS

\* The operations, the control and the results of a request.
Ops == {"none", "createTask", "retryTask", "retryTasks", "createSchedule"}
PCs == {"idle", "load", "enqueue", "store", "retry", "answered"}
Results == Seq({"ok", "not_found", "failed"})
Keys == Key \cup {NoKey}
TaskIds == Task \cup {NoTask}
Names == Name \cup {"none"}

Requests ==
  [op : Ops, pc : PCs, key : Keys, task : TaskIds, name : Names, ids : Seq(Task),
   results : Results, status : Nat, made : Nat, replay : BOOLEAN, retried : SUBSET Task]

TaskStates == [Task -> {"unused", "stored", "gone"}]
Entries == [Key -> [task : Task \cup {NoTask}, expired : BOOLEAN]]

ApiTypeOK ==
  /\ tasks \in TaskStates /\ idempotency \in Entries
  /\ schedule \in [Name -> Nat] /\ changes \in Nat
  /\ req \in [Request -> Requests]

\* What the fields of one request have to do with each other.
Sane(q) ==
  /\ q.pc # "answered" => q.status = 0
  /\ q.pc = "idle" => q.op = "none" /\ q.task = NoTask
  /\ q.pc \in {"enqueue", "store"} => q.op = "createTask"
  /\ q.pc = "enqueue" => q.task = NoTask
  /\ q.pc = "store" => q.task # NoTask
  /\ q.op = "createTask" /\ q.status = 201 => q.task # NoTask
  /\ q.op = "createTask" /\ q.status \notin {0, 200, 201} => q.task = NoTask
  /\ q.replay => /\ q.op = "createTask" /\ q.task # NoTask
                 /\ q.pc \in {"load", "answered"} /\ q.status # 201

\* The progress of a bulk retry.
Counted(q) ==
  /\ q.op # "retryTasks" => q.results = <<>> /\ q.retried = {}
  /\ q.pc = "answered" /\ q.status = 400 => q.retried = {}
  /\ q.pc = "retry" => q.op = "retryTasks" /\ Len(q.results) < Len(q.ids)
  /\ q.pc = "answered" /\ q.status = 200 /\ q.op = "retryTasks" => Len(q.results) = Len(q.ids)
  /\ Len(q.results) <= Len(q.ids)
  /\ \A i \in 1..Len(q.results) : q.results[i] = "ok" => q.ids[i] \in q.retried
  /\ \A t \in q.retried :
       \E j \in 1..Len(q.results) : q.ids[j] = t /\ q.results[j] # "not_found"

\* The task a request knows was made, and is there if it is being replayed.
Known(q, store) ==
  q.op = "createTask" /\ q.task # NoTask =>
    store[q.task] # "unused" /\ (q.replay /\ q.pc = "load" => store[q.task] = "stored")

\* A task that was just made is known to its request only; one that was answered
\* with 201 is known to replays of its key; a schedule has one creator.
Apart(q, p) ==
  /\ q.made # 0 => p.made # q.made
  /\ q.op = "createTask" /\ p.op = "createTask" /\ p.task = q.task =>
       /\ q.pc # "store"
       /\ q.pc = "answered" /\ q.status = 201 => p.status \in {0, 200} /\ p.key = q.key

\* A key remembers the task of a request that was answered, with this key.
Keeps(q, k, e) ==
  q.op = "createTask" /\ q.task # NoTask /\ e.task = q.task =>
    q.pc # "store" /\ (q.pc = "answered" /\ q.status = 201 => q.key = k)

ApiInv ==
  /\ ApiTypeOK
  /\ \A r \in Request :
       /\ Sane(req[r]) /\ Counted(req[r]) /\ Known(req[r], tasks) /\ req[r].made <= changes
       /\ \A s \in Request \ {r} : Apart(req[r], req[s])
       /\ \A k \in Key : Keeps(req[r], k, idempotency[k])
  /\ \A k \in Key : idempotency[k].task # NoTask => tasks[idempotency[k].task] # "unused"

\* The invariant in the next state, by its parts.
LEMMA InvariantHolds ==
  ASSUME ApiTypeOK',
         \A r \in Request : Sane(req'[r]) /\ Counted(req'[r]) /\ Known(req'[r], tasks')
                            /\ req'[r].made <= changes',
         \A r \in Request : \A s \in Request \ {r} : Apart(req'[r], req'[s]),
         \A r \in Request, k \in Key : Keeps(req'[r], k, idempotency'[k]),
         \A k \in Key : idempotency'[k].task # NoTask => tasks'[idempotency'[k].task] # "unused"
  PROVE  ApiInv'
<1>1. (\A r \in Request : Sane(req[r]))'
      BY ZenonT(30) DEF Sane
<1>2. (\A r \in Request : Counted(req[r]))'
      BY ZenonT(30) DEF Counted
<1>3. (\A r \in Request : Known(req[r], tasks))'
      BY Zenon DEF Known
<1>4. (\A r \in Request : \A s \in Request \ {r} : Apart(req[r], req[s]))'
      BY Zenon DEF Apart
<1>5. (\A r \in Request, k \in Key : Keeps(req[r], k, idempotency[k]))'
      BY Zenon DEF Keeps
<1>6. QED
      BY <1>1, <1>2, <1>3, <1>4, <1>5 DEF ApiInv

\* A request that moves on keeps the invariant if it fits in with the others.
LEMMA RequestMoves ==
  ASSUME ApiInv, NEW r \in Request, NEW v \in Requests, req' = [req EXCEPT ![r] = v],
         tasks' \in TaskStates, idempotency' \in Entries,
         schedule' \in [Name -> Nat], changes' \in Nat, changes' >= changes,
         \A t \in Task : /\ tasks[t] # "unused" => tasks'[t] # "unused"
                         /\ tasks[t] = "stored" => tasks'[t] = "stored",
         Sane(v), Counted(v), Known(v, tasks'), v.made <= changes',
         \A s \in Request \ {r} : Apart(v, req[s]) /\ Apart(req[s], v),
         \A k \in Key : Keeps(v, k, idempotency'[k]),
         \A s \in Request \ {r}, k \in Key : Keeps(req[s], k, idempotency'[k]),
         \A k \in Key : idempotency'[k].task # NoTask => tasks'[idempotency'[k].task] # "unused"
  PROVE  ApiInv'
<1>1. ApiTypeOK'
      BY DEF ApiInv, ApiTypeOK
<1>2. req'[r] = v /\ \A s \in Request \ {r} : req'[s] = req[s]
      BY DEF ApiInv, ApiTypeOK
<1>3. \A s \in Request \ {r} : Known(req[s], tasks')
      BY ZenonT(30) DEF ApiInv, ApiTypeOK, Known, Requests, TaskIds
<1>4. \A s \in Request \ {r} : req[s].made <= changes'
      BY DEF ApiInv, ApiTypeOK, Requests
<1>5. ASSUME NEW s \in Request
      PROVE  /\ Sane(req'[s]) /\ Counted(req'[s]) /\ Known(req'[s], tasks') /\ req'[s].made <= changes'
             /\ \A u \in Request \ {s} : Apart(req'[s], req'[u])
             /\ \A k \in Key : Keeps(req'[s], k, idempotency'[k])
      <2>1. CASE s = r
            BY <1>2, <2>1
      <2>2. CASE s # r
            <3>1. req'[s] = req[s] /\ Sane(req[s]) /\ Counted(req[s])
                  BY <1>2, <2>2 DEF ApiInv
            <3>2. \A u \in Request \ {s} : Apart(req'[s], req'[u])
                  BY <1>2, <2>2 DEF ApiInv
            <3>3. QED
                  BY <1>3, <1>4, <2>2, <3>1, <3>2
      <2>3. QED
            BY <2>1, <2>2
<1>6. QED
      BY <1>1, <1>5, InvariantHolds

\* A request that creates no task needs to fit in by the schedule it makes only.
LEMMA OthersMove ==
  ASSUME ApiInv, NEW r \in Request, NEW v \in Requests, req' = [req EXCEPT ![r] = v],
         UNCHANGED <<tasks, idempotency>>, v.op # "createTask",
         schedule' \in [Name -> Nat], changes' \in Nat, changes' >= changes,
         Sane(v), Counted(v), v.made <= changes', v.made \in {0, req[r].made} \/ v.made > changes
  PROVE  ApiInv'
<1>1. \A s \in Request : req[s] \in Requests /\ req[s].made \in Nat /\ req[s].made <= changes
      BY DEF ApiInv, ApiTypeOK, Requests
<1>2. v.made \in Nat /\ changes \in Nat
      BY DEF Requests, ApiInv, ApiTypeOK
<1>3. \A s \in Request \ {r} : req[s].made # 0 => req[s].made # req[r].made
      BY DEF ApiInv, Apart
<1>4. \A s \in Request \ {r} : Apart(v, req[s]) /\ Apart(req[s], v)
      <2>1. \A s \in Request \ {r} : v.made # 0 => req[s].made # v.made
            BY <1>1, <1>2, <1>3
      <2>2. QED
            BY <2>1 DEF Apart
<1>5. Known(v, tasks') /\ \A k \in Key : Keeps(v, k, idempotency'[k])
      BY DEF Known, Keeps
<1>6. \A s \in Request \ {r}, k \in Key : Keeps(req[s], k, idempotency'[k])
      BY DEF ApiInv
<1>7. tasks' \in TaskStates /\ idempotency' \in Entries
      /\ \A k \in Key : idempotency'[k].task # NoTask => tasks'[idempotency'[k].task] # "unused"
      BY DEF ApiInv, ApiTypeOK
<1>8. QED
      BY <1>4, <1>5, <1>6, <1>7, RequestMoves, ZenonT(30)

\* The requests are requests.
LEMMA RequestType ==
  ASSUME ApiInv, NEW r \in Request
  PROVE  /\ req[r] \in Requests /\ Sane(req[r]) /\ Counted(req[r]) /\ Known(req[r], tasks)
         /\ req[r].made <= changes
         /\ \A s \in Request \ {r} : Apart(req[r], req[s]) /\ Apart(req[s], req[r])
         /\ \A k \in Key : Keeps(req[r], k, idempotency[k])
BY DEF ApiInv, ApiTypeOK

\* Members of the sets above.
LEMMA Members ==
  /\ "none" \in Ops /\ "createTask" \in Ops /\ "retryTask" \in Ops /\ "retryTasks" \in Ops
  /\ "createSchedule" \in Ops
  /\ "idle" \in PCs /\ "load" \in PCs /\ "enqueue" \in PCs /\ "store" \in PCs
  /\ "retry" \in PCs /\ "answered" \in PCs
  /\ NoTask \in TaskIds /\ Task \subseteq TaskIds /\ NoKey \in Keys /\ Key \subseteq Keys
  /\ "none" \in Names /\ Name \subseteq Names
BY DEF Ops, PCs, TaskIds, Keys, Names

\* A request that is answered keeps its other fields.
Ended(q, status) == [q EXCEPT !.pc = "answered", !.status = status]

LEMMA EndedType ==
  ASSUME NEW q \in Requests, NEW status \in Nat
  PROVE  LET v == Ended(q, status)
         IN  /\ v \in Requests /\ v.op = q.op /\ v.pc = "answered" /\ v.key = q.key
             /\ v.task = q.task /\ v.ids = q.ids /\ v.results = q.results /\ v.made = q.made
             /\ v.retried = q.retried /\ v.status = status /\ (v.replay <=> q.replay)
<1>1. Ended(q, status) \in Requests
      BY Members, ZenonT(30) DEF Ended, Requests
<1>2. QED
      BY <1>1 DEF Ended, Requests

LEMMA EndedStatus ==
  ASSUME NEW q \in Requests, NEW status
  PROVE  Ended(q, status).pc = "answered" /\ Ended(q, status).status = status
BY DEF Ended, Requests

\* CreateTask finds its key, or starts afresh.
LEMMA CreateTaskStep ==
  ASSUME ApiInv, NEW r \in Request, NEW k \in Key \cup {NoKey}, CreateTask(r, k)
  PROVE  ApiInv'
<1> DEFINE q == req[r]
<1>1. /\ q \in Requests /\ q.pc = "idle" /\ Sane(q) /\ Counted(q) /\ q.made <= changes
      /\ \A s \in Request \ {r} : Apart(q, req[s]) /\ Apart(req[s], q)
      BY RequestType DEF CreateTask, Accept
<1>2. UNCHANGED <<tasks, schedule, changes>> /\ k \in Keys
      BY Members DEF CreateTask, Keys
<1>3. /\ tasks' \in TaskStates /\ schedule' \in [Name -> Nat] /\ changes' \in Nat
      /\ changes' >= changes /\ idempotency \in Entries /\ NoTask \notin Task
      BY <1>2, HttpAssumption DEF ApiInv, ApiTypeOK
<1>4. CASE k # NoKey /\ Remembered(k)
      <2> DEFINE t == idempotency[k].task
                 b == tasks[t] = "stored"
                 v == [q EXCEPT !.op = "createTask", !.pc = "load", !.key = k, !.task = t,
                                !.replay = b]
      <2>1. req' = [req EXCEPT ![r] = v] /\ idempotency' = idempotency
            BY <1>4, Zenon DEF CreateTask, Become
      <2>2. k \in Key /\ t \in Task /\ t # NoTask /\ t \in TaskIds /\ tasks[t] # "unused"
            BY <1>3, <1>4, Members DEF Remembered, Entries, TaskIds, ApiInv
      <2>3. b \in BOOLEAN /\ (b => tasks[t] = "stored")
            BY Zenon
      <2> HIDE DEF q, t, b
      <2>4. v \in Requests
            BY <1>1, <1>2, <2>2, <2>3, Members, ZenonT(30) DEF Requests
      <2>5. /\ v.op = "createTask" /\ v.pc = "load" /\ v.key = k /\ v.task = t /\ v.ids = q.ids
            /\ v.results = q.results /\ v.made = q.made /\ v.retried = q.retried
            /\ v.status = q.status
            BY <1>1 DEF Requests
      <2>6. v.replay <=> b
            BY <1>1, <2>3 DEF Requests
      <2> HIDE DEF v
      <2>7. Sane(v) /\ Counted(v) /\ Known(v, tasks')
            BY <1>1, <1>2, <2>2, <2>3, <2>5, <2>6 DEF Sane, Counted, Known
      <2>8. \A s \in Request \ {r} : Apart(v, req[s]) /\ Apart(req[s], v)
            <3> SUFFICES ASSUME NEW s \in Request \ {r} PROVE Apart(v, req[s]) /\ Apart(req[s], v)
                BY ZenonT(30)
            <3>1. Apart(v, req[s])
                  BY <1>1, <2>5 DEF Apart
            <3>2. Keeps(req[s], k, idempotency[k])
                  BY <2>2, RequestType
            <3>3. q.status = 0
                  BY <1>1 DEF Sane
            <3>4. Apart(req[s], v)
                  BY <1>1, <2>2, <2>5, <3>2, <3>3 DEF Apart, Keeps, t
            <3>5. QED
                  BY <3>1, <3>4
      <2>9. /\ \A j \in Key : Keeps(v, j, idempotency'[j])
            /\ \A s \in Request \ {r}, j \in Key : Keeps(req[s], j, idempotency'[j])
            BY <2>1, <2>5, RequestType DEF Keeps
      <2>10. QED
            BY <1>1, <1>2, <1>3, <2>1, <2>4, <2>5, <2>7, <2>8, <2>9, RequestMoves, ZenonT(30) DEF ApiInv
<1>5. CASE ~(k # NoKey /\ Remembered(k))
      <2> DEFINE v == [q EXCEPT !.op = "createTask", !.pc = "enqueue", !.key = k]
      <2>1. /\ req' = [req EXCEPT ![r] = v]
            /\ idempotency' = IF k = NoKey THEN idempotency ELSE [idempotency EXCEPT ![k] = NoEntry]
            BY <1>5, Zenon DEF CreateTask, Become
      <2>2. /\ idempotency' \in Entries
            /\ \A j \in Key : idempotency'[j].task \in {NoTask, idempotency[j].task}
            BY <1>3, <2>1, Members DEF Entries, NoEntry
      <2> HIDE DEF q
      <2>3. v \in Requests
            BY <1>1, <1>2, Members, ZenonT(30) DEF Requests
      <2>4. /\ v.op = "createTask" /\ v.pc = "enqueue" /\ v.key = k /\ v.task = q.task
            /\ v.ids = q.ids /\ v.results = q.results /\ v.made = q.made /\ v.retried = q.retried
            /\ v.status = q.status /\ (v.replay <=> q.replay)
            BY <1>1 DEF Requests
      <2> HIDE DEF v
      <2>5. Sane(v) /\ Counted(v) /\ Known(v, tasks') /\ v.task = NoTask
            BY <1>1, <2>4, SMTT(30) DEF Sane, Counted, Known
      <2>6. \A s \in Request \ {r} : Apart(v, req[s]) /\ Apart(req[s], v)
            BY <1>1, <2>4, <2>5, RequestType DEF Apart, Sane
      <2>7. /\ \A j \in Key : Keeps(v, j, idempotency'[j])
            /\ \A s \in Request \ {r}, j \in Key : Keeps(req[s], j, idempotency'[j])
            BY <2>2, <2>5, RequestType DEF Keeps
      <2>8. \A j \in Key : idempotency'[j].task # NoTask => tasks'[idempotency'[j].task] # "unused"
            BY <1>2, <2>2 DEF ApiInv
      <2>9. QED
            BY <1>1, <1>2, <1>3, <2>1, <2>2, <2>3, <2>4, <2>5, <2>6, <2>7, <2>8, RequestMoves, ZenonT(30)
<1>6. QED
      BY <1>4, <1>5

\* No task that was made changes.
Kept == \A t \in Task : tasks[t] # "unused" => tasks'[t] = tasks[t]

\* A POST /v1/tasks that knows no task, while others may have made one.
LEMMA NoTaskMoves ==
  ASSUME ApiInv, NEW r \in Request, NEW v \in Requests, req' = [req EXCEPT ![r] = v],
         UNCHANGED <<idempotency, schedule, changes>>, tasks' \in TaskStates,
         Kept, v.op = "createTask", v.task = NoTask, v.made = req[r].made, Sane(v), Counted(v)
  PROVE  ApiInv'
<1>1. \A s \in Request \ {r} : Apart(v, req[s]) /\ Apart(req[s], v)
      <2> SUFFICES ASSUME NEW s \in Request \ {r} PROVE Apart(v, req[s]) /\ Apart(req[s], v)
          OBVIOUS
      <2>1. Sane(req[s]) /\ Apart(req[r], req[s]) /\ Apart(req[s], req[r])
            BY RequestType
      <2>2. QED
            BY <2>1 DEF Apart, Sane
<1>2. Known(v, tasks') /\ \A k \in Key : Keeps(v, k, idempotency'[k])
      BY DEF Known, Keeps
<1>3. \A s \in Request \ {r}, k \in Key : Keeps(req[s], k, idempotency'[k])
      BY DEF ApiInv
<1>4. /\ idempotency' \in Entries /\ schedule' \in [Name -> Nat] /\ changes' \in Nat
      /\ changes' >= changes /\ v.made <= changes'
      BY RequestType DEF ApiInv, ApiTypeOK
<1>5. \A k \in Key : idempotency'[k].task # NoTask => tasks'[idempotency'[k].task] # "unused"
      BY DEF ApiInv, ApiTypeOK, Entries, Kept
<1>6. \A t \in Task : /\ tasks[t] # "unused" => tasks'[t] # "unused"
                      /\ tasks[t] = "stored" => tasks'[t] = "stored"
      BY DEF Kept
<1>7. QED
      BY <1>1, <1>2, <1>3, <1>4, <1>5, <1>6, RequestMoves, ZenonT(30)

\* LoadTaskByID finds the task of the key: it answers the request.
LEMMA ReplayStep ==
  ASSUME ApiInv, NEW r \in Request, At(r, "createTask", "load"),
         req' = [req EXCEPT ![r] = [req[r] EXCEPT !.pc = "answered", !.status = 200]],
         UNCHANGED <<tasks, idempotency, schedule, changes>>
  PROVE  ApiInv'
<1> DEFINE q == req[r]
           v == Ended(q, 200)
<1>1. /\ q \in Requests /\ q.op = "createTask" /\ q.pc = "load" /\ Sane(q) /\ Counted(q)
      /\ Known(q, tasks) /\ q.made <= changes
      /\ \A s \in Request \ {r} : Apart(q, req[s]) /\ Apart(req[s], q)
      /\ \A k \in Key : Keeps(q, k, idempotency[k])
      BY RequestType DEF At
<1>2. req' = [req EXCEPT ![r] = v]
      BY DEF Ended
<1> HIDE DEF q
<1>3. v \in Requests
      BY <1>1, EndedType
<1>4. /\ v.op = q.op /\ v.pc = "answered" /\ v.key = q.key /\ v.task = q.task
      /\ v.ids = q.ids /\ v.results = q.results /\ v.made = q.made /\ v.retried = q.retried
      /\ v.status = 200 /\ (v.replay <=> q.replay)
      BY <1>1, EndedType
<1> HIDE DEF v
<1>5. Sane(v) /\ Counted(v) /\ Known(v, tasks')
      BY <1>1, <1>4 DEF Sane, Counted, Known
<1>6. \A s \in Request \ {r} : Apart(v, req[s]) /\ Apart(req[s], v)
      BY <1>1, <1>4 DEF Apart
<1>7. /\ \A k \in Key : Keeps(v, k, idempotency'[k])
      /\ \A s \in Request \ {r}, k \in Key : Keeps(req[s], k, idempotency'[k])
      BY <1>4, RequestType DEF Keeps
<1>8. /\ tasks' \in TaskStates /\ idempotency' \in Entries /\ schedule' \in [Name -> Nat]
      /\ changes' \in Nat /\ changes' >= changes
      BY DEF ApiInv, ApiTypeOK
<1>9. QED
      BY <1>1, <1>2, <1>3, <1>4, <1>5, <1>6, <1>7, <1>8, RequestMoves, ZenonT(30) DEF ApiInv

\* It does not: the request goes on as if the key were new.
LEMMA ReloadFails ==
  ASSUME ApiInv, NEW r \in Request, At(r, "createTask", "load"), NEW b \in BOOLEAN, ~b,
         req' = [req EXCEPT ![r] = [req[r] EXCEPT !.pc = "enqueue", !.task = NoTask, !.replay = b]],
         UNCHANGED <<tasks, idempotency, schedule, changes>>
  PROVE  ApiInv'
<1> DEFINE q == req[r]
           v == [q EXCEPT !.pc = "enqueue", !.task = NoTask, !.replay = b]
<1>1. q \in Requests /\ q.op = "createTask" /\ q.pc = "load" /\ Sane(q) /\ Counted(q)
      BY RequestType DEF At
<1>2. req' = [req EXCEPT ![r] = v]
      OBVIOUS
<1> HIDE DEF q
<1>3. v \in Requests
      BY <1>1, Members, ZenonT(30) DEF Requests
<1>4. /\ v.op = q.op /\ v.pc = "enqueue" /\ v.task = NoTask
      /\ v.ids = q.ids /\ v.results = q.results /\ v.made = q.made /\ v.retried = q.retried
      /\ v.status = q.status /\ (v.replay <=> b)
      BY <1>1 DEF Requests
<1> HIDE DEF v
<1>5. Sane(v) /\ Counted(v)
      BY <1>1, <1>4 DEF Sane, Counted
<1>6. tasks' \in TaskStates /\ Kept
      BY DEF ApiInv, ApiTypeOK, Kept
<1>7. QED
      BY <1>1, <1>2, <1>3, <1>4, <1>5, <1>6, NoTaskMoves, ZenonT(30) DEF q

\* The body is refused, or EnqueueTask fails, leaving a task or not.
LEMMA CreateFails ==
  ASSUME ApiInv, NEW r \in Request, At(r, "createTask", "enqueue"),
         \/ req' = [req EXCEPT ![r] = Ended(req[r], 400)]
         \/ req' = [req EXCEPT ![r] = Ended(req[r], 500)],
         UNCHANGED <<idempotency, schedule, changes>>, tasks' \in TaskStates, Kept
  PROVE  ApiInv'
<1>0. PICK status \in {400, 500} : req' = [req EXCEPT ![r] = Ended(req[r], status)]
      OBVIOUS
<1> DEFINE q == req[r]
           v == Ended(q, status)
<1>1. q \in Requests /\ q.op = "createTask" /\ q.pc = "enqueue" /\ Sane(q) /\ Counted(q)
      BY RequestType DEF At
<1>2. req' = [req EXCEPT ![r] = v]
      BY <1>0
<1> HIDE DEF q
<1>3. v \in Requests
      <2>1. status \in Nat
            OBVIOUS
      <2>2. QED
            BY <1>1, <2>1, EndedType
<1>4. /\ v.op = q.op /\ v.pc = "answered" /\ v.task = q.task
      /\ v.ids = q.ids /\ v.results = q.results /\ v.made = q.made /\ v.retried = q.retried
      /\ v.status = status /\ (v.replay <=> q.replay)
      BY <1>1, <1>0, EndedType
<1> HIDE DEF v
<1>5. Sane(v) /\ Counted(v) /\ v.task = NoTask
      BY <1>1, <1>4 DEF Sane, Counted
<1>6. v.op = "createTask" /\ v.made = req[r].made
      BY <1>1, <1>4 DEF q
<1>7. QED
      BY <1>2, <1>3, <1>5, <1>6, NoTaskMoves, ZenonT(30)

\* NewTask gives out an ID nobody knows.
LEMMA EnqueueStep ==
  ASSUME ApiInv, NEW r \in Request, Enqueue(r)
  PROVE  ApiInv'
<1>1. PICK t \in Task :
        /\ tasks[t] = "unused" /\ tasks' = [tasks EXCEPT ![t] = "stored"]
        /\ req' = [req EXCEPT ![r] = [req[r] EXCEPT !.pc = "store", !.task = t]]
      BY ZenonT(30) DEF Enqueue, Become
<1> DEFINE q == req[r]
           v == [q EXCEPT !.pc = "store", !.task = t]
<1>2. /\ q \in Requests /\ q.op = "createTask" /\ q.pc = "enqueue" /\ Sane(q) /\ Counted(q)
      /\ q.made <= changes
      /\ \A s \in Request \ {r} : Apart(q, req[s]) /\ Apart(req[s], q)
      BY RequestType DEF Enqueue, At
<1>3. req' = [req EXCEPT ![r] = v] /\ UNCHANGED <<idempotency, schedule, changes>>
      BY <1>1 DEF Enqueue
<1>4. t # NoTask /\ tasks \in TaskStates
      BY HttpAssumption DEF ApiInv, ApiTypeOK
<1>5. tasks' \in TaskStates /\ tasks'[t] = "stored" /\ \A u \in Task : u # t => tasks'[u] = tasks[u]
      BY <1>1, <1>4 DEF TaskStates
<1> HIDE DEF q
<1>6. v \in Requests
      BY <1>2, Members, ZenonT(30) DEF Requests
<1>7. /\ v.op = q.op /\ v.pc = "store" /\ v.task = t /\ v.key = q.key
      /\ v.ids = q.ids /\ v.results = q.results /\ v.made = q.made /\ v.retried = q.retried
      /\ v.status = q.status /\ (v.replay <=> q.replay)
      BY <1>2 DEF Requests
<1> HIDE DEF v
<1>8. Sane(v) /\ Counted(v) /\ Known(v, tasks')
      BY <1>2, <1>4, <1>5, <1>7 DEF Sane, Counted, Known
<1>9. \A s \in Request \ {r} : req[s].op = "createTask" => req[s].task # t
      BY <1>1, <1>4, RequestType DEF Known
<1>10. \A s \in Request \ {r} : Apart(v, req[s]) /\ Apart(req[s], v)
      <2> SUFFICES ASSUME NEW s \in Request \ {r} PROVE Apart(v, req[s]) /\ Apart(req[s], v)
          BY ZenonT(30)
      <2>1. Apart(q, req[s]) /\ Apart(req[s], q) /\ (req[s].op = "createTask" => req[s].task # t)
            BY <1>2, <1>9
      <2>2. QED
            BY <1>7, <2>1 DEF Apart
<1>11. \A k \in Key : idempotency[k].task # t
      BY <1>1, <1>4 DEF ApiInv
<1>12. /\ \A k \in Key : Keeps(v, k, idempotency'[k])
       /\ \A s \in Request \ {r}, k \in Key : Keeps(req[s], k, idempotency'[k])
      BY <1>3, <1>7, <1>11, RequestType, SMTT(30) DEF Keeps
<1>13. /\ idempotency' \in Entries /\ schedule' \in [Name -> Nat]
       /\ changes' \in Nat /\ changes' >= changes /\ v.made <= changes'
      BY <1>2, <1>3, <1>7 DEF ApiInv, ApiTypeOK
<1>14. \A k \in Key : idempotency'[k].task # NoTask => tasks'[idempotency'[k].task] # "unused"
      BY <1>3, <1>5, <1>11 DEF ApiInv, ApiTypeOK, Entries
<1>15. \A u \in Task : /\ tasks[u] # "unused" => tasks'[u] # "unused"
                       /\ tasks[u] = "stored" => tasks'[u] = "stored"
      BY <1>1, <1>5
<1>16. QED
      BY <1>3, <1>5, <1>6, <1>8, <1>10, <1>12, <1>13, <1>14, <1>15, RequestMoves, ZenonT(30)

\* The answer is 201 and the key remembers the task.
LEMMA StoreStep ==
  ASSUME ApiInv, NEW r \in Request, Store(r)
  PROVE  ApiInv'
<1> DEFINE q == req[r]
           v == Ended(q, 201)
<1>1. /\ q \in Requests /\ q.op = "createTask" /\ q.pc = "store" /\ Sane(q) /\ Counted(q)
      /\ Known(q, tasks) /\ q.made <= changes
      /\ \A s \in Request \ {r} : Apart(q, req[s]) /\ Apart(req[s], q)
      /\ \A k \in Key : Keeps(q, k, idempotency[k])
      BY RequestType DEF Store, At
<1>2. /\ req' = [req EXCEPT ![r] = v] /\ UNCHANGED <<tasks, schedule, changes>>
      BY SMTT(30) DEF Store, Answer, Become, Ended
<1>3. /\ q.task # NoTask /\ q.task \in Task
      /\ \A s \in Request \ {r} : req[s].op = "createTask" => req[s].task # q.task
      /\ \A k \in Key : idempotency[k].task # q.task
      BY <1>1 DEF Sane, Apart, Keeps, Requests, TaskIds
<1>4. idempotency' = IF q.key = NoKey THEN idempotency
                     ELSE [k \in Key |->
                             IF k = q.key THEN [task |-> q.task, expired |-> FALSE]
                             ELSE IF idempotency[k].expired THEN NoEntry ELSE idempotency[k]]
      BY Zenon DEF Store
<1>5. \A k \in Key : idempotency'[k].task \in {NoTask, idempotency[k].task}
                      \/ (idempotency'[k].task = q.task /\ k = q.key)
      BY <1>4 DEF NoEntry
<1>6. idempotency' \in Entries
      <2>1. NoEntry \in [task : Task \cup {NoTask}, expired : BOOLEAN]
            BY DEF NoEntry
      <2>2. [task |-> q.task, expired |-> FALSE] \in [task : Task \cup {NoTask}, expired : BOOLEAN]
            BY <1>3
      <2>3. idempotency \in Entries
            BY DEF ApiInv, ApiTypeOK
      <2> DEFINE E == [task : Task \cup {NoTask}, expired : BOOLEAN]
                 n == [task |-> q.task, expired |-> FALSE]
      <2> HIDE DEF E, n
      <2>4. QED
            BY <1>4, <2>1, <2>2, <2>3, Zenon DEF Entries, E, n
<1> HIDE DEF q
<1>7. v \in Requests
      BY <1>1, EndedType
<1>8. /\ v.op = q.op /\ v.pc = "answered" /\ v.task = q.task /\ v.key = q.key
      /\ v.ids = q.ids /\ v.results = q.results /\ v.made = q.made /\ v.retried = q.retried
      /\ v.status = 201 /\ (v.replay <=> q.replay)
      BY <1>1, EndedType, SMTT(30)
<1> HIDE DEF v
<1>9. Sane(v) /\ Counted(v) /\ Known(v, tasks')
      BY <1>1, <1>2, <1>3, <1>8 DEF Sane, Counted, Known
<1>10. \A s \in Request \ {r} : Apart(v, req[s]) /\ Apart(req[s], v)
      <2> SUFFICES ASSUME NEW s \in Request \ {r} PROVE Apart(v, req[s]) /\ Apart(req[s], v)
          BY ZenonT(30)
      <2>1. /\ Apart(q, req[s]) /\ Apart(req[s], q)
            /\ (req[s].op = "createTask" => req[s].task # q.task)
            BY <1>1, <1>3
      <2>2. QED
            BY <1>8, <2>1 DEF Apart
<1>11. \A k \in Key : Keeps(v, k, idempotency'[k])
      BY <1>3, <1>5, <1>8 DEF Keeps
<1>12. \A s \in Request \ {r}, k \in Key : Keeps(req[s], k, idempotency'[k])
      BY <1>3, <1>5, RequestType DEF Keeps
<1>13. /\ tasks' \in TaskStates /\ schedule' \in [Name -> Nat]
       /\ changes' \in Nat /\ changes' >= changes /\ v.made <= changes'
      BY <1>1, <1>2, <1>8 DEF ApiInv, ApiTypeOK
<1>14. \A k \in Key : idempotency'[k].task # NoTask => tasks'[idempotency'[k].task] # "unused"
      BY <1>1, <1>2, <1>3, <1>5 DEF ApiInv, Known
<1>15. QED
      BY <1>2, <1>6, <1>7, <1>9, <1>10, <1>11, <1>12, <1>13, <1>14, RequestMoves, ZenonT(30)

\* The statuses of errors.
LEMMA Statuses ==
  /\ \A e : writeLibraryError(e) \in {400, 404, 409, 500, 503}
  /\ writeLibraryError("ErrTaskTypeInvalid") = 400 /\ writeLibraryError("unknown") = 500
BY DEF writeLibraryError

\* Requests of the other operations that make no schedule.
LEMMA OtherSteps ==
  ASSUME ApiInv, NEW r \in Request, NEW v \in Requests, req' = [req EXCEPT ![r] = v],
         UNCHANGED <<tasks, idempotency, schedule, changes>>,
         v.op \in {"retryTask", "createSchedule"}, req[r].pc = "idle" \/ req[r].op = v.op,
         v.pc \in {"load", "answered"}, v.pc = "load" => v.status = req[r].status,
         v.ids = req[r].ids, v.results = req[r].results, v.made = req[r].made,
         v.retried = req[r].retried, v.replay <=> req[r].replay, req[r].pc # "answered"
  PROVE  ApiInv'
<1>1. /\ Sane(req[r]) /\ Counted(req[r]) /\ req[r].made <= changes
      BY RequestType
<1>2. Sane(v)
      BY <1>1 DEF Sane
<1>3. Counted(v)
      <2>1. v.results = <<>> /\ v.retried = {}
            BY <1>1, SMTT(30) DEF Sane, Counted
      <2>2. QED
            BY <1>1, <2>1 DEF Counted
<1>4. /\ schedule' \in [Name -> Nat] /\ changes' \in Nat /\ changes' >= changes
      /\ v.made <= changes' /\ v.made = req[r].made /\ v.op # "createTask"
      BY <1>1 DEF ApiInv, ApiTypeOK
<1>5. QED
      BY <1>2, <1>3, <1>4, OthersMove, ZenonT(30)

\* RetryTask has retried, and goes on to load the task or answers the error.
LEMMA RetryTaskStep ==
  ASSUME ApiInv, NEW r \in Request, NEW t \in Task, RetryTask(r, t)
  PROVE  ApiInv'
<1> DEFINE q == req[r]
<1>1. q \in Requests /\ q.pc = "idle"
      BY RequestType DEF RetryTask, Accept
<1>2. PICK o \in RetryOutcome(t) :
        req' = [req EXCEPT ![r] =
                  IF o[1] = "ok" THEN [q EXCEPT !.op = "retryTask", !.pc = "load", !.task = t]
                  ELSE [q EXCEPT !.op = "retryTask", !.pc = "answered", !.task = t,
                                 !.status = writeLibraryError(o[1])]]
      BY ZenonT(30) DEF RetryTask, Become
<1>3. UNCHANGED <<tasks, idempotency, schedule, changes>>
      BY SMTT(30) DEF RetryTask
<1>4. CASE o[1] = "ok"
      <2> DEFINE v == [q EXCEPT !.op = "retryTask", !.pc = "load", !.task = t]
      <2>1. req' = [req EXCEPT ![r] = v]
            BY <1>2, <1>4
      <2> HIDE DEF q
      <2>2. v \in Requests
            BY <1>1, Members, ZenonT(30) DEF Requests
      <2>3. /\ v.op = "retryTask" /\ v.pc = "load" /\ v.ids = q.ids /\ v.results = q.results
            /\ v.made = q.made /\ v.retried = q.retried /\ v.status = q.status
            /\ (v.replay <=> q.replay)
            BY <1>1 DEF Requests
      <2> HIDE DEF v
      <2>4. QED
            BY <1>1, <1>3, <2>1, <2>2, <2>3, OtherSteps, ZenonT(30) DEF q
<1>5. CASE o[1] # "ok"
      <2> DEFINE status == writeLibraryError(o[1])
                 v == [q EXCEPT !.op = "retryTask", !.pc = "answered", !.task = t, !.status = status]
      <2>1. req' = [req EXCEPT ![r] = v] /\ status \in Nat
            BY <1>2, <1>5, Statuses
      <2> HIDE DEF q, status
      <2>2. v \in Requests
            BY <1>1, <2>1, Members, ZenonT(30) DEF Requests
      <2>3. /\ v.op = "retryTask" /\ v.pc = "answered" /\ v.ids = q.ids /\ v.results = q.results
            /\ v.made = q.made /\ v.retried = q.retried /\ (v.replay <=> q.replay)
            BY <1>1 DEF Requests
      <2> HIDE DEF v
      <2>4. QED
            BY <1>1, <1>3, <2>1, <2>2, <2>3, OtherSteps, ZenonT(30) DEF q
<1>6. QED
      BY <1>4, <1>5

\* It shows the task, or says it is gone.
LEMMA RetryLoadStep ==
  ASSUME ApiInv, NEW r \in Request, RetryLoad(r)
  PROVE  ApiInv'
<1> DEFINE q == req[r]
           status == IF tasks[q.task] = "stored" THEN 200 ELSE writeLibraryError("ErrTaskNotFound")
           v == [q EXCEPT !.pc = "answered", !.status = status]
<1>1. q \in Requests /\ q.op = "retryTask" /\ q.pc = "load" /\ status \in Nat
      BY RequestType, Statuses DEF RetryLoad, At
<1>2. req' = [req EXCEPT ![r] = v] /\ UNCHANGED <<tasks, idempotency, schedule, changes>>
      BY DEF RetryLoad, Answer, Become
<1> HIDE DEF status, q
<1>3. v \in Requests
      BY <1>1, Members, ZenonT(30) DEF Requests
<1>4. /\ v.op = "retryTask" /\ v.pc = "answered" /\ v.ids = q.ids /\ v.results = q.results
      /\ v.made = q.made /\ v.retried = q.retried /\ (v.replay <=> q.replay)
      BY <1>1 DEF Requests
<1> HIDE DEF v
<1>5. QED
      BY <1>1, <1>2, <1>3, <1>4, OtherSteps, ZenonT(30) DEF q

\* CreateSchedule refuses its body.
LEMMA RefuseScheduleStep ==
  ASSUME ApiInv, NEW r \in Request, RefuseSchedule(r)
  PROVE  ApiInv'
<1> DEFINE q == req[r]
           status == writeLibraryError("ErrScheduleInvalid")
           v == [q EXCEPT !.op = "createSchedule", !.pc = "answered", !.status = status]
<1>1. q \in Requests /\ q.pc = "idle" /\ status \in Nat
      BY RequestType, Statuses DEF RefuseSchedule, Accept
<1>2. req' = [req EXCEPT ![r] = v] /\ UNCHANGED <<tasks, idempotency, schedule, changes>>
      BY DEF RefuseSchedule, Answer, Become
<1> HIDE DEF status, q
<1>3. v \in Requests
      BY <1>1, Members, ZenonT(30) DEF Requests
<1>4. /\ v.op = "createSchedule" /\ v.pc = "answered" /\ v.ids = q.ids /\ v.results = q.results
      /\ v.made = q.made /\ v.retried = q.retried /\ (v.replay <=> q.replay)
      BY <1>1 DEF Requests
<1> HIDE DEF v
<1>5. QED
      BY <1>1, <1>2, <1>3, <1>4, OtherSteps, ZenonT(30) DEF q

\* It shows the schedule, or says it is gone.
LEMMA LoadScheduleStep ==
  ASSUME ApiInv, NEW r \in Request, LoadSchedule(r)
  PROVE  ApiInv'
<1> DEFINE q == req[r]
           status == IF schedule[q.name] # 0 THEN 201
                     ELSE writeLibraryError("ErrScheduledTaskNotFound")
           v == [q EXCEPT !.pc = "answered", !.status = status]
<1>1. q \in Requests /\ q.op = "createSchedule" /\ q.pc = "load" /\ status \in Nat
      BY RequestType, Statuses DEF LoadSchedule, At
<1>2. req' = [req EXCEPT ![r] = v] /\ UNCHANGED <<tasks, idempotency, schedule, changes>>
      BY DEF LoadSchedule, Answer, Become
<1> HIDE DEF status, q
<1>3. v \in Requests
      BY <1>1, Members, ZenonT(30) DEF Requests
<1>4. /\ v.op = "createSchedule" /\ v.pc = "answered" /\ v.ids = q.ids /\ v.results = q.results
      /\ v.made = q.made /\ v.retried = q.retried /\ (v.replay <=> q.replay)
      BY <1>1 DEF Requests
<1> HIDE DEF v
<1>5. QED
      BY <1>1, <1>2, <1>3, <1>4, OtherSteps, ZenonT(30) DEF q

\* The create of the schedule's key succeeds with a new incarnation, or fails.
LEMMA CreateScheduleStep ==
  ASSUME ApiInv, NEW r \in Request, NEW n \in Name, CreateSchedule(r, n)
  PROVE  ApiInv'
<1> DEFINE q == req[r]
<1>1. /\ q \in Requests /\ q.pc = "idle" /\ Sane(q) /\ Counted(q) /\ changes \in Nat
      /\ schedule \in [Name -> Nat] /\ UNCHANGED <<tasks, idempotency>>
      BY RequestType DEF CreateSchedule, Accept, ApiInv, ApiTypeOK
<1>2. CASE schedule[n] = 0
      <2> DEFINE c == changes + 1
                 v == [q EXCEPT !.op = "createSchedule", !.name = n, !.pc = "load", !.made = c]
      <2>1. /\ changes' = c /\ schedule' = [schedule EXCEPT ![n] = c]
            /\ req' = [req EXCEPT ![r] = [[q EXCEPT !.op = "createSchedule", !.name = n]
                                           EXCEPT !.pc = "load", !.made = c]]
            BY <1>2 DEF CreateSchedule, Become
      <2>2. c \in Nat /\ c > changes
            BY <1>1
      <2> HIDE DEF c, q
      <2>3. req' = [req EXCEPT ![r] = v]
            BY <1>1, <2>1 DEF Requests
      <2>4. v \in Requests
            BY <1>1, <2>2, Members, ZenonT(30) DEF Requests
      <2>5. /\ v.op = "createSchedule" /\ v.pc = "load" /\ v.ids = q.ids /\ v.results = q.results
            /\ v.made = c /\ v.retried = q.retried /\ v.status = q.status /\ (v.replay <=> q.replay)
            BY <1>1 DEF Requests
      <2> HIDE DEF v
      <2>6. Sane(v) /\ Counted(v)
            BY <1>1, <2>5 DEF Sane, Counted
      <2>7. schedule' \in [Name -> Nat] /\ changes' \in Nat /\ changes' >= changes
            /\ v.made <= changes' /\ v.made > changes /\ v.op # "createTask"
            BY <1>1, <2>1, <2>2, <2>5
      <2>8. QED
            BY <1>1, <2>3, <2>4, <2>6, <2>7, OthersMove, ZenonT(30)
<1>3. CASE schedule[n] # 0
      <2> DEFINE status == writeLibraryError("ErrScheduledTaskAlreadyExist")
                 v == [q EXCEPT !.op = "createSchedule", !.name = n, !.pc = "answered",
                                !.status = status]
      <2>1. /\ UNCHANGED <<schedule, changes>>
            /\ req' = [req EXCEPT ![r] = [[q EXCEPT !.op = "createSchedule", !.name = n]
                                           EXCEPT !.pc = "answered", !.status = status]]
            BY <1>3 DEF CreateSchedule, Become
      <2>2. status \in Nat
            BY Statuses
      <2> HIDE DEF status, q
      <2>3. req' = [req EXCEPT ![r] = v]
            BY <1>1, <2>1 DEF Requests
      <2>4. v \in Requests
            BY <1>1, <2>2, Members, ZenonT(30) DEF Requests
      <2>5. /\ v.op = "createSchedule" /\ v.pc = "answered" /\ v.ids = q.ids
            /\ v.results = q.results /\ v.made = q.made /\ v.retried = q.retried
            /\ (v.replay <=> q.replay)
            BY <1>1 DEF Requests
      <2> HIDE DEF v
      <2>6. QED
            BY <1>1, <2>1, <2>3, <2>4, <2>5, OtherSteps, ZenonT(30) DEF q
<1>4. QED
      BY <1>2, <1>3

\* RetryTasks accepts a list of IDs, or refuses it.
LEMMA RetryTasksStep ==
  ASSUME ApiInv, NEW r \in Request, NEW ids \in IdLists, RetryTasks(r, ids)
  PROVE  ApiInv'
<1> DEFINE q == req[r]
           ok == Len(ids) \in 1..bulkRetryMax
           v == [q EXCEPT !.op = "retryTasks", !.pc = "retry", !.ids = ids]
           w == [q EXCEPT !.op = "retryTasks", !.pc = "answered", !.ids = ids, !.status = 400]
<1>1. /\ q \in Requests /\ q.pc = "idle" /\ Sane(q) /\ Counted(q) /\ q.made <= changes
      BY RequestType DEF RetryTasks, Accept
<1>2. /\ UNCHANGED <<tasks, idempotency, schedule, changes>> /\ ids \in Seq(Task)
      /\ req' = [req EXCEPT ![r] = IF ok THEN v ELSE w]
      BY HttpAssumption DEF RetryTasks, Become
<1>3. q.results = <<>> /\ q.retried = {} /\ q.status = 0 /\ q.made \in Nat /\ ~q.replay
      BY <1>1 DEF Sane, Counted, Requests
<1>4. /\ schedule' \in [Name -> Nat] /\ changes' \in Nat /\ changes' >= changes
      /\ q.made <= changes' /\ q.made = req[r].made
      BY <1>1, <1>2 DEF ApiInv, ApiTypeOK
<1> HIDE DEF q
<1>5. v \in Requests /\ w \in Requests
      <2>1. v \in Requests
            BY <1>1, <1>2, Members, ZenonT(30) DEF Requests
      <2> DEFINE status == 400
      <2>2. status \in Nat
            OBVIOUS
      <2> HIDE DEF status
      <2>3. [q EXCEPT !.op = "retryTasks", !.pc = "answered", !.ids = ids, !.status = status]
            \in Requests
            BY <1>1, <1>2, <2>2, Members, ZenonT(30) DEF Requests
      <2>4. QED
            BY <2>1, <2>3 DEF status
<1>6. /\ v.op = "retryTasks" /\ v.pc = "retry" /\ v.ids = ids /\ v.results = <<>>
      /\ v.made = q.made /\ v.retried = {} /\ v.status = 0 /\ ~v.replay
      BY <1>1, <1>3 DEF Requests
<1>7. /\ w.op = "retryTasks" /\ w.pc = "answered" /\ w.ids = ids /\ w.results = <<>>
      /\ w.made = q.made /\ w.retried = {} /\ w.status = 400 /\ ~w.replay
      BY <1>1, <1>3 DEF Requests
<1> HIDE DEF v, w
<1>8. CASE ok
      <2>1. Sane(v)
            BY <1>6 DEF Sane
      <2>2. Counted(v)
            BY <1>2, <1>6, <1>8, HttpAssumption DEF Counted
      <2>3. req' = [req EXCEPT ![r] = v]
            BY <1>2, <1>8
      <2>4. QED
            BY <1>2, <1>4, <1>5, <1>6, <2>1, <2>2, <2>3, OthersMove, ZenonT(30)
<1>9. CASE ~ok
      <2>1. Sane(w)
            BY <1>7 DEF Sane
      <2>2. Counted(w)
            BY <1>2, <1>7 DEF Counted
      <2>3. req' = [req EXCEPT ![r] = w]
            BY <1>2, <1>9
      <2>4. w.op # "createTask" /\ w.made = req[r].made /\ w.made <= changes'
            BY <1>4, <1>7
      <2>5. QED
            BY <1>2, <1>4, <1>5, <2>1, <2>2, <2>3, <2>4, OthersMove, ZenonT(30)
<1>10. QED
      BY <1>8, <1>9

\* What a retry can report of a task.
LEMMA RetryOutcomes ==
  ASSUME NEW t, NEW o \in RetryOutcome(t)
  PROVE  /\ BulkStatus(o[1]) \in {"ok", "not_found", "failed"} /\ o[2] \in BOOLEAN
         /\ BulkStatus(o[1]) = "ok" => o[2]
         /\ o[2] => BulkStatus(o[1]) # "not_found"
<1>1. \/ o = <<"ok", TRUE>> \/ o = <<"ErrQueueNotFound", FALSE>> \/ o = <<"unknown", TRUE>>
      \/ o = <<"unknown", FALSE>> \/ o = <<"ErrTaskNotFound", FALSE>>
      BY ZenonT(30) DEF RetryOutcome
<1>2. /\ BulkStatus("ok") = "ok" /\ BulkStatus("ErrTaskNotFound") = "not_found"
      /\ BulkStatus("ErrQueueNotFound") = "failed" /\ BulkStatus("unknown") = "failed"
      BY DEF BulkStatus
<1>3. CASE o = <<"ok", TRUE>>
      BY <1>2, <1>3
<1>4. CASE o = <<"ErrQueueNotFound", FALSE>>
      BY <1>2, <1>4
<1>5. CASE o = <<"unknown", TRUE>>
      BY <1>2, <1>5
<1>6. CASE o = <<"unknown", FALSE>>
      BY <1>2, <1>6
<1>7. CASE o = <<"ErrTaskNotFound", FALSE>>
      BY <1>2, <1>7
<1>8. QED
      BY <1>1, <1>3, <1>4, <1>5, <1>6, <1>7, ZenonT(30)

\* One more result.
LEMMA CountOne ==
  ASSUME NEW q \in Requests, NEW v \in Requests, Counted(q), q.op = "retryTasks", q.pc = "retry",
         NEW b \in {"ok", "not_found", "failed"}, NEW enqueued \in BOOLEAN,
         b = "ok" => enqueued, enqueued => b # "not_found",
         v.op = q.op, v.ids = q.ids, v.results = Append(q.results, b),
         v.retried = IF enqueued THEN q.retried \cup {q.ids[Len(q.results) + 1]} ELSE q.retried,
         v.pc \in {"retry", "answered"}, v.pc = "retry" => Len(q.results) + 1 # Len(q.ids),
         v.pc = "answered" => Len(q.results) + 1 = Len(q.ids) /\ v.status = 200
  PROVE  Counted(v)
<1> DEFINE n == Len(q.results)
<1>1. q.results \in Results /\ q.ids \in Seq(Task) /\ n \in Nat /\ Len(q.ids) \in Nat
      BY DEF Requests, Results
<1>2. Len(v.results) = n + 1 /\ \A i \in 1..n : v.results[i] = q.results[i]
      BY <1>1 DEF Results
<1>3. v.results[n + 1] = b
      BY <1>1 DEF Results
<1>4. n < Len(q.ids)
      BY DEF Counted
<1>5. \A i \in 1..Len(v.results) : v.results[i] = "ok" => v.ids[i] \in v.retried
      <2> SUFFICES ASSUME NEW i \in 1..(n + 1), v.results[i] = "ok" PROVE v.ids[i] \in v.retried
          BY <1>2
      <2>1. CASE i = n + 1
            BY <1>3, <2>1
      <2>2. CASE i \in 1..n
            BY <1>2, <2>2 DEF Counted
      <2>3. QED
            BY <1>1, <2>1, <2>2
<1>6. \A t \in v.retried :
        \E j \in 1..Len(v.results) : v.ids[j] = t /\ v.results[j] # "not_found"
      <2> SUFFICES ASSUME NEW t \in v.retried
                   PROVE  \E j \in 1..(n + 1) : v.ids[j] = t /\ v.results[j] # "not_found"
          BY <1>2
      <2>1. CASE t \in q.retried
            <3>1. PICK j \in 1..n : q.ids[j] = t /\ q.results[j] # "not_found"
                  BY <2>1 DEF Counted
            <3>2. j \in 1..(n + 1)
                  BY <1>1
            <3>3. QED
                  BY <1>2, <3>1, <3>2
      <2>2. CASE t \notin q.retried
            <3>1. enqueued /\ t = q.ids[n + 1]
                  BY <2>2
            <3>2. n + 1 \in 1..(n + 1)
                  BY <1>1
            <3>3. QED
                  BY <1>3, <3>1, <3>2
      <2>3. QED
            BY <2>1, <2>2
<1>7. /\ v.pc = "retry" => Len(v.results) < Len(v.ids)
      /\ v.pc = "answered" /\ v.status = 200 => Len(v.results) = Len(v.ids)
      /\ Len(v.results) <= Len(v.ids)
      BY <1>1, <1>2, <1>4
<1>8. QED
      BY <1>5, <1>6, <1>7 DEF Counted

\* A turn of the loop of RetryTasks.
LEMMA RetryNextStep ==
  ASSUME ApiInv, NEW r \in Request, RetryNext(r)
  PROVE  ApiInv'
<1> DEFINE q == req[r]
           t == q.ids[Len(q.results) + 1]
           all == Len(q.results) + 1 = Len(q.ids)
<1>1. /\ q \in Requests /\ q.op = "retryTasks" /\ q.pc = "retry" /\ Sane(q) /\ Counted(q)
      /\ q.made <= changes
      BY RequestType DEF RetryNext, At
<1>2. PICK o \in RetryOutcome(t) :
        req' = [req EXCEPT ![r] =
                  [q EXCEPT !.results = Append(@, BulkStatus(o[1])),
                            !.retried = IF o[2] THEN @ \cup {t} ELSE @,
                            !.pc = IF all THEN "answered" ELSE @,
                            !.status = IF all THEN 200 ELSE @]]
      BY ZenonT(30) DEF RetryNext, Become
<1> DEFINE b == BulkStatus(o[1])
           e == o[2]
           results == Append(q.results, b)
           retried == IF e THEN q.retried \cup {t} ELSE q.retried
           pc == IF all THEN "answered" ELSE q.pc
           status == IF all THEN 200 ELSE q.status
           v == [q EXCEPT !.results = results, !.retried = retried, !.pc = pc, !.status = status]
<1>3. req' = [req EXCEPT ![r] = v] /\ UNCHANGED <<tasks, idempotency, schedule, changes>>
      BY <1>2 DEF RetryNext
<1>4. /\ b \in {"ok", "not_found", "failed"} /\ e \in BOOLEAN
      /\ b = "ok" => e
      /\ e => b # "not_found"
      BY RetryOutcomes
<1>5. /\ q.ids \in Seq(Task) /\ q.results \in Results /\ q.retried \subseteq Task
      /\ q.status \in Nat /\ q.made \in Nat
      BY <1>1 DEF Requests
<1>6. t \in Task
      BY <1>1, <1>5, SMTT(30) DEF Counted, Results
<1>7. results \in Results /\ retried \in SUBSET Task /\ pc \in PCs /\ status \in Nat
      BY <1>1, <1>4, <1>5, <1>6, Members DEF Results
<1>8. /\ pc \in {"retry", "answered"} /\ (pc = "retry" => Len(q.results) + 1 # Len(q.ids))
      /\ pc = "answered" => Len(q.results) + 1 = Len(q.ids) /\ status = 200
      /\ pc # "answered" => status = q.status
      BY <1>1
<1>9. /\ schedule' \in [Name -> Nat] /\ changes' \in Nat /\ changes' >= changes
      /\ q.made <= changes' /\ q.made = req[r].made
      BY <1>1, <1>3 DEF ApiInv, ApiTypeOK
<1>10. results = Append(q.results, b)
       /\ retried = IF e THEN q.retried \cup {q.ids[Len(q.results) + 1]} ELSE q.retried
      OBVIOUS
<1> HIDE DEF q, b, e, results, retried, pc, status
<1>11. v \in Requests
      BY <1>1, <1>7, ZenonT(30) DEF Requests
<1>12. /\ v.op = "retryTasks" /\ v.pc = pc /\ v.ids = q.ids /\ v.results = results
       /\ v.made = q.made /\ v.retried = retried /\ v.status = status /\ (v.replay <=> q.replay)
      BY <1>1 DEF Requests
<1> HIDE DEF v
<1>13. Counted(v)
      <2>1. /\ v.op = q.op /\ v.ids = q.ids /\ v.results = Append(q.results, b)
            /\ v.retried = IF e THEN q.retried \cup {q.ids[Len(q.results) + 1]} ELSE q.retried
            BY <1>1, <1>10, <1>12
      <2>2. /\ v.pc \in {"retry", "answered"} /\ (v.pc = "retry" => Len(q.results) + 1 # Len(q.ids))
            /\ v.pc = "answered" => Len(q.results) + 1 = Len(q.ids) /\ v.status = 200
            BY <1>8, <1>12
      <2>3. q \in Requests /\ q.op = "retryTasks" /\ q.pc = "retry" /\ Counted(q)
            BY <1>1
      <2>4. QED
            BY <1>4, <1>11, <2>1, <2>2, <2>3, CountOne, ZenonT(30)
<1>14. Sane(v)
      BY <1>1, <1>8, <1>12 DEF Sane
<1>15. QED
      BY <1>3, <1>9, <1>11, <1>12, <1>13, <1>14, OthersMove, ZenonT(30)

\* The steps of POST /v1/tasks after the first.
LEMMA CreateTaskSteps ==
  ASSUME ApiInv, NEW r \in Request,
         LoadRemembered(r) \/ LoadRememberedFails(r) \/ BadBody(r) \/ EnqueueFails(r)
  PROVE  ApiInv'
<1> DEFINE q == req[r]
<1>1. q \in Requests /\ Sane(q) /\ Known(q, tasks) /\ tasks \in TaskStates
      BY RequestType DEF ApiInv, ApiTypeOK
<1>2. CASE LoadRemembered(r)
      <2>1. At(r, "createTask", "load") /\ UNCHANGED <<tasks, idempotency, schedule, changes>>
            BY <1>2 DEF LoadRemembered
      <2>2. CASE tasks[q.task] = "stored"
            <3>1. req' = [req EXCEPT ![r] = [req[r] EXCEPT !.pc = "answered", !.status = 200]]
                  BY <1>2, <2>2 DEF LoadRemembered, Answer, Become
            <3>2. QED
                  BY <2>1, <3>1, ReplayStep, ZenonT(30)
      <2>3. CASE tasks[q.task] # "stored"
            <3>1. ~q.replay
                  BY <1>1, <2>1, <2>3 DEF At, Known, Sane
            <3>2. req' = [req EXCEPT ![r] = [q EXCEPT !.pc = "enqueue", !.task = NoTask]]
                  BY <1>2, <2>3 DEF LoadRemembered, Become
            <3>3. [q EXCEPT !.pc = "enqueue", !.task = NoTask]
                  = [q EXCEPT !.pc = "enqueue", !.task = NoTask, !.replay = FALSE]
                  <4>1. q.replay = FALSE
                        BY <1>1, <3>1 DEF Requests
                  <4> HIDE DEF q
                  <4>2. QED
                        BY <1>1, <4>1, ZenonT(30) DEF Requests
            <3>4. QED
                  BY <2>1, <3>2, <3>3, ReloadFails, ZenonT(30)
      <2>4. QED
            BY <2>2, <2>3
<1>3. CASE LoadRememberedFails(r)
      BY <1>3, ReloadFails, ZenonT(30) DEF LoadRememberedFails, Become
<1>4. CASE BadBody(r)
      <2>1. req' = [req EXCEPT ![r] = Ended(req[r], 400)]
            BY <1>4, Statuses, ZenonT(30) DEF BadBody, Answer, Become, Ended
      <2>2. QED
            BY <1>1, <1>4, <2>1, CreateFails, ZenonT(30) DEF BadBody, Kept
<1>5. CASE EnqueueFails(r)
      <2>1. req' = [req EXCEPT ![r] = Ended(req[r], 500)]
            BY <1>5, Statuses, ZenonT(30) DEF EnqueueFails, Answer, Become, Ended
      <2>2. tasks' \in TaskStates /\ Kept
            BY <1>1, <1>5 DEF EnqueueFails, TaskStates, Kept
      <2>3. At(r, "createTask", "enqueue") /\ UNCHANGED <<idempotency, schedule, changes>>
            BY <1>5 DEF EnqueueFails
      <2>4. QED
            BY <2>1, <2>2, <2>3, CreateFails, ZenonT(30)
<1>6. QED
      BY <1>2, <1>3, <1>4, <1>5, SMTT(30)

\* A key is dropped or expires, a schedule is deleted.
LEMMA EntriesAge ==
  ASSUME ApiInv, UNCHANGED <<tasks, req, changes>>, schedule' \in [Name -> Nat],
         idempotency' \in Entries,
         \A k \in Key : idempotency'[k].task \in {NoTask, idempotency[k].task}
  PROVE  ApiInv'
<1>1. ApiTypeOK'
      BY SMTT(30) DEF ApiInv, ApiTypeOK
<1>2. \A r \in Request, k \in Key : Keeps(req[r], k, idempotency'[k])
      BY DEF ApiInv, Keeps
<1>3. \A k \in Key : idempotency'[k].task # NoTask => tasks'[idempotency'[k].task] # "unused"
      BY DEF ApiInv
<1>4. \A r \in Request :
        /\ Sane(req[r]) /\ Counted(req[r]) /\ Known(req[r], tasks) /\ req[r].made <= changes
        /\ \A s \in Request \ {r} : Apart(req[r], req[s])
      BY DEF ApiInv
<1>5. QED
      BY <1>1, <1>2, <1>3, <1>4, InvariantHolds, SMTT(30)

\* A request that only ends has the results it had.
LEMMA CountedStays ==
  ASSUME NEW q, NEW v, Counted(q), v.op = q.op, v.ids = q.ids, v.results = q.results,
         v.retried = q.retried, v.status = q.status,
         v.pc = q.pc \/ (v.pc = "answered" /\ q.status = 0)
  PROVE  Counted(v)
<1>1. /\ Len(v.results) <= Len(v.ids)
      /\ \A i \in 1..Len(v.results) : v.results[i] = "ok" => v.ids[i] \in v.retried
      /\ \A t \in v.retried :
           \E j \in 1..Len(v.results) : v.ids[j] = t /\ v.results[j] # "not_found"
      BY DEF Counted
<1>2. /\ v.op # "retryTasks" => v.results = <<>> /\ v.retried = {}
      /\ v.pc = "answered" /\ v.status = 400 => v.retried = {}
      /\ v.pc = "retry" => v.op = "retryTasks" /\ Len(v.results) < Len(v.ids)
      /\ v.pc = "answered" /\ v.status = 200 /\ v.op = "retryTasks" =>
           Len(v.results) = Len(v.ids)
      BY DEF Counted
<1>3. QED
      BY <1>1, <1>2 DEF Counted

\* A task goes: the requests that replay it no longer have to find it.
LEMMA DeleteTaskStep ==
  ASSUME ApiInv, NEW t \in Task, DeleteTask(t)
  PROVE  ApiInv'
<1> DEFINE V(r) == [req[r] EXCEPT !.replay = FALSE]
<1>1. /\ tasks' = [tasks EXCEPT ![t] = "gone"] /\ tasks \in TaskStates
      /\ UNCHANGED <<idempotency, schedule, changes>>
      /\ req' = [r \in Request |-> IF req[r].task = t THEN V(r) ELSE req[r]]
      BY DEF DeleteTask, ApiInv, ApiTypeOK
<1>2. tasks' \in TaskStates /\ tasks'[t] = "gone" /\ \A u \in Task : u # t => tasks'[u] = tasks[u]
      BY <1>1 DEF TaskStates
<1>3. ASSUME NEW r \in Request
      PROVE  /\ req'[r] \in Requests /\ req'[r].op = req[r].op /\ req'[r].pc = req[r].pc
             /\ req'[r].key = req[r].key /\ req'[r].task = req[r].task /\ req'[r].ids = req[r].ids
             /\ req'[r].results = req[r].results /\ req'[r].status = req[r].status
             /\ req'[r].made = req[r].made /\ req'[r].retried = req[r].retried
             /\ req'[r].replay => req[r].replay /\ req[r].task # t
      <2>1. req[r] \in Requests
            BY RequestType
      <2>2. CASE req[r].task = t
            <3> DEFINE q == req[r]
            <3>1. req'[r] = [q EXCEPT !.replay = FALSE]
                  BY <1>1, <2>2
            <3>2. q \in Requests
                  BY <2>1
            <3> HIDE DEF q
            <3>3. [q EXCEPT !.replay = FALSE] \in Requests
                  BY <3>2, ZenonT(30) DEF Requests
            <3>4. /\ req'[r].op = q.op /\ req'[r].pc = q.pc /\ req'[r].key = q.key
                  /\ req'[r].task = q.task /\ req'[r].ids = q.ids /\ req'[r].results = q.results
                  /\ req'[r].status = q.status /\ req'[r].made = q.made
                  /\ req'[r].retried = q.retried /\ ~req'[r].replay
                  BY <3>1, <3>2 DEF Requests
            <3>5. QED
                  BY <3>1, <3>3, <3>4 DEF q
      <2>3. CASE req[r].task # t
            <3>1. req'[r] = req[r]
                  BY <1>1, <2>3
            <3>2. QED
                  BY <2>1, <2>3, <3>1
      <2>4. QED
            BY <2>2, <2>3, SMTT(30)
<1>4. ApiTypeOK'
      <2>1. req' \in [Request -> Requests]
            BY <1>1, <1>3
      <2>2. QED
            BY <1>1, <1>2, <2>1 DEF ApiInv, ApiTypeOK
<1>5. ASSUME NEW r \in Request
      PROVE  /\ Sane(req'[r]) /\ Counted(req'[r]) /\ Known(req'[r], tasks')
             /\ req'[r].made <= changes'
      <2>1. Sane(req[r]) /\ Counted(req[r]) /\ Known(req[r], tasks) /\ req[r].made <= changes
            /\ req[r] \in Requests
            BY RequestType
      <2>2. Sane(req'[r]) /\ req'[r].made <= changes'
            BY <1>1, <1>3, <2>1 DEF Sane
      <2>3. Counted(req'[r])
            BY <1>3, <2>1, CountedStays
      <2>4. Known(req'[r], tasks')
            <3>1. req[r].task \in Task \cup {NoTask}
                  BY <2>1 DEF Requests, TaskIds
            <3>2. CASE req[r].task = t
                  BY <1>2, <1>3, <3>2, SMTT(30) DEF Known
            <3>3. CASE req[r].task # t
                  BY <1>2, <1>3, <2>1, <3>1, <3>3, SMTT(30) DEF Known
            <3>4. QED
                  BY <3>2, <3>3
      <2>5. QED
            BY <2>2, <2>3, <2>4, SMTT(30)
<1>6. ASSUME NEW r \in Request, NEW s \in Request \ {r} PROVE Apart(req'[r], req'[s])
      <2>1. Apart(req[r], req[s])
            BY RequestType
      <2>2. QED
            BY <1>3, <2>1, SMTT(30) DEF Apart
<1>7. ASSUME NEW r \in Request, NEW k \in Key PROVE Keeps(req'[r], k, idempotency'[k])
      <2>1. Keeps(req[r], k, idempotency[k])
            BY RequestType
      <2>2. QED
            BY <1>1, <1>3, <2>1 DEF Keeps
<1>8. \A k \in Key : idempotency'[k].task # NoTask => tasks'[idempotency'[k].task] # "unused"
      BY <1>1, <1>2, SMTT(30) DEF ApiInv, ApiTypeOK, Entries
<1>9. QED
      BY <1>4, <1>5, <1>6, <1>7, <1>8, InvariantHolds

\* The requests in progress end and every key is forgotten.
LEMMA RestartStep ==
  ASSUME ApiInv, Restart
  PROVE  ApiInv'
<1>1. /\ UNCHANGED <<tasks, schedule, changes>> /\ idempotency' = [k \in Key |-> NoEntry]
      /\ req' = [r \in Request |-> IF req[r].pc \in {"idle", "answered"} THEN req[r]
                                    ELSE [req[r] EXCEPT !.pc = "answered"]]
      BY DEF Restart
<1>2. idempotency' \in Entries /\ \A k \in Key : idempotency'[k].task = NoTask
      BY <1>1, SMTT(30) DEF Entries, NoEntry
<1>3. ASSUME NEW r \in Request
      PROVE  /\ req'[r] \in Requests /\ req'[r].op = req[r].op
             /\ req'[r].pc = (IF req[r].pc = "idle" THEN "idle" ELSE "answered")
             /\ req'[r].key = req[r].key /\ req'[r].task = req[r].task /\ req'[r].ids = req[r].ids
             /\ req'[r].results = req[r].results /\ req'[r].status = req[r].status
             /\ req'[r].made = req[r].made /\ req'[r].retried = req[r].retried
             /\ (req'[r].replay <=> req[r].replay)
      <2> DEFINE q == req[r]
      <2>1. q \in Requests
            BY RequestType
      <2>2. req'[r] = IF q.pc \in {"idle", "answered"} THEN q ELSE [q EXCEPT !.pc = "answered"]
            BY <1>1
      <2> HIDE DEF q
      <2>3. [q EXCEPT !.pc = "answered"] \in Requests
            BY <2>1, Members DEF Requests
      <2>4. CASE q.pc \in {"idle", "answered"}
            BY <2>1, <2>2, <2>4 DEF q
      <2>5. CASE q.pc \notin {"idle", "answered"}
            <3>1. /\ req'[r].op = q.op /\ req'[r].pc = "answered" /\ req'[r].key = q.key
                  /\ req'[r].task = q.task /\ req'[r].ids = q.ids /\ req'[r].results = q.results
                  /\ req'[r].status = q.status /\ req'[r].made = q.made
                  /\ req'[r].retried = q.retried /\ (req'[r].replay <=> q.replay)
                  BY <2>1, <2>2, <2>5 DEF Requests
            <3>2. QED
                  BY <2>2, <2>3, <2>5, <3>1 DEF q
      <2>6. QED
            BY <2>4, <2>5, SMTT(30)
<1>4. ApiTypeOK'
      <2>1. req' \in [Request -> Requests]
            BY <1>1, <1>3
      <2>2. QED
            BY <1>1, <1>2, <2>1 DEF ApiInv, ApiTypeOK
<1>5. ASSUME NEW r \in Request
      PROVE  /\ Sane(req'[r]) /\ Counted(req'[r]) /\ Known(req'[r], tasks')
             /\ req'[r].made <= changes'
      <2>1. Sane(req[r]) /\ Counted(req[r]) /\ Known(req[r], tasks) /\ req[r].made <= changes
            BY RequestType
      <2>2. Sane(req'[r]) /\ req'[r].made <= changes'
            BY <1>1, <1>3, <2>1, SMTT(30) DEF Sane
      <2>3. Counted(req'[r])
            <3>1. \/ req'[r].pc = req[r].pc
                  \/ req'[r].pc = "answered" /\ req[r].status = 0
                  BY <1>3, <2>1 DEF Sane
            <3>2. QED
                  BY <1>3, <2>1, <3>1, CountedStays, SMTT(30)
      <2>4. Known(req'[r], tasks')
            BY <1>1, <1>3, <2>1, SMTT(30) DEF Known
      <2>5. QED
            BY <2>2, <2>3, <2>4
<1>6. ASSUME NEW r \in Request, NEW s \in Request \ {r} PROVE Apart(req'[r], req'[s])
      <2>1. Apart(req[r], req[s]) /\ Sane(req[r])
            BY RequestType
      <2>2. QED
            BY <1>3, <2>1, SMTT(30) DEF Apart, Sane
<1>7. \A r \in Request, k \in Key : Keeps(req'[r], k, idempotency'[k])
      BY <1>2 DEF Keeps
<1>8. QED
      BY <1>2, <1>4, <1>5, <1>6, <1>7, InvariantHolds

\* A new request knows nothing.
LEMMA NewRequests ==
  /\ NewRequest \in Requests /\ Sane(NewRequest) /\ Counted(NewRequest)
  /\ NewRequest.made = 0 /\ NewRequest.task = NoTask /\ NewRequest.op = "none"
<1>1. /\ <<>> \in Results /\ <<>> \in Seq(Task) /\ 0 \in Nat /\ {} \in SUBSET Task
      BY DEF Results
<1>2. NewRequest \in Requests
      BY <1>1, Members DEF Requests, NewRequest
<1>3. /\ NewRequest.op = "none" /\ NewRequest.pc = "idle" /\ NewRequest.task = NoTask
      /\ NewRequest.ids = <<>> /\ NewRequest.results = <<>> /\ NewRequest.status = 0
      /\ NewRequest.made = 0 /\ ~NewRequest.replay /\ NewRequest.retried = {}
      BY DEF NewRequest
<1>4. Sane(NewRequest)
      BY <1>3 DEF Sane
<1>5. Counted(NewRequest)
      BY <1>3, SMTT(30) DEF Counted
<1>6. QED
      BY <1>2, <1>3, <1>4, <1>5

LEMMA ApiInitially == ApiInit => ApiInv
<1> SUFFICES ASSUME ApiInit PROVE ApiInv
    OBVIOUS
<1>1. ApiTypeOK
      BY NewRequests DEF ApiInit, ApiTypeOK, TaskStates, Entries, NoEntry
<1>2. \A r \in Request : req[r] = NewRequest
      BY ZenonT(30) DEF ApiInit
<1>3. \A r \in Request : /\ Sane(req[r]) /\ Counted(req[r])
                         /\ req[r].op = "none" /\ req[r].made = 0
      BY <1>2, NewRequests, ZenonT(30)
<1>4. \A r \in Request : /\ Known(req[r], tasks) /\ req[r].made <= changes
                         /\ \A s \in Request \ {r} : Apart(req[r], req[s])
                         /\ \A k \in Key : Keeps(req[r], k, idempotency[k])
      <2> SUFFICES ASSUME NEW r \in Request
                   PROVE  /\ Known(req[r], tasks) /\ req[r].made <= changes
                          /\ \A s \in Request \ {r} : Apart(req[r], req[s])
                          /\ \A k \in Key : Keeps(req[r], k, idempotency[k])
          BY ZenonT(30)
      <2>1. req[r].op = "none" /\ req[r].made = 0 /\ changes = 0
            BY <1>3 DEF ApiInit
      <2>2. QED
            BY <2>1 DEF Known, Apart, Keeps
<1>5. \A k \in Key : idempotency[k].task = NoTask
      BY DEF ApiInit, NoEntry
<1>6. QED
      BY <1>1, <1>3, <1>4, <1>5 DEF ApiInv

LEMMA ApiStep == ApiInv /\ [ApiNext]_apiVars => ApiInv'
<1> SUFFICES ASSUME ApiInv, [ApiNext]_apiVars PROVE ApiInv'
    OBVIOUS
<1>1. ASSUME NEW r \in Request,
             \/ \E k \in Key \cup {NoKey} : CreateTask(r, k)
             \/ LoadRemembered(r) \/ LoadRememberedFails(r) \/ BadBody(r)
             \/ Enqueue(r) \/ EnqueueFails(r) \/ Store(r)
             \/ \E t \in Task : RetryTask(r, t)
             \/ RetryLoad(r)
             \/ \E ids \in IdLists : RetryTasks(r, ids)
             \/ RetryNext(r)
             \/ \E n \in Name : CreateSchedule(r, n)
             \/ RefuseSchedule(r) \/ LoadSchedule(r)
      PROVE  ApiInv'
      BY <1>1, CreateTaskStep, CreateTaskSteps, EnqueueStep, StoreStep, RetryTaskStep, RetryLoadStep,
         RetryTasksStep, RetryNextStep, CreateScheduleStep, RefuseScheduleStep, LoadScheduleStep
<1>2. ASSUME NEW n \in Name, DeleteSchedule(n) PROVE ApiInv'
      <2>1. UNCHANGED <<tasks, req, changes, idempotency>> /\ schedule' \in [Name -> Nat]
            BY <1>2, SMTT(30) DEF DeleteSchedule, ApiInv, ApiTypeOK
      <2>2. idempotency' \in Entries
            BY <2>1 DEF ApiInv, ApiTypeOK
      <2>3. QED
            BY <2>1, <2>2, EntriesAge, SMTT(30)
<1>3. ASSUME NEW k \in Key, ExpireKey(k) PROVE ApiInv'
      <2>1. /\ UNCHANGED <<tasks, req, changes, schedule>>
            /\ idempotency' = [idempotency EXCEPT ![k].expired = TRUE]
            /\ schedule' \in [Name -> Nat] /\ idempotency \in Entries
            BY <1>3 DEF ExpireKey, ApiInv, ApiTypeOK
      <2>2. idempotency' \in Entries /\ \A j \in Key : idempotency'[j].task = idempotency[j].task
            BY <2>1, ZenonT(30) DEF Entries
      <2>3. QED
            BY <2>1, <2>2, EntriesAge
<1>4. CASE UNCHANGED apiVars
      <2>1. UNCHANGED <<tasks, req, changes, schedule, idempotency>>
            BY <1>4, SMTT(30) DEF apiVars
      <2>2. idempotency' \in Entries /\ schedule' \in [Name -> Nat]
            BY <2>1 DEF ApiInv, ApiTypeOK
      <2>3. QED
            BY <2>1, <2>2, EntriesAge
<1>5. QED
      BY <1>1, <1>2, <1>3, <1>4, DeleteTaskStep, RestartStep DEF ApiNext

LEMMA ApiInvariant == ApiSpec => []ApiInv
BY ApiInitially, ApiStep, PTL DEF ApiSpec

\* A POST /v1/tasks whose Idempotency-Key is remembered, and whose task can be
\* loaded and stays in the store, creates nothing.
THEOREM ReplaysCreateNothing == ApiSpec => []ReplayCreatesNothing
<1>1. ApiInv => ReplayCreatesNothing
      BY SMTT(30) DEF ApiInv, Sane, ReplayCreatesNothing, Answered
<1>2. QED
      BY <1>1, ApiInvariant, PTL

\* A task CreateTask answers with 201 answers no other request, except replays
\* of the same key.
THEOREM TasksAreCreatedOnce == ApiSpec => []CreatedOnce
<1>1. ApiInv => CreatedOnce
      BY DEF ApiInv, Apart, CreatedOnce, Answered
<1>2. QED
      BY <1>1, ApiInvariant, PTL

\* RetryTasks reports what happened to each task it was given.
THEOREM BulkRetriesAreAccurate == ApiSpec => []BulkAccurate
<1>1. ASSUME ApiInv PROVE BulkAccurate
      <2> SUFFICES ASSUME NEW r \in Request
                   PROVE  LET q == req[r] IN
                            /\ Answered(r, 200) /\ q.op = "retryTasks" => Len(q.results) = Len(q.ids)
                            /\ Answered(r, 400) => q.retried = {}
                            /\ \A i \in DOMAIN q.results :
                                 /\ q.results[i] = "ok" => q.ids[i] \in q.retried
                                 /\ q.ids[i] \in q.retried => \E j \in DOMAIN q.results :
                                      q.ids[j] = q.ids[i] /\ q.results[j] # "not_found"
          BY ZenonT(30) DEF BulkAccurate
      <2>1. Counted(req[r]) /\ req[r].results \in Results
            BY <1>1, RequestType DEF Requests
      <2>2. DOMAIN req[r].results = 1..Len(req[r].results)
            BY <2>1, SMTT(30) DEF Results
      <2>3. QED
            BY <2>1, <2>2, SMTT(30) DEF Counted, Answered
<1>2. QED
      BY <1>1, ApiInvariant, PTL

\* The create of a schedule's key lets one of several POST /v1/schedules win.
THEOREM OneCreatorPerSchedule == ApiSpec => []OneCreateWins
<1>1. ApiInv => OneCreateWins
      BY DEF ApiInv, Apart, OneCreateWins
<1>2. QED
      BY <1>1, ApiInvariant, PTL

----------------------------------------------------------------------------
\* A fresh task is known to be made, so it changes only when it goes.
LEMMA FreshStays ==
  ASSUME ApiInv, Kept, NEW k \in Key, NEW s \in Request, NEW q, q = req[s],
         q.op = "createTask", q.key = k, q.pc = "answered", q.status = 201, tasks'[q.task] # "gone"
  PROVE  Fresh(q, k)
<1>1. q \in Requests /\ Sane(q) /\ Known(q, tasks)
      BY RequestType
<1>2. q.task \in Task /\ tasks[q.task] # "unused"
      BY <1>1 DEF Sane, Known, Requests, TaskIds
<1>3. QED
      BY <1>2, SMTT(30) DEF Kept, Fresh

\* Request r can become v, and the entry of key k can become e.
Fits(r, v, k, e) ==
  /\ ~e.expired
  /\ \/ e.task = idempotency[k].task
     \/ \A s \in Request \ {r} : ~Working(req[s], k) /\ ~Fresh(req[s], k)
  /\ Working(v, k) => \A s \in Request \ {r} : ~Working(req[s], k)
  /\ Working(v, k) /\ v.pc = "load" => v.task = e.task
  /\ Making(v, k) => \A s \in Request \ {r} : ~Fresh(req[s], k)
  /\ v.op = "createTask" /\ v.key = k /\ v.pc = "answered" /\ v.status = 201 =>
       v.task = e.task /\ \A s \in Request \ {r} : ~Making(req[s], k)

\* A request that moves on keeps its turn if it fits in with the others.
LEMMA TurnMoves ==
  ASSUME ApiInv, InTurn, NEW r \in Request, NEW v, req' = [req EXCEPT ![r] = v],
         restarts' = restarts, Kept,
         \A k \in Key : Fits(r, v, k, idempotency'[k])
  PROVE  InTurn'
<1>1. req'[r] = v /\ \A s \in Request \ {r} : req'[s] = req[s]
      BY DEF ApiInv, ApiTypeOK
<1>0. \A k \in Key :
        /\ ~idempotency'[k].expired
        /\ \/ idempotency'[k].task = idempotency[k].task
           \/ \A s \in Request \ {r} : ~Working(req[s], k) /\ ~Fresh(req[s], k)
        /\ Working(v, k) => \A s \in Request \ {r} : ~Working(req[s], k)
        /\ Working(v, k) /\ v.pc = "load" => v.task = idempotency'[k].task
        /\ Making(v, k) => \A s \in Request \ {r} : ~Fresh(req[s], k)
        /\ v.op = "createTask" /\ v.key = k /\ v.pc = "answered" /\ v.status = 201 =>
             v.task = idempotency'[k].task /\ \A s \in Request \ {r} : ~Making(req[s], k)
      BY ZenonT(30) DEF Fits
<1>2. ASSUME NEW k \in Key
      PROVE  \A s \in Request \ {r} : Fresh(req[s], k)' => Fresh(req[s], k)
      <2>1. SUFFICES ASSUME NEW s \in Request \ {r}, Fresh(req[s], k)' PROVE Fresh(req[s], k)
            BY SMTT(30)
      <2>2. QED
            BY <1>1, <2>1, FreshStays DEF Fresh
<1>3. ASSUME NEW k \in Key, NEW x \in Request
      PROVE  /\ Working(req'[x], k) => \A s \in Request \ {x} : ~Working(req'[s], k)
             /\ Working(req'[x], k) /\ req'[x].pc = "load" => req'[x].task = idempotency'[k].task
             /\ Making(req'[x], k) => \A s \in Request : ~Fresh(req[s], k)'
             /\ Fresh(req[x], k)' => req'[x].task = idempotency'[k].task
      <2>1. CASE x = r
            <3>1. Making(v, k) => ~Fresh(req[r], k)'
                  BY <1>1 DEF Making, Working, Fresh
            <3>2. Working(v, k) => \A s \in Request \ {r} : ~Working(req'[s], k)
                  BY <1>0, <1>1, ZenonT(30)
            <3>3. Making(v, k) => \A s \in Request : ~Fresh(req[s], k)'
                  BY <1>0, <1>2, <3>1, ZenonT(30)
            <3>4. Fresh(req[r], k)' => v.task = idempotency'[k].task
                  BY <1>0, <1>1 DEF Fresh
            <3>5. QED
                  BY <1>0, <1>1, <2>1, <3>2, <3>3, <3>4, ZenonT(30)
      <2>2. CASE x # r
            <3>1. /\ Working(req[x], k) => \A s \in Request \ {x} : ~Working(req[s], k)
                  /\ Working(req[x], k) /\ req[x].pc = "load" => req[x].task = idempotency[k].task
                  /\ Making(req[x], k) => \A s \in Request : ~Fresh(req[s], k)
                  /\ Fresh(req[x], k) => req[x].task = idempotency[k].task
                  BY SMTT(30) DEF InTurn
            <3>2. Making(req[x], k) => Working(req[x], k) /\ ~Fresh(req[r], k)'
                  BY <1>0, <1>1, <2>2, SMTT(30) DEF Making, Fresh
            <3>3. QED
                  BY <1>0, <1>1, <1>2, <2>2, <3>1, <3>2, ZenonT(30)
      <2>3. QED
            BY <2>1, <2>2, SMTT(30)
<1>4. \A k \in Key, x \in Request :
        /\ (Working(req[x], k) => \A s \in Request \ {x} : ~Working(req[s], k))'
        /\ (Working(req[x], k) /\ req[x].pc = "load" => req[x].task = idempotency[k].task)'
        /\ (Making(req[x], k) => \A s \in Request : ~Fresh(req[s], k))'
      BY <1>3 DEF Working, Making
<1>5. QED
      BY <1>0, <1>3, <1>4, ZenonT(30) DEF InTurn

\* A request that creates no task takes nobody's turn.
LEMMA TurnOther ==
  ASSUME ApiInv, InTurn, NEW r \in Request, NEW v, req' = [req EXCEPT ![r] = v],
         UNCHANGED <<tasks, idempotency, restarts>>,
         v.op # "createTask" \/ v.key \notin Key
         \/ (v.op = "createTask" /\ v.pc = "answered" /\ v.status # 201)
  PROVE  InTurn'
<1>1. Kept
      BY DEF Kept
<1>2. \A k \in Key : ~idempotency'[k].expired /\ idempotency'[k].task = idempotency[k].task
      BY DEF InTurn
<1>3. \A k \in Key :
        /\ ~Working(v, k) /\ ~Making(v, k)
        /\ ~(v.op = "createTask" /\ v.key = k /\ v.pc = "answered" /\ v.status = 201)
      BY DEF Working, Making
<1>4. \A k \in Key : Fits(r, v, k, idempotency'[k])
      BY <1>2, <1>3, ZenonT(30) DEF Fits
<1>5. QED
      BY <1>1, <1>4, TurnMoves, ZenonT(30)

\* CreateTask finds no other request with its key at work.
LEMMA TurnCreate ==
  ASSUME ApiInv, InTurn, Orderly, NEW r \in Request, NEW k \in Key \cup {NoKey}, CreateTask(r, k)
  PROVE  InTurn'
<1> DEFINE q == req[r]
<1>1. q \in Requests /\ q.pc = "idle" /\ Sane(q)
      BY RequestType DEF CreateTask, Accept
<1>2. UNCHANGED <<tasks, restarts>> /\ Kept /\ idempotency \in Entries
      BY DEF CreateTask, Kept, ApiInv, ApiTypeOK
<1>3. ASSUME NEW j \in Key, j = k PROVE \A s \in Request \ {r} : ~Working(req[s], j)
      BY <1>3 DEF Orderly
<1>4. CASE k # NoKey /\ Remembered(k)
      <2> DEFINE t == idempotency[k].task
                 b == tasks[t] = "stored"
                 v == [q EXCEPT !.op = "createTask", !.pc = "load", !.key = k, !.task = t,
                                !.replay = b]
      <2>1. req' = [req EXCEPT ![r] = v] /\ idempotency' = idempotency
            BY <1>4, Zenon DEF CreateTask, Become
      <2> HIDE DEF q, t, b
      <2>2. v.op = "createTask" /\ v.pc = "load" /\ v.key = k /\ v.task = t
            BY <1>1, SMTT(30) DEF Requests
      <2> HIDE DEF v
      <2>3. ASSUME NEW j \in Key
            PROVE  /\ ~idempotency'[j].expired
                   /\ \/ idempotency'[j].task = idempotency[j].task
                      \/ \A s \in Request \ {r} : ~Working(req[s], j) /\ ~Fresh(req[s], j)
                   /\ Working(v, j) => \A s \in Request \ {r} : ~Working(req[s], j)
                   /\ Working(v, j) /\ v.pc = "load" => v.task = idempotency'[j].task
                   /\ ~Making(v, j) /\ v.pc # "answered"
            BY <1>3, <2>1, <2>2 DEF InTurn, Working, Making, t
      <2>4. \A j \in Key : Fits(r, v, j, idempotency'[j])
            BY <2>3, Zenon DEF Fits
      <2>5. QED
            BY <1>2, <2>1, <2>4, TurnMoves, Zenon
<1>5. CASE ~(k # NoKey /\ Remembered(k))
      <2> DEFINE v == [q EXCEPT !.op = "createTask", !.pc = "enqueue", !.key = k]
      <2>1. /\ req' = [req EXCEPT ![r] = v]
            /\ idempotency' = IF k = NoKey THEN idempotency ELSE [idempotency EXCEPT ![k] = NoEntry]
            BY <1>5, Zenon DEF CreateTask, Become
      <2> HIDE DEF q
      <2>2. v.op = "createTask" /\ v.pc = "enqueue" /\ v.key = k
            BY <1>1, SMTT(30) DEF Requests
      <2> HIDE DEF v
      <2>3. ASSUME NEW j \in Key
            PROVE  /\ ~idempotency'[j].expired
                   /\ idempotency'[j].task = idempotency[j].task
                   /\ j = k => idempotency[j].task = NoTask
            <3>1. ~idempotency[j].expired
                  BY DEF InTurn
            <3>2. CASE j = k
                  <4>1. k # NoKey /\ idempotency[k].task = NoTask
                        BY <1>5, <3>1, <3>2, HttpAssumption DEF Remembered
                  <4>2. idempotency'[k] = NoEntry
                        BY <1>2, <2>1, <3>2, <4>1 DEF Entries
                  <4>3. QED
                        BY <3>2, <4>1, <4>2 DEF NoEntry
            <3>3. CASE j # k
                  <4>1. idempotency'[j] = idempotency[j]
                        BY <1>2, <2>1, <3>3, SMTT(30) DEF Entries
                  <4>2. QED
                        BY <3>1, <3>3, <4>1
            <3>4. QED
                  BY <3>2, <3>3, SMTT(30)
      <2>4. ASSUME NEW j \in Key, j = k, NEW s \in Request PROVE ~Fresh(req[s], j)
            <3>1. Sane(req[s]) /\ (Fresh(req[s], j) => req[s].task = idempotency[j].task)
                  BY RequestType, SMTT(30) DEF InTurn
            <3>2. QED
                  BY <2>3, <2>4, <3>1, SMTT(30) DEF Fresh, Sane
      <2>5. ASSUME NEW j \in Key
            PROVE  /\ ~idempotency'[j].expired
                   /\ \/ idempotency'[j].task = idempotency[j].task
                      \/ \A s \in Request \ {r} : ~Working(req[s], j) /\ ~Fresh(req[s], j)
                   /\ Working(v, j) => \A s \in Request \ {r} : ~Working(req[s], j)
                   /\ Making(v, j) => \A s \in Request \ {r} : ~Fresh(req[s], j)
                   /\ v.pc # "load" /\ v.pc # "answered"
            BY <1>3, <2>2, <2>3, <2>4 DEF Working, Making
      <2>6. \A j \in Key : Fits(r, v, j, idempotency'[j])
            BY <2>5, ZenonT(30) DEF Fits
      <2>7. QED
            BY <1>2, <2>1, <2>6, TurnMoves, Zenon
<1>6. QED
      BY <1>4, <1>5

\* A request whose task is gone makes another, in its own turn.
LEMMA TurnReload ==
  ASSUME ApiInv, InTurn, NEW r \in Request, NEW v, At(r, "createTask", "load"),
         tasks[req[r].task] # "stored", req' = [req EXCEPT ![r] = v],
         v.op = "createTask", v.pc = "enqueue", v.key = req[r].key,
         UNCHANGED <<tasks, idempotency, restarts>>
  PROVE  InTurn'
<1> DEFINE q == req[r]
<1>1. q \in Requests /\ q.op = "createTask" /\ q.pc = "load" /\ Sane(q) /\ Known(q, tasks) /\ Kept
      BY RequestType, SMTT(30) DEF At, Kept
<1>2. ASSUME NEW j \in Key, Working(v, j)
      PROVE  /\ \A s \in Request \ {r} : ~Working(req[s], j)
             /\ \A s \in Request : ~Fresh(req[s], j)
      <2>1. Working(q, j)
            BY <1>1, <1>2, SMTT(30) DEF Working
      <2>2. q.task = idempotency[j].task /\ \A s \in Request \ {r} : ~Working(req[s], j)
            BY <1>1, <2>1 DEF InTurn
      <2>3. ASSUME NEW s \in Request, Fresh(req[s], j) PROVE FALSE
            <3>1. req[s].task = q.task
                  BY <2>2, <2>3, SMTT(30) DEF InTurn
            <3>2. Sane(req[s]) /\ Known(req[s], tasks) /\ req[s] \in Requests
                  BY RequestType, SMTT(30)
            <3>3. req[s].task \in Task /\ tasks[req[s].task] \notin {"unused", "gone"}
                  BY <2>3, <3>2, SMTT(30) DEF Fresh, Sane, Known, Requests, TaskIds
            <3>4. tasks \in TaskStates
                  BY ZenonT(30) DEF ApiInv, ApiTypeOK
            <3>5. QED
                  BY <3>1, <3>3, <3>4, SMTT(30) DEF TaskStates
      <2>4. QED
            BY <2>2, <2>3, SMTT(30)
<1>3. ASSUME NEW j \in Key
      PROVE  /\ ~idempotency'[j].expired
             /\ idempotency'[j].task = idempotency[j].task
             /\ Working(v, j) => \A s \in Request \ {r} : ~Working(req[s], j)
             /\ Making(v, j) => \A s \in Request \ {r} : ~Fresh(req[s], j)
             /\ v.pc # "load" /\ v.pc # "answered"
      BY <1>2 DEF InTurn, Making
<1>4. \A j \in Key : Fits(r, v, j, idempotency'[j])
      BY <1>3, Zenon DEF Fits
<1>5. QED
      BY <1>1, <1>4, TurnMoves, Zenon

\* NewTask gives out an ID in the turn of its request.
LEMMA TurnEnqueue ==
  ASSUME ApiInv, InTurn, NEW r \in Request, Enqueue(r)
  PROVE  InTurn'
<1> DEFINE q == req[r]
<1>1. PICK t \in Task :
        /\ tasks[t] = "unused" /\ tasks' = [tasks EXCEPT ![t] = "stored"]
        /\ req' = [req EXCEPT ![r] = [q EXCEPT !.pc = "store", !.task = t]]
        /\ UNCHANGED <<idempotency, restarts>>
      BY ZenonT(30) DEF Enqueue, Become
<1>2. q \in Requests /\ q.op = "createTask" /\ q.pc = "enqueue" /\ tasks \in TaskStates
      BY RequestType DEF Enqueue, At, ApiInv, ApiTypeOK
<1>3. Kept
      BY <1>1, <1>2 DEF Kept, TaskStates
<1> DEFINE v == [q EXCEPT !.pc = "store", !.task = t]
<1>4. req' = [req EXCEPT ![r] = v]
      BY <1>1, SMTT(30)
<1>5. ASSUME NEW j \in Key, q.key = j
      PROVE  /\ \A s \in Request \ {r} : ~Working(req[s], j)
             /\ \A s \in Request : ~Fresh(req[s], j)
      <2>1. Working(q, j) /\ Making(q, j)
            BY <1>2, <1>5 DEF Working, Making
      <2>2. QED
            BY <2>1 DEF InTurn
<1> HIDE DEF q
<1>6. v.op = "createTask" /\ v.pc = "store" /\ v.key = q.key
      BY <1>2 DEF Requests
<1> HIDE DEF v
<1>7. ASSUME NEW j \in Key
      PROVE  /\ ~idempotency'[j].expired
             /\ idempotency'[j].task = idempotency[j].task
             /\ Working(v, j) => \A s \in Request \ {r} : ~Working(req[s], j)
             /\ Making(v, j) => \A s \in Request \ {r} : ~Fresh(req[s], j)
             /\ v.pc # "load" /\ v.pc # "answered"
      BY <1>1, <1>5, <1>6 DEF InTurn, Making, Working
<1>8. \A j \in Key : Fits(r, v, j, idempotency'[j])
      BY <1>7, Zenon DEF Fits
<1>9. QED
      BY <1>1, <1>3, <1>4, <1>8, TurnMoves, Zenon

\* A request that fails leaves its turn, a task it leaves is nobody's.
LEMMA TurnFails ==
  ASSUME ApiInv, InTurn, NEW r \in Request, NEW v, req' = [req EXCEPT ![r] = v],
         v.pc = "answered", v.status # 201, Kept, UNCHANGED <<idempotency, restarts>>
  PROVE  InTurn'
<1>1. ASSUME NEW j \in Key
      PROVE  /\ ~idempotency'[j].expired
             /\ idempotency'[j].task = idempotency[j].task
             /\ ~Working(v, j) /\ ~Making(v, j)
      BY DEF InTurn, Making, Working
<1>2. \A j \in Key : Fits(r, v, j, idempotency'[j])
      BY <1>1, ZenonT(30) DEF Fits
<1>3. QED
      BY <1>2, TurnMoves, ZenonT(30)

\* The key remembers the task its request made, in the turn of this request.
LEMMA TurnStore ==
  ASSUME ApiInv, InTurn, NEW r \in Request, Store(r)
  PROVE  InTurn'
<1> DEFINE q == req[r]
           v == Ended(q, 201)
<1>1. q \in Requests /\ q.op = "createTask" /\ q.pc = "store" /\ idempotency \in Entries
      BY RequestType, ZenonT(30) DEF Store, At, ApiInv, ApiTypeOK
<1>2. /\ req' = [req EXCEPT ![r] = v] /\ UNCHANGED <<tasks, restarts>>
      /\ idempotency' = IF q.key = NoKey THEN idempotency
                        ELSE [k \in Key |->
                                IF k = q.key THEN [task |-> q.task, expired |-> FALSE]
                                ELSE IF idempotency[k].expired THEN NoEntry ELSE idempotency[k]]
      BY DEF Store, Answer, Become, Ended
<1>3. Kept
      BY <1>2, SMTT(30) DEF Kept
<1>4. ASSUME NEW j \in Key, q.key = j
      PROVE  /\ \A s \in Request \ {r} : ~Working(req[s], j)
             /\ \A s \in Request : ~Fresh(req[s], j)
      <2>1. Working(q, j) /\ Making(q, j)
            BY <1>1, <1>4, SMTT(30) DEF Working, Making
      <2>2. QED
            BY <2>1 DEF InTurn
<1>5. ASSUME NEW j \in Key
      PROVE  /\ ~idempotency'[j].expired
             /\ j # q.key => idempotency'[j].task = idempotency[j].task
             /\ j = q.key => idempotency'[j].task = q.task
      BY <1>2, HttpAssumption, SMTT(30) DEF InTurn
<1>6. v.op = "createTask" /\ v.pc = "answered" /\ v.key = q.key /\ v.task = q.task
      BY <1>1, EndedType, SMTT(30)
<1> HIDE DEF q, v
<1>7. ASSUME NEW j \in Key
      PROVE  /\ ~idempotency'[j].expired
             /\ \/ idempotency'[j].task = idempotency[j].task
                \/ \A s \in Request \ {r} : ~Working(req[s], j) /\ ~Fresh(req[s], j)
             /\ ~Working(v, j) /\ ~Making(v, j)
             /\ v.key = j => v.task = idempotency'[j].task /\ \A s \in Request \ {r} : ~Making(req[s], j)
      BY <1>4, <1>5, <1>6 DEF Making, Working
<1>8. \A j \in Key : Fits(r, v, j, idempotency'[j])
      BY <1>6, <1>7, ZenonT(30) DEF Fits
<1>9. QED
      BY <1>2, <1>3, <1>8, TurnMoves, Zenon

\* The steps of POST /v1/tasks.
LEMMA TurnTask ==
  ASSUME ApiInv, InTurn, Orderly, NEW r \in Request,
         \/ \E k \in Key \cup {NoKey} : CreateTask(r, k)
         \/ LoadRemembered(r) \/ LoadRememberedFails(r) \/ BadBody(r)
         \/ Enqueue(r) \/ EnqueueFails(r) \/ Store(r)
  PROVE  InTurn'
<1> DEFINE q == req[r]
<1>1. q \in Requests /\ tasks \in TaskStates
      BY RequestType, ZenonT(30) DEF ApiInv, ApiTypeOK
<1>2. CASE LoadRemembered(r) /\ tasks[q.task] = "stored"
      <2>1. /\ req' = [req EXCEPT ![r] = Ended(q, 200)]
            /\ UNCHANGED <<tasks, idempotency, restarts>>
            BY <1>2 DEF LoadRemembered, Answer, Become, Ended
      <2>2. Ended(q, 200).pc = "answered" /\ Ended(q, 200).status # 201
            <3>1. Ended(q, 200).pc = "answered" /\ Ended(q, 200).status = 200
                  BY <1>1, EndedStatus
            <3>2. QED
                  BY <3>1
      <2>3. QED
            BY <2>1, <2>2, TurnFails, ZenonT(30) DEF Kept
<1>3. CASE LoadRemembered(r) /\ tasks[q.task] # "stored"
      <2> DEFINE v == [q EXCEPT !.pc = "enqueue", !.task = NoTask]
      <2>1. /\ req' = [req EXCEPT ![r] = v] /\ At(r, "createTask", "load") /\ q.op = "createTask"
            /\ UNCHANGED <<tasks, idempotency, restarts>>
            BY <1>3 DEF LoadRemembered, Become, At
      <2>2. v.op = "createTask" /\ v.pc = "enqueue" /\ v.key = q.key
            <3> HIDE DEF q
            <3>1. QED
                  BY <1>1, <2>1, SMTT(30) DEF Requests
      <2> HIDE DEF v
      <2>3. QED
            BY <1>3, <2>1, <2>2, TurnReload, ZenonT(30)
<1>4. CASE LoadRememberedFails(r)
      <2> DEFINE v == [q EXCEPT !.pc = "enqueue", !.task = NoTask, !.replay = FALSE]
      <2>1. /\ req' = [req EXCEPT ![r] = v] /\ At(r, "createTask", "load") /\ q.op = "createTask"
            /\ UNCHANGED <<tasks, idempotency, restarts>> /\ tasks[q.task] # "stored"
            BY <1>4, ZenonT(30) DEF LoadRememberedFails, Become, At, Orderly
      <2>2. v.op = "createTask" /\ v.pc = "enqueue" /\ v.key = q.key
            <3> HIDE DEF q
            <3>1. QED
                  BY <1>1, <2>1 DEF Requests
      <2> HIDE DEF v
      <2>3. QED
            BY <2>1, <2>2, TurnReload, ZenonT(30)
<1>5. CASE BadBody(r)
      <2>1. /\ req' = [req EXCEPT ![r] = Ended(q, 400)]
            /\ UNCHANGED <<tasks, idempotency, restarts>>
            BY <1>5, Statuses, ZenonT(30) DEF BadBody, Answer, Become, Ended
      <2>2. Ended(q, 400).pc = "answered" /\ Ended(q, 400).status # 201
            BY <1>1, EndedType
      <2>3. QED
            BY <2>1, <2>2, TurnFails, ZenonT(30) DEF Kept
<1>6. CASE EnqueueFails(r)
      <2>1. /\ req' = [req EXCEPT ![r] = Ended(q, 500)]
            /\ UNCHANGED <<idempotency, restarts>>
            BY <1>6, Statuses, ZenonT(30) DEF EnqueueFails, Answer, Become, Ended
      <2>2. Ended(q, 500).pc = "answered" /\ Ended(q, 500).status # 201
            BY <1>1, EndedType
      <2>3. Kept
            BY <1>1, <1>6 DEF EnqueueFails, TaskStates, Kept
      <2>4. QED
            BY <2>1, <2>2, <2>3, TurnFails, ZenonT(30)
<1>7. QED
      BY <1>2, <1>3, <1>4, <1>5, <1>6, TurnCreate, TurnEnqueue, TurnStore, SMTT(30)

\* The steps of the other requests.
LEMMA TurnOthers ==
  ASSUME ApiInv, InTurn, NEW r \in Request,
         \/ \E t \in Task : RetryTask(r, t)
         \/ RetryLoad(r)
         \/ \E ids \in IdLists : RetryTasks(r, ids)
         \/ RetryNext(r)
         \/ \E n \in Name : CreateSchedule(r, n)
         \/ RefuseSchedule(r) \/ LoadSchedule(r)
  PROVE  InTurn'
<1> DEFINE q == req[r]
<1>0. q \in Requests
      BY RequestType, ZenonT(30)
<1>1. UNCHANGED <<tasks, idempotency, restarts>>
      BY ZenonT(30) DEF RetryTask, RetryLoad, RetryTasks, RetryNext, CreateSchedule, RefuseSchedule, LoadSchedule
<1>2. PICK v : req' = [req EXCEPT ![r] = v] /\ v.op # "createTask"
      <2>1. CASE \E t \in Task : RetryTask(r, t)
            <3>1. PICK t, o :
                    req' = [req EXCEPT ![r] =
                      IF o[1] = "ok"
                      THEN [q EXCEPT !.op = "retryTask", !.pc = "load", !.task = t]
                      ELSE [q EXCEPT !.op = "retryTask", !.pc = "answered", !.task = t,
                                     !.status = writeLibraryError(o[1])]]
                  BY <2>1, Zenon DEF RetryTask, Become
            <3> HIDE DEF q
            <3>2. /\ [q EXCEPT !.op = "retryTask", !.pc = "load", !.task = t].op = "retryTask"
                  /\ [q EXCEPT !.op = "retryTask", !.pc = "answered", !.task = t,
                                     !.status = writeLibraryError(o[1])].op = "retryTask"
                  BY <1>0 DEF Requests
            <3>3. QED
                  BY <3>1, <3>2, Zenon
      <2>2. CASE RetryLoad(r) \/ LoadSchedule(r)
            <3>1. PICK status : req' = [req EXCEPT ![r] = Ended(q, status)] /\ q.op # "createTask"
                  BY <2>2, Zenon DEF RetryLoad, LoadSchedule, Answer, Become, At, Ended
            <3>2. Ended(q, status).op = q.op
                  BY <1>0 DEF Ended, Requests
            <3>3. QED
                  BY <3>1, <3>2, ZenonT(30)
      <2>3. CASE \E ids \in IdLists : RetryTasks(r, ids)
            <3> DEFINE refused == 400
            <3>1. PICK ids \in IdLists :
                    \/ req' = [req EXCEPT ![r] =
                         [q EXCEPT !.op = "retryTasks", !.pc = "retry", !.ids = ids]]
                    \/ req' = [req EXCEPT ![r] =
                         [q EXCEPT !.op = "retryTasks", !.pc = "answered", !.ids = ids, !.status = refused]]
                  BY <2>3, ZenonT(30) DEF RetryTasks, Become
            <3> HIDE DEF q, refused
            <3>2. /\ [q EXCEPT !.op = "retryTasks", !.pc = "retry", !.ids = ids].op = "retryTasks"
                  /\ [q EXCEPT !.op = "retryTasks", !.pc = "answered", !.ids = ids, !.status = refused].op
                     = "retryTasks"
                  BY <1>0 DEF Requests
            <3>3. QED
                  BY <3>1, <3>2, ZenonT(30)
      <2>4. CASE RetryNext(r)
            <3>0. q.op = "retryTasks"
                  BY <2>4, Zenon DEF RetryNext, At
            <3> DEFINE answered == 200
            <3>1. PICK o, t, all :
                    req' = [req EXCEPT ![r] =
                              [q EXCEPT !.results = Append(@, BulkStatus(o[1])),
                                        !.retried = IF o[2] THEN @ \cup {t} ELSE @,
                                        !.pc = IF all THEN "answered" ELSE @,
                                        !.status = IF all THEN answered ELSE @]]
                  BY <2>4, ZenonT(30) DEF RetryNext, Become
            <3> HIDE DEF q, answered
            <3>2. [q EXCEPT !.results = Append(@, BulkStatus(o[1])),
                            !.retried = IF o[2] THEN @ \cup {t} ELSE @,
                            !.pc = IF all THEN "answered" ELSE @,
                            !.status = IF all THEN answered ELSE @].op = q.op
                  BY <1>0, Zenon DEF Requests
            <3>3. QED
                  BY <3>0, <3>1, <3>2, Zenon
      <2>5. CASE RefuseSchedule(r)
            <3>1. PICK status :
                    req' = [req EXCEPT ![r] = [q EXCEPT !.op = "createSchedule", !.pc = "answered",
                                                        !.status = status]]
                  BY <2>5, Zenon DEF RefuseSchedule, Become
            <3> HIDE DEF q
            <3>2. [q EXCEPT !.op = "createSchedule", !.pc = "answered", !.status = status].op
                  = "createSchedule"
                  BY <1>0 DEF Requests
            <3>3. QED
                  BY <3>1, <3>2, ZenonT(30)
      <2>6. CASE \E n \in Name : CreateSchedule(r, n)
            <3>1. PICK n, status, made :
                    LET p == [q EXCEPT !.op = "createSchedule", !.name = n]
                    IN \/ req' = [req EXCEPT ![r] = [p EXCEPT !.pc = "load", !.made = made]]
                       \/ req' = [req EXCEPT ![r] = [p EXCEPT !.pc = "answered", !.status = status]]
                  BY <2>6, Zenon DEF CreateSchedule, Become
            <3> HIDE DEF q
            <3> DEFINE p == [q EXCEPT !.op = "createSchedule", !.name = n]
            <3>2. /\ [p EXCEPT !.pc = "load", !.made = made].op = "createSchedule"
                  /\ [p EXCEPT !.pc = "answered", !.status = status].op = "createSchedule"
                  BY <1>0 DEF Requests
            <3>3. QED
                  BY <3>1, <3>2, Zenon
      <2>7. QED
            BY <2>1, <2>2, <2>3, <2>4, <2>5, <2>6
<1>3. QED
      BY <1>1, <1>2, TurnOther, ZenonT(30)

\* Nobody moves.
LEMMA TurnStays ==
  ASSUME InTurn, UNCHANGED <<idempotency, restarts>>,
         \A r \in Request :
           /\ req'[r].pc = req[r].pc /\ req'[r].task = req[r].task
           /\ \A k \in Key : /\ Working(req[r], k)' => Working(req[r], k)
                             /\ Making(req[r], k)' => Making(req[r], k)
                             /\ Fresh(req[r], k)' => Fresh(req[r], k)
  PROVE  InTurn'
<1>1. ASSUME NEW k \in Key, NEW r \in Request
      PROVE  /\ (Working(req[r], k))' => \A s \in Request \ {r} : ~(Working(req[s], k))'
             /\ (Working(req[r], k))' /\ req'[r].pc = "load" => req'[r].task = idempotency'[k].task
             /\ (Making(req[r], k))' => \A s \in Request : ~(Fresh(req[s], k))'
             /\ (Fresh(req[r], k))' => req'[r].task = idempotency'[k].task
      BY SMTT(30) DEF InTurn
<1>2. restarts' = 0 /\ \A k \in Key : ~idempotency'[k].expired
      BY DEF InTurn
<1>3. QED
      BY <1>1, <1>2, ZenonT(30) DEF InTurn

\* A task that goes is fresh no longer.
LEMMA TurnGoes ==
  ASSUME ApiInv, InTurn, NEW t \in Task, DeleteTask(t)
  PROVE  InTurn'
<1>1. /\ tasks' = [tasks EXCEPT ![t] = "gone"] /\ UNCHANGED <<idempotency, restarts>>
      /\ req' = [r \in Request |->
                   IF req[r].task = t THEN [req[r] EXCEPT !.replay = FALSE] ELSE req[r]]
      BY DEF DeleteTask
<1>2. ASSUME NEW r \in Request
      PROVE  /\ req'[r].op = req[r].op /\ req'[r].pc = req[r].pc /\ req'[r].key = req[r].key
             /\ req'[r].task = req[r].task /\ req'[r].status = req[r].status
      <2>1. req[r] \in Requests
            BY RequestType
      <2>2. req'[r] = req[r] \/ req'[r] = [req[r] EXCEPT !.replay = FALSE]
            BY <1>1, SMTT(30)
      <2>3. QED
            BY <2>1, <2>2 DEF Requests
<1>3. ASSUME NEW r \in Request, NEW k \in Key
      PROVE  /\ Working(req[r], k)' <=> Working(req[r], k)
             /\ Making(req[r], k)' <=> Making(req[r], k)
             /\ Fresh(req[r], k)' => Fresh(req[r], k)
      <2>1. /\ Working(req[r], k)' <=> Working(req[r], k)
            /\ Making(req[r], k)' <=> Making(req[r], k)
            BY <1>2 DEF Working, Making
      <2>2. Fresh(req[r], k)' => Fresh(req[r], k)
            <3>1. SUFFICES ASSUME Fresh(req[r], k)' PROVE Fresh(req[r], k)
                  OBVIOUS
            <3>2. /\ req[r].op = "createTask" /\ req[r].key = k /\ req[r].pc = "answered"
                  /\ req[r].status = 201 /\ tasks'[req[r].task] # "gone"
                  BY <1>2, <3>1, SMTT(30) DEF Fresh
            <3>3. req[r] \in Requests /\ Sane(req[r]) /\ tasks \in TaskStates
                  BY RequestType, SMTT(30) DEF ApiInv, ApiTypeOK
            <3>4. req[r].task \in Task
                  BY <3>2, <3>3 DEF Sane, Requests, TaskIds
            <3>5. tasks[req[r].task] # "gone"
                  BY <1>1, <3>2, <3>3, <3>4 DEF TaskStates
            <3>6. QED
                  BY <3>2, <3>5, SMTT(30) DEF Fresh
      <2>3. QED
            BY <2>1, <2>2, SMTT(30)
<1>4. QED
      BY <1>1, <1>2, <1>3, TurnStays

LEMMA TurnStep ==
  ASSUME ~MayExpire, MaxRestarts = 0
  PROVE  ApiInv /\ InTurn /\ [ApiNext]_apiVars /\ [Orderly]_apiVars => InTurn'
<1> SUFFICES ASSUME ApiInv, InTurn, [ApiNext]_apiVars, [Orderly]_apiVars PROVE InTurn'
    OBVIOUS
<1>1. CASE UNCHANGED apiVars
      <2>1. UNCHANGED <<tasks, idempotency, req, restarts>>
            BY <1>1, SMTT(30) DEF apiVars
      <2>2. QED
            BY <2>1, TurnStays DEF Working, Making, Fresh
<1>2. ASSUME NEW n \in Name, DeleteSchedule(n) PROVE InTurn'
      <2>1. UNCHANGED <<tasks, idempotency, req, restarts>>
            BY <1>2 DEF DeleteSchedule
      <2>2. QED
            BY <2>1, TurnStays DEF Working, Making, Fresh
<1>3. ~Restart /\ \A k \in Key : ~ExpireKey(k)
      BY DEF Restart, ExpireKey, InTurn
<1>4. QED
      BY <1>1, <1>2, <1>3, TurnTask, TurnOthers, TurnGoes DEF ApiNext

LEMMA TurnInitially == ApiInit => InTurn
<1> SUFFICES ASSUME ApiInit PROVE InTurn
    OBVIOUS
<1>1. restarts = 0 /\ \A k \in Key : ~idempotency[k].expired
      BY DEF ApiInit, NoEntry
<1>2. \A r \in Request : req[r].op = "none"
      BY ZenonT(30) DEF ApiInit, NewRequest
<1>3. \A r \in Request, k \in Key : ~Working(req[r], k) /\ ~Making(req[r], k) /\ ~Fresh(req[r], k)
      BY <1>2 DEF Working, Making, Fresh
<1>4. QED
      BY <1>1, <1>3, Zenon DEF InTurn

\* What the documentation promises of an Idempotency-Key holds for a caller that
\* repeats a request only once the one before it has ended, while the server
\* neither restarts nor drops the key after its ten minutes and can load what is
\* in the store: the repeats leave one task.
THEOREM OrderlyRepeatsMakeNone ==
  ASSUME ~MayExpire, MaxRestarts = 0
  PROVE  ApiSpec /\ [][Orderly]_apiVars => []NoSecondTask
<1>1. ApiInv /\ InTurn => NoSecondTask
      <2> SUFFICES ASSUME ApiInv, InTurn, NEW r \in Request, NEW s \in Request, r # s,
                          Answered(r, 201), Answered(s, 201), req[r].op = "createTask",
                          req[s].op = "createTask", req[r].key = req[s].key, req[r].key # NoKey,
                          tasks[req[r].task] # "gone", tasks[req[s].task] # "gone"
                   PROVE  FALSE
          BY SMTT(30) DEF NoSecondTask
      <2> DEFINE k == req[r].key
      <2>1. k \in Key
            BY RequestType, SMTT(30) DEF Requests, Keys
      <2>2. Fresh(req[r], k) /\ Fresh(req[s], k)
            BY SMTT(30) DEF Fresh, Answered
      <2>3. req[r].task = req[s].task
            BY <2>1, <2>2, SMTT(30) DEF InTurn
      <2>4. Apart(req[r], req[s])
            BY RequestType
      <2>5. QED
            BY <2>3, <2>4, SMTT(30) DEF Apart, Answered
<1>2. ApiInv /\ InTurn /\ [ApiNext]_apiVars /\ [Orderly]_apiVars => InTurn'
      BY TurnStep
<1>3. QED
      BY <1>1, <1>2, TurnInitially, ApiInvariant, PTL DEF ApiSpec

=============================================================================
