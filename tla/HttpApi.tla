------------------------------ MODULE HttpApi ------------------------------
(***************************************************************************)
(* The writing half of the HTTP API (src/httpserver/tasks.go and           *)
(* schedules.go): concurrent requests that create tasks under an           *)
(* Idempotency-Key, retry them one by one or in bulk, and create and       *)
(* delete schedules.  A handler is one action per call it makes to the     *)
(* library; what such a call does inside is the subject of Client.         *)
(***************************************************************************)
EXTENDS Integers, Sequences

CONSTANTS
  Request,       \* the requests callers make
  Operations,    \* what they may ask for
  Key, NoKey,    \* Idempotency-Key headers, and its absence
  Task, NoTask,  \* task IDs, given out by NewTask
  Name,          \* schedule names
  IdLists,       \* bodies of bulk retries
  bulkRetryMax,
  MaxChanges,    \* bound: changes to the schedules
  MaxRestarts,   \* bound: restarts of the server
  MayExpire      \* whether ten minutes may pass

ASSUME HttpAssumption ==
  /\ NoKey \notin Key /\ NoTask \notin Task
  /\ IdLists \subseteq Seq(Task)
  /\ bulkRetryMax \in Nat /\ MaxChanges \in Nat /\ MaxRestarts \in Nat /\ MayExpire \in BOOLEAN

VARIABLES
  tasks,         \* tasks[t]: not made yet, in the store, or no longer there
  idempotency,   \* idempotency[k]: idempotencyStore
  schedule,      \* schedule[n]: the incarnation of schedule n, 0 when there is none
  changes,       \* incarnations so far
  req,           \* req[r]: a request
  restarts

apiVars == <<tasks, idempotency, schedule, changes, req, restarts>>

NoEntry == [task |-> NoTask, expired |-> FALSE]

NewRequest == [op |-> "none", pc |-> "idle", key |-> NoKey, task |-> NoTask, name |-> "none",
               ids |-> <<>>, results |-> <<>>, status |-> 0,
               made |-> 0, replay |-> FALSE, retried |-> {}]

\* The server starts with an empty idempotency store over the tasks there are.
ApiInit ==
  /\ tasks \in [Task -> {"unused", "stored"}]
  /\ idempotency = [k \in Key |-> NoEntry]
  /\ schedule = [n \in Name |-> 0] /\ changes = 0
  /\ req = [r \in Request |-> NewRequest]
  /\ restarts = 0

\* The status of a library error.
writeLibraryError(err) ==
  CASE err \in {"ErrTaskNotFound", "ErrScheduledTaskNotFound", "ErrQueueNotFound",
                "ErrQueueConsumerNotFound"} -> 404
    [] err \in {"ErrTaskTypeInvalid", "ErrTaskTypeRequired", "ErrTaskIDInvalid", "ErrTaskNotSigned",
                "ErrTaskSignatureInvalid", "ErrScheduleInvalid", "ErrScheduleNameInvalid",
                "ErrScheduleNameIsRequired", "ErrScheduleIsRequired",
                "ErrScheduledTaskShortDeadline", "ErrQueueNameRequired", "ErrUnknownRetryPolicy"} -> 400
    [] err \in {"ErrTaskTypeCannotEnqueue", "ErrTaskPastDeadline", "ErrTaskAlreadyActive",
                "ErrTaskAlreadyInState", "ErrTaskAlreadySigned", "ErrScheduledTaskAlreadyExist",
                "ErrDuplicateItem"} -> 409
    [] err \in {"ErrStorageNotReady", "ErrNoNatsConn", "ErrInvalidQueueState"} -> 503
    [] OTHER -> 500

Become(r, q) == req' = [req EXCEPT ![r] = q]
Answer(r, status) == Become(r, [req[r] EXCEPT !.pc = "answered", !.status = status])
At(r, op, pc) == req[r].op = op /\ req[r].pc = pc
Accept(r, op) == req[r].pc = "idle" /\ op \in Operations

----------------------------------------------------------------------------
\* The entry of a key that still counts.
Remembered(k) == idempotency[k].task /= NoTask /\ ~idempotency[k].expired

\* CreateTask up to its first call: lookup finds the key, drops it when it has
\* expired, or does not know it.
CreateTask(r, k) ==
  /\ Accept(r, "createTask")
  /\ IF k /= NoKey /\ Remembered(k)
     THEN /\ Become(r, [req[r] EXCEPT !.op = "createTask", !.pc = "load", !.key = k,
                          !.task = idempotency[k].task,
                          !.replay = tasks[idempotency[k].task] = "stored"])
          /\ UNCHANGED idempotency
     ELSE /\ Become(r, [req[r] EXCEPT !.op = "createTask", !.pc = "enqueue", !.key = k])
          /\ idempotency' = IF k = NoKey THEN idempotency ELSE [idempotency EXCEPT ![k] = NoEntry]
  /\ UNCHANGED <<tasks, schedule, changes, restarts>>

\* Mutant of LoadRemembered: the remembered task is not used.
LoadRememberedNever(r) ==
  /\ At(r, "createTask", "load")
  /\ Become(r, [req[r] EXCEPT !.pc = "enqueue", !.task = NoTask])
  /\ UNCHANGED <<tasks, idempotency, schedule, changes, restarts>>

\* LoadTaskByID of the remembered task: any error means a fresh task.
LoadRemembered(r) ==
  /\ At(r, "createTask", "load")
  /\ IF tasks[req[r].task] = "stored"
     THEN Answer(r, 200)
     ELSE Become(r, [req[r] EXCEPT !.pc = "enqueue", !.task = NoTask])
  /\ UNCHANGED <<tasks, idempotency, schedule, changes, restarts>>

LoadRememberedFails(r) ==
  /\ At(r, "createTask", "load")
  /\ Become(r, [req[r] EXCEPT !.pc = "enqueue", !.task = NoTask, !.replay = FALSE])
  /\ UNCHANGED <<tasks, idempotency, schedule, changes, restarts>>

\* readCreateTaskBody refuses the body.
BadBody(r) ==
  /\ At(r, "createTask", "enqueue")
  /\ Answer(r, writeLibraryError("ErrTaskTypeInvalid"))
  /\ UNCHANGED <<tasks, idempotency, schedule, changes, restarts>>

\* NewTask gives out an ID, EnqueueTask stores the task.
Enqueue(r) ==
  /\ At(r, "createTask", "enqueue")
  /\ \E t \in Task :
       /\ tasks[t] = "unused"
       /\ tasks' = [tasks EXCEPT ![t] = "stored"]
       /\ Become(r, [req[r] EXCEPT !.pc = "store", !.task = t])
  /\ UNCHANGED <<idempotency, schedule, changes, restarts>>

\* EnqueueTask fails: before the task is stored, or after.
EnqueueFails(r) ==
  /\ At(r, "createTask", "enqueue")
  /\ \/ UNCHANGED tasks
     \/ \E t \in Task : tasks[t] = "unused" /\ tasks' = [tasks EXCEPT ![t] = "stored"]
  /\ Answer(r, writeLibraryError("unknown"))
  /\ UNCHANGED <<idempotency, schedule, changes, restarts>>

\* Mutant of Store: the task is remembered without its key.
StoreEveryKey(r) ==
  /\ At(r, "createTask", "store")
  /\ idempotency' = [k \in Key |-> [task |-> req[r].task, expired |-> FALSE]]
  /\ Answer(r, 201)
  /\ UNCHANGED <<tasks, schedule, changes, restarts>>

\* idempotencyStore.store sweeps what has expired and remembers the task.
Store(r) ==
  /\ At(r, "createTask", "store")
  /\ idempotency' = IF req[r].key = NoKey THEN idempotency
                    ELSE [k \in Key |->
                            IF k = req[r].key THEN [task |-> req[r].task, expired |-> FALSE]
                            ELSE IF idempotency[k].expired THEN NoEntry ELSE idempotency[k]]
  /\ Answer(r, 201)
  /\ UNCHANGED <<tasks, schedule, changes, restarts>>

----------------------------------------------------------------------------
\* RetryTaskByID: the errors it returns, and whether the task was enqueued.  The
\* load or a later request may fail, and the reply to the last one get lost;
\* nobody answers when the queue is missing.
RetryOutcome(t) ==
  {<<"unknown", FALSE>>} \cup
    IF tasks[t] = "stored"
    THEN {<<"ok", TRUE>>, <<"ErrQueueNotFound", FALSE>>, <<"unknown", TRUE>>}
    ELSE {<<"ErrTaskNotFound", FALSE>>}

\* RetryTask retries, then loads the task to show it.
RetryTask(r, t) ==
  /\ Accept(r, "retryTask") /\ tasks[t] /= "unused"
  /\ \E o \in RetryOutcome(t) :
       Become(r, IF o[1] = "ok"
                 THEN [req[r] EXCEPT !.op = "retryTask", !.pc = "load", !.task = t]
                 ELSE [req[r] EXCEPT !.op = "retryTask", !.pc = "answered", !.task = t,
                                     !.status = writeLibraryError(o[1])])
  /\ UNCHANGED <<tasks, idempotency, schedule, changes, restarts>>

RetryLoad(r) ==
  /\ At(r, "retryTask", "load")
  /\ Answer(r, IF tasks[req[r].task] = "stored" THEN 200 ELSE writeLibraryError("ErrTaskNotFound"))
  /\ UNCHANGED <<tasks, idempotency, schedule, changes, restarts>>

\* RetryTasks checks the body before it retries anything.
RetryTasks(r, ids) ==
  /\ Accept(r, "retryTasks")
  /\ Become(r, IF Len(ids) \in 1..bulkRetryMax
               THEN [req[r] EXCEPT !.op = "retryTasks", !.pc = "retry", !.ids = ids]
               ELSE [req[r] EXCEPT !.op = "retryTasks", !.pc = "answered", !.ids = ids, !.status = 400])
  /\ UNCHANGED <<tasks, idempotency, schedule, changes, restarts>>

BulkStatus(err) == CASE err = "ok" -> "ok" [] err = "ErrTaskNotFound" -> "not_found" [] OTHER -> "failed"

\* Mutant of RetryNext: the loop ends at the first error.
RetryNextStops(r) ==
  LET q == req[r]
      t == q.ids[Len(q.results) + 1]
  IN  /\ At(r, "retryTasks", "retry")
      /\ \E o \in RetryOutcome(t) :
           LET all == Len(q.results) + 1 = Len(q.ids) \/ o[1] /= "ok"
           IN  Become(r, [q EXCEPT !.results = Append(@, BulkStatus(o[1])),
                                   !.retried = IF o[2] THEN @ \cup {t} ELSE @,
                                   !.pc = IF all THEN "answered" ELSE @,
                                   !.status = IF all THEN 200 ELSE @])
      /\ UNCHANGED <<tasks, idempotency, schedule, changes, restarts>>

\* One turn of its loop: a task that fails does not stop the others.
RetryNext(r) ==
  LET q == req[r]
      t == q.ids[Len(q.results) + 1]
  IN  /\ At(r, "retryTasks", "retry")
      /\ \E o \in RetryOutcome(t) :
           LET all == Len(q.results) + 1 = Len(q.ids)
           IN  Become(r, [q EXCEPT !.results = Append(@, BulkStatus(o[1])),
                                   !.retried = IF o[2] THEN @ \cup {t} ELSE @,
                                   !.pc = IF all THEN "answered" ELSE @,
                                   !.status = IF all THEN 200 ELSE @])
      /\ UNCHANGED <<tasks, idempotency, schedule, changes, restarts>>

----------------------------------------------------------------------------

\* Mutant of CreateSchedule: the key is looked up, then put.
CreateSchedulePut(r, n) ==
  /\ Accept(r, "createSchedule") /\ changes < MaxChanges
  /\ changes' = IF schedule[n] = 0 THEN changes + 1 ELSE changes
  /\ schedule' = IF schedule[n] = 0 THEN [schedule EXCEPT ![n] = changes'] ELSE schedule
  /\ Become(r, [req[r] EXCEPT !.op = "createSchedule", !.name = n, !.pc = "load", !.made = schedule'[n]])
  /\ UNCHANGED <<tasks, idempotency, restarts>>

\* CreateSchedule: the task and the schedule are checked, then the key of the
\* schedule is created, which fails when it exists.
CreateSchedule(r, n) ==
  /\ Accept(r, "createSchedule")
  /\ LET q == [req[r] EXCEPT !.op = "createSchedule", !.name = n]
     IN  IF schedule[n] = 0
         THEN /\ changes < MaxChanges
              /\ changes' = changes + 1
              /\ schedule' = [schedule EXCEPT ![n] = changes']
              /\ Become(r, [q EXCEPT !.pc = "load", !.made = changes'])
         ELSE /\ Become(r, [q EXCEPT !.pc = "answered",
                              !.status = writeLibraryError("ErrScheduledTaskAlreadyExist")])
              /\ UNCHANGED <<schedule, changes>>
  /\ UNCHANGED <<tasks, idempotency, restarts>>

\* A schedule or a task that is not valid is refused.
RefuseSchedule(r) ==
  /\ Accept(r, "createSchedule")
  /\ Become(r, [req[r] EXCEPT !.op = "createSchedule", !.pc = "answered",
                              !.status = writeLibraryError("ErrScheduleInvalid")])
  /\ UNCHANGED <<tasks, idempotency, schedule, changes, restarts>>

\* It then loads the schedule to show it.
LoadSchedule(r) ==
  /\ At(r, "createSchedule", "load")
  /\ Answer(r, IF schedule[req[r].name] /= 0 THEN 201 ELSE writeLibraryError("ErrScheduledTaskNotFound"))
  /\ UNCHANGED <<tasks, idempotency, schedule, changes, restarts>>

\* DeleteSchedule, by a request or another client.
DeleteSchedule(n) ==
  /\ schedule[n] /= 0
  /\ schedule' = [schedule EXCEPT ![n] = 0]
  /\ UNCHANGED <<tasks, idempotency, changes, req, restarts>>

----------------------------------------------------------------------------
\* DELETE /v1/tasks/{id}, a discard or the retention removes a task.
DeleteTask(t) ==
  /\ tasks[t] = "stored"
  /\ tasks' = [tasks EXCEPT ![t] = "gone"]
  /\ req' = [r \in Request |-> IF req[r].task = t THEN [req[r] EXCEPT !.replay = FALSE] ELSE req[r]]
  /\ UNCHANGED <<idempotency, schedule, changes, restarts>>

\* Ten minutes have passed since the key was stored.
ExpireKey(k) ==
  /\ MayExpire /\ Remembered(k)
  /\ idempotency' = [idempotency EXCEPT ![k].expired = TRUE]
  /\ UNCHANGED <<tasks, schedule, changes, req, restarts>>

\* The server is restarted: requests in progress end without an answer, and the
\* idempotency store starts empty.
Restart ==
  /\ restarts < MaxRestarts
  /\ restarts' = restarts + 1
  /\ idempotency' = [k \in Key |-> NoEntry]
  /\ req' = [r \in Request |->
               IF req[r].pc \in {"idle", "answered"} THEN req[r] ELSE [req[r] EXCEPT !.pc = "answered"]]
  /\ UNCHANGED <<tasks, schedule, changes>>

ApiNext ==
  \/ \E r \in Request :
       \/ \E k \in Key \cup {NoKey} : CreateTask(r, k)
       \/ LoadRemembered(r) \/ LoadRememberedFails(r) \/ BadBody(r)
       \/ Enqueue(r) \/ EnqueueFails(r) \/ Store(r)
       \/ \E t \in Task : RetryTask(r, t)
       \/ RetryLoad(r)
       \/ \E ids \in IdLists : RetryTasks(r, ids)
       \/ RetryNext(r)
       \/ \E n \in Name : CreateSchedule(r, n)
       \/ RefuseSchedule(r) \/ LoadSchedule(r)
  \/ \E n \in Name : DeleteSchedule(n)
  \/ \E t \in Task : DeleteTask(t)
  \/ \E k \in Key : ExpireKey(k)
  \/ Restart

ApiSpec == ApiInit /\ [][ApiNext]_apiVars

----------------------------------------------------------------------------
Answered(r, status) == req[r].pc = "answered" /\ req[r].status = status

\* A replayed key creates nothing: while the task its key remembers stays in
\* the store and can be loaded, a POST /v1/tasks answers with it.
ReplayCreatesNothing ==
  \A r \in Request : req[r].replay => req[r].pc \notin {"enqueue", "store"} /\ ~Answered(r, 201)

\* A task is the fresh 201 of at most one request, and answers replays of that
\* request's key only, however requests overlap, keys expire and the server
\* restarts.
CreatedOnce ==
  \A r, s \in Request :
    r /= s /\ Answered(r, 201) /\ req[r].op = "createTask" /\ req[s].op = "createTask"
    /\ req[s].task = req[r].task
      => req[s].status \in {0, 200} /\ req[s].key = req[r].key

\* The answer to a bulk retry is exact: it has a result per ID, "ok" only for
\* a task that was enqueued, and no task enqueued that it calls not found; a
\* refused request enqueued nothing.
BulkAccurate ==
  \A r \in Request : LET q == req[r] IN
    /\ Answered(r, 200) /\ q.op = "retryTasks" => Len(q.results) = Len(q.ids)
    /\ Answered(r, 400) => q.retried = {}
    /\ \A i \in DOMAIN q.results :
         /\ q.results[i] = "ok" => q.ids[i] \in q.retried
         /\ q.ids[i] \in q.retried => \E j \in DOMAIN q.results :
              q.ids[j] = q.ids[i] /\ q.results[j] /= "not_found"

\* One of several concurrent POST /v1/schedules with the same name creates it:
\* an incarnation of a schedule belongs to one request.
OneCreateWins ==
  \A r, s \in Request : req[r].made /= 0 /\ req[r].made = req[s].made => r = s

\* As long as no key expires, two requests with the same key do not leave two
\* tasks in the store (http-api.md: "a repeat request with the same key returns the existing task
\* as 200 with the same Location header rather than enqueuing twice").
NoSecondTask ==
  \A r, s \in Request :
    r /= s /\ Answered(r, 201) /\ Answered(s, 201) /\ req[r].op = "createTask"
    /\ req[s].op = "createTask" /\ req[r].key = req[s].key /\ req[r].key /= NoKey
      => \E t \in {req[r].task, req[s].task} : tasks[t] = "gone"

\* A POST /v1/tasks with key k that is in progress, one of them that looked its
\* key up in vain, and one that was answered with a fresh task that is not gone.
Working(q, k) == q.op = "createTask" /\ q.key = k /\ q.pc \in {"load", "enqueue", "store"}
Making(q, k) == Working(q, k) /\ q.pc /= "load"
Fresh(q, k) ==
  q.op = "createTask" /\ q.key = k /\ q.pc = "answered" /\ q.status = 201 /\ tasks[q.task] /= "gone"

\* Condition on a step: a caller repeats a request with a key only when no other
\* with this key is in progress, and a task that is in the store can be loaded.
Orderly ==
  \A r \in Request :
    /\ \A k \in Key : CreateTask(r, k) => \A s \in Request \ {r} : ~Working(req[s], k)
    /\ LoadRememberedFails(r) => tasks[req[r].task] /= "stored"

\* Invariant of orderly callers of a server that neither forgets nor restarts: a
\* key has one request in progress, which loads the task the key remembers or
\* makes one when none is left; a fresh task is the one its key remembers.
InTurn ==
  /\ restarts = 0
  /\ \A k \in Key :
       /\ ~idempotency[k].expired
       /\ \A r \in Request :
            /\ Working(req[r], k) => \A s \in Request \ {r} : ~Working(req[s], k)
            /\ Working(req[r], k) /\ req[r].pc = "load" => req[r].task = idempotency[k].task
            /\ Making(req[r], k) => \A s \in Request : ~Fresh(req[s], k)
            /\ Fresh(req[r], k) => req[r].task = idempotency[k].task
============================================================================
