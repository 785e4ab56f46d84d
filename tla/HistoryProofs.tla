---------------------------- MODULE HistoryProofs ----------------------------
(***************************************************************************)
(* What happens to a task over time: its life cycle, how often it runs,    *)
(* after which other tasks and for which reason it is given up.            *)
(***************************************************************************)
EXTENDS AsyncJobsProofs

----------------------------------------------------------------------------
(***************************************************************************)
(* AsyncJobs implements TaskLifecycle, and what follows from that: the     *)
(* limit on tries, the permanence of outcomes and of deletion.             *)
(***************************************************************************)

\* How the operations on the store look in the life cycle of a task.
LEMMA SameLifecycle ==
  ASSUME tasks' = tasks
  PROVE  UNCHANGED Lifecycle!vars
  BY DEF Lifecycle!vars

\* What becomes of task t, in terms of the variables of TaskLifecycle.
Becomes(t, s, n) ==
  /\ [u \in Task |-> tasks'[u].state] = [[u \in Task |-> tasks[u].state] EXCEPT ![t] = s]
  /\ [u \in Task |-> tasks'[u].tries] = [[u \in Task |-> tasks[u].tries] EXCEPT ![t] = n]

\* An accepted save gives the task the state and the tries of the record.
LEMMA AcceptLifecycle ==
  ASSUME StoreTypeOK, NEW t \in Task, NEW r \in Record, Accept(t, r)
  PROVE  Becomes(t, r.state, r.tries)
<1>. DEFINE s == [r EXCEPT !.seq = lastSeq[t] + 1]
<1>1. s.state = r.state /\ s.tries = r.tries
  BY DEF Record
<1>2. tasks' = [tasks EXCEPT ![t] = s]
  BY DEF Accept
<1>. HIDE DEF s
<1>. QED
  BY <1>1, <1>2, Zenon DEF Becomes, StoreTypeOK

\* A delete removes the task or does nothing.
LEMMA DeleteLifecycle ==
  ASSUME StoreTypeOK, NEW t \in Task, NEW seq \in Nat, DeleteMessage(t, seq)
  PROVE  Lifecycle!Remove(t) \/ UNCHANGED Lifecycle!vars
<1>1. CASE tasks' = [tasks EXCEPT ![t] = NoRecord]
  BY <1>1, ZenonT(30) DEF Lifecycle!Become, Lifecycle!Remove, StoreTypeOK, NoRecord
<1>2. CASE tasks' = tasks
  BY <1>2, SameLifecycle
<1>. QED
  BY <1>1, <1>2 DEF DeleteMessage, storeVars

----------------------------------------------------------------------------
\* The loop gives a task up: it expired, or cannot be reached any more.
LEMMA SaveTaskLifecycle ==
  ASSUME Fenced, NEW p \in Proc, SaveTask(p)
  PROVE  (\E t \in Task : Lifecycle!GiveUp(t)) \/ UNCHANGED Lifecycle!vars
<1>. DEFINE t == loop[p].task
            r == loop[p].rec
<1>0. StoreTypeOK /\ LoopFence(p) /\ loop[p] \in Loop /\ \A u \in Task : StoreFence(u)
  BY Zenon DEF Fenced, TypeOK, ProcessorTypeOK
<1>1. t \in Task /\ r \in Record /\ r.state \in {"expired", "unreachable"}
  BY <1>0, Zenon DEF SaveTask, LoopFence, Loop
<1>2. PICK ok \in BOOLEAN : SaveTaskState(t, r, ok)
  BY Zenon DEF SaveTask
<1>3. Accept(t, r) \/ UNCHANGED storeVars
  BY <1>0, <1>1, <1>2, SaveStore, Zenon
<1>4. CASE Accept(t, r)
  <2>1. Becomes(t, r.state, r.tries)
    BY <1>0, <1>1, <1>4, AcceptLifecycle
  <2>2. r.tries = tasks[t].tries /\ tasks[t].state \in Takeable
        /\ (r.state = "unreachable" => tasks[t].state = "blocked")
    BY <1>0, <1>4 DEF SaveTask, LoopFence, Accept
  <2>. QED
    BY <1>1, <2>1, <2>2, ZenonT(40) DEF Lifecycle!GiveUp, Lifecycle!Become, Becomes, Takeable
<1>. QED
  BY <1>3, <1>4, SameLifecycle, ZenonT(30) DEF storeVars

\* A worker claims the task before its handler runs.
LEMMA SetTaskActiveLifecycle ==
  ASSUME Fenced, NEW p \in Proc, SetTaskActive(p)
  PROVE  (\E t \in Task : Lifecycle!Claim(t)) \/ UNCHANGED Lifecycle!vars
<1>. DEFINE t == loop[p].task
            r == [loop[p].rec EXCEPT !.state = "active"]
<1>0. StoreTypeOK /\ LoopFence(p) /\ loop[p] \in Loop /\ loop[p].pc = "activate"
      /\ \A u \in Task : StoreFence(u)
  BY DEF Fenced, TypeOK, ProcessorTypeOK, SetTaskActive
<1>1. t \in Task /\ loop[p].rec \in Record
  BY <1>0, Zenon DEF LoopFence, Loop
<1>2. r \in Record /\ r.state = "active" /\ r.tries = loop[p].rec.tries
      /\ r.seq = loop[p].rec.seq
  BY <1>1 DEF Record, TaskState
<1>3. PICK ok \in BOOLEAN : SaveTaskState(t, r, ok)
  BY ZenonT(30) DEF SetTaskActive
<1>. HIDE DEF r
<1>4. Accept(t, r) \/ UNCHANGED storeVars
  BY <1>0, <1>1, <1>2, <1>3, SaveStore, Zenon
<1>5. CASE Accept(t, r)
  <2>1. Becomes(t, "active", r.tries)
    BY <1>0, <1>1, <1>2, <1>5, AcceptLifecycle, Zenon
  <2>2. r.tries = tasks[t].tries /\ tasks[t].state \in Takeable
        /\ (TaskMaxTries[t] > 0 => tasks[t].tries < TaskMaxTries[t])
    BY <1>0, <1>1, <1>2, <1>5 DEF LoopFence, Accept
  <2>. QED
    BY <1>1, <2>1, <2>2, Zenon DEF Lifecycle!Claim, Lifecycle!Become, Becomes, Takeable
<1>. QED
  BY <1>4, <1>5, SameLifecycle DEF storeVars

\* A handler records the outcome of the one attempt it made.
LEMMA SaveResultLifecycle ==
  ASSUME Fenced, NEW p \in Proc, NEW i \in Slot, SaveResult(p, i)
  PROVE  (\E t \in Task : Lifecycle!Finish(t)) \/ UNCHANGED Lifecycle!vars
<1>. DEFINE t == handler[p][i].task
            r == handler[p][i].rec
<1>0. StoreTypeOK /\ HandlerFence(p, i) /\ handler[p][i] \in Handler
      /\ (\A u \in Task : StoreFence(u)) /\ handler[p][i].pc = "save"
  BY Zenon DEF Fenced, TypeOK, ProcessorTypeOK, SaveResult
<1>1. t \in Task /\ r \in Record /\ r.state \in Outcome(r)
  BY <1>0, Zenon DEF HandlerFence, Handler
<1>2. PICK ok \in BOOLEAN : SaveTaskState(t, r, ok)
  BY DEF SaveResult
<1>3. r.state # "unknown"
  BY <1>1, SMTT(30) DEF Outcome, ErrorState
<1>4. Accept(t, r) \/ UNCHANGED storeVars
  BY <1>0, <1>1, <1>2, <1>3, SaveStore, ZenonT(30)
<1>5. CASE Accept(t, r)
  <2>1. Becomes(t, r.state, r.tries)
    BY <1>0, <1>1, <1>5, AcceptLifecycle, Zenon
  <2>2. tasks[t].state = "active" /\ r.tries = tasks[t].tries + 1
    BY <1>0, <1>1, <1>5, Zenon DEF HandlerFence, Accept
  <2>3. /\ r.state \in {"complete", "terminated", "retry", "expired"}
        /\ r.state = "retry" => r.tries # QueueMaxTries
        /\ r.state = "expired" => r.tries = QueueMaxTries
    BY <1>1 DEF Outcome, ErrorState
  <2>. QED
    BY <1>1, <2>1, <2>2, <2>3, ZenonT(30) DEF Lifecycle!Finish, Lifecycle!Become, Becomes
<1>. QED
  BY <1>4, <1>5, SameLifecycle DEF storeVars

\* A creator saves a task it has not seen touched, or that it could not queue.
LEMMA SaveEnqueuedLifecycle ==
  ASSUME Fenced, NEW t \in Task, SaveEnqueued(t)
  PROVE  Lifecycle!Create(t) \/ Lifecycle!QueueError(t) \/ Lifecycle!Retry(t)
         \/ UNCHANGED Lifecycle!vars
<1>. DEFINE r == creator[t].rec
            first == NewTask(t).state
<1>0. StoreTypeOK /\ CreatorFence(t) /\ creator[t] \in Creator
      /\ creator[t].pc \in {"save", "queueError"} /\ \A u \in Task : StoreFence(u)
  BY ZenonT(30) DEF Fenced, TypeOK, ClientTypeOK, SaveEnqueued
<1>1. r \in Record /\ r.tries = 0 /\ r.state \in {first, "queue_error"}
  BY <1>0 DEF CreatorFence, Creator
<1>2. first \in {"new", "blocked"}
  BY DEF NewTask
<1>3. PICK ok \in BOOLEAN : SaveTaskState(t, r, ok)
  BY Zenon DEF SaveEnqueued
<1>. HIDE DEF first
<1>4. Accept(t, r) \/ UNCHANGED storeVars
  BY <1>0, <1>1, <1>2, <1>3, SaveStore, Zenon
<1>5. CASE Accept(t, r)
  <2>1. Becomes(t, r.state, 0)
    BY <1>0, <1>1, <1>5, AcceptLifecycle, Zenon
  <2>2. tasks[t].tries = 0 /\ r.seq = tasks[t].seq
    BY <1>0, <1>5, Zenon DEF CreatorFence, Accept
  <2>3. tasks[t].state \in {first, "unknown"}
    BY <1>0, <2>2, Zenon DEF CreatorFence, first
  <2>4. CASE creator[t].pc = "save"
    <3>1. r.state = first
      BY <1>0, <2>4, ZenonT(30) DEF CreatorFence, first
    <3>. QED
      BY <2>1, <2>2, <2>3, <3>1, ZenonT(30) DEF Lifecycle!Create, Lifecycle!Become, Becomes, first
  <2>5. CASE creator[t].pc = "queueError"
    <3>1. r.state = "queue_error" /\ r.seq > 0
      BY <1>0, <2>5, Zenon DEF CreatorFence
    <3>2. tasks[t].state # "unknown"
      BY <1>0, <2>2, <3>1 DEF StoreFence
    <3>. QED
      BY <1>2, <2>1, <2>2, <2>3, <3>1, <3>2, ZenonT(30) DEF Lifecycle!QueueError, Lifecycle!Become, Becomes
  <2>. QED
    BY <1>0, <2>4, <2>5, Zenon
<1>. QED
  BY <1>4, <1>5, SameLifecycle, ZenonT(30) DEF storeVars

\* A client has a task retried, or records that it could not be queued.
LEMMA SaveRetriedLifecycle ==
  ASSUME Fenced, NEW c \in Client, SaveRetried(c)
  PROVE  (\E t \in Task : Lifecycle!Retry(t) \/ Lifecycle!QueueError(t))
         \/ UNCHANGED Lifecycle!vars
<1>. DEFINE t == client[c].task
            r == client[c].rec
<1>0. StoreTypeOK /\ ClientFence(c) /\ client[c] \in Caller
      /\ client[c].pc \in {"save", "queueError"} /\ \A u \in Task : StoreFence(u)
  BY ZenonT(30) DEF Fenced, TypeOK, ClientTypeOK, SaveRetried
<1>1. t \in Task /\ r \in Record /\ r.state \in {"retry", "queue_error"}
  BY <1>0 DEF ClientFence, Caller
<1>2. PICK ok \in BOOLEAN : SaveTaskState(t, r, ok)
  BY SMTT(30) DEF SaveRetried
<1>3. Accept(t, r) \/ UNCHANGED storeVars
  BY <1>0, <1>1, <1>2, SaveStore, ZenonT(30)
<1>4. CASE Accept(t, r)
  <2>1. Becomes(t, r.state, r.tries)
    BY <1>0, <1>1, <1>4, AcceptLifecycle
  <2>2. r.seq = tasks[t].seq /\ r.seq \in 1..lastSeq[t] /\ r.tries = tasks[t].tries
    BY <1>0, <1>4, Zenon DEF ClientFence, Accept
  <2>3. tasks[t].state # "unknown"
    <3>1. r.seq \in Nat /\ lastSeq[t] \in Nat
      BY <1>0, <1>1 DEF StoreTypeOK, Record
    <3>. QED
      BY <1>0, <1>1, <2>2, <3>1, Numbers, ZenonT(30) DEF StoreFence
  <2>4. r.state = "queue_error" => tasks[t].state = "retry"
    BY <1>0, <2>2, Zenon DEF ClientFence
  <2>. QED
    BY <1>1, <2>1, <2>2, <2>3, <2>4, ZenonT(30)
       DEF Lifecycle!Retry, Lifecycle!QueueError, Lifecycle!Become, Becomes
<1>. QED
  BY <1>3, <1>4, SameLifecycle, ZenonT(30) DEF storeVars

\* Discarding and deleting remove the task.
LEMMA RemoveLifecycle ==
  ASSUME Fenced,
         \/ \E p \in Proc : DiscardTask(p)
         \/ \E p \in Proc, i \in Slot : DiscardResult(p, i)
         \/ \E c \in Client : DeleteFound(c)
  PROVE  (\E t \in Task : Lifecycle!Remove(t)) \/ UNCHANGED Lifecycle!vars
<1>. SUFFICES ASSUME NEW t \in Task, NEW seq \in Nat, DeleteMessage(t, seq)
              PROVE  (\E u \in Task : Lifecycle!Remove(u)) \/ UNCHANGED Lifecycle!vars
  <2>1. \A p \in Proc : DiscardTask(p) =>
          loop[p].task \in Task /\ loop[p].rec.seq \in Nat
    BY ZenonT(30) DEF Fenced, TypeOK, ProcessorTypeOK, LoopFence, DiscardTask, Loop, Record
  <2>2. \A p \in Proc, i \in Slot : DiscardResult(p, i) =>
          handler[p][i].task \in Task /\ handler[p][i].rec.seq \in Nat
    BY SMTT(30) DEF Fenced, TypeOK, ProcessorTypeOK, HandlerFence, DiscardResult, Handler, Record
  <2>3. \A c \in Client : DeleteFound(c) =>
          client[c].task \in Task /\ client[c].rec.seq \in Nat
    BY Zenon DEF Fenced, TypeOK, ClientTypeOK, ClientFence, DeleteFound, Caller, Record
  <2>. QED
    BY <2>1, <2>2, <2>3, ZenonT(30) DEF DiscardTask, DiscardResult, DeleteFound
<1>. QED
  BY DeleteLifecycle, ZenonT(30) DEF Fenced, TypeOK

----------------------------------------------------------------------------
\* Every step of the system is a step of TaskLifecycle or none of its business.
LEMMA StepLifecycle ==
  ASSUME Fenced, [Next]_vars
  PROVE  [Lifecycle!Next]_(Lifecycle!vars)
<1>1. ASSUME NEW p \in Proc, LoopNext(p)
      PROVE  [Lifecycle!Next]_(Lifecycle!vars)
  <2>1. CASE SaveTask(p)
    BY <2>1, SaveTaskLifecycle DEF Lifecycle!Next
  <2>2. CASE SetTaskActive(p)
    BY <2>2, SetTaskActiveLifecycle DEF Lifecycle!Next
  <2>3. CASE DiscardTask(p)
    BY <2>3, RemoveLifecycle DEF Lifecycle!Next
  <2>4. CASE ~(SaveTask(p) \/ SetTaskActive(p) \/ DiscardTask(p))
    <3>1. tasks' = tasks
      BY <1>1, <2>4, Zenon DEF LoopNext, TakeToken, PollItem, LoadTask, LoadDependency, TerminateFailed,
         NakBlocked, RemoveUseless, FindDiscarded, storeVars
    <3>. QED
      BY <3>1, SameLifecycle, ZenonT(30)
  <2>. QED
    BY <2>1, <2>2, <2>3, <2>4, ZenonT(30)
<1>2. ASSUME NEW p \in Proc, NEW i \in Slot, HandlerNext(p, i)
      PROVE  [Lifecycle!Next]_(Lifecycle!vars)
  <2>1. CASE SaveResult(p, i)
    BY <2>1, SaveResultLifecycle, ZenonT(30) DEF Lifecycle!Next
  <2>2. CASE DiscardResult(p, i)
    BY <2>2, RemoveLifecycle DEF Lifecycle!Next
  <2>3. CASE ~(SaveResult(p, i) \/ DiscardResult(p, i))
    <3>1. tasks' = tasks
      BY <1>2, <2>3, Zenon DEF HandlerNext, HandlerReturns, FindResult, FinishItem, storeVars
    <3>. QED
      BY <3>1, SameLifecycle, ZenonT(30)
  <2>. QED
    BY <2>1, <2>2, <2>3, ZenonT(30)
<1>3. ASSUME NEW t \in Task, CreatorNext(t)
      PROVE  [Lifecycle!Next]_(Lifecycle!vars)
  <2>1. CASE SaveEnqueued(t)
    BY <2>1, SaveEnqueuedLifecycle, ZenonT(30) DEF Lifecycle!Next
  <2>2. CASE ~SaveEnqueued(t)
    <3>1. tasks' = tasks
      BY <1>3, <2>2, ZenonT(30) DEF CreatorNext, EnqueueTask, PublishEnqueued, CreatorCrash, storeVars
    <3>. QED
      BY <3>1, SameLifecycle
  <2>. QED
    BY <2>1, <2>2, ZenonT(30)
<1>4. ASSUME NEW c \in Client, ClientNext(c)
      PROVE  [Lifecycle!Next]_(Lifecycle!vars)
  <2>1. CASE SaveRetried(c)
    BY <2>1, SaveRetriedLifecycle, ZenonT(30) DEF Lifecycle!Next
  <2>2. CASE DeleteFound(c)
    BY <2>2, RemoveLifecycle, ZenonT(30) DEF Lifecycle!Next
  <2>3. CASE ~(SaveRetried(c) \/ DeleteFound(c))
    <3>1. tasks' = tasks
      BY <1>4, <2>3, ZenonT(30) DEF ClientNext, RetryTaskByID, DeleteTaskByID, PublishRetried, ClientCrash,
         storeVars
    <3>. QED
      BY <3>1, SameLifecycle
  <2>. QED
    BY <2>1, <2>2, <2>3, ZenonT(30)
<1>5. ASSUME \/ \E p \in Proc : Crash(p)
             \/ PurgeQueue
             \/ \E t \in Task : PollReplyLost(t) \/ LeaseTimeout(t) \/ RunTimeout(t)
                                \/ Deadline(t) \/ ForgetMsgId(t)
             \/ UNCHANGED vars
      PROVE  [Lifecycle!Next]_(Lifecycle!vars)
  <2>1. tasks' = tasks
    BY <1>5, Zenon DEF Crash, PurgeQueue, PollReplyLost, LeaseTimeout, RunTimeout, Deadline, ForgetMsgId,
       MaxRunTimePasses, DeadlinePasses, vars, storeVars
  <2>. QED
    BY <2>1, SameLifecycle, ZenonT(30)
<1>. QED
  BY <1>1, <1>2, <1>3, <1>4, <1>5, ZenonT(30) DEF Next

\* The record of a task in the store takes only the steps of its life cycle,
\* and each recorded attempt counts one try, for any number of workers and
\* clients and through crashes, slow handlers and lost messages.
THEOREM RefinesLifecycle == Spec => ImplementsLifecycle
<1>1. Init => Lifecycle!Init
  BY DEF Init, StoreInit, NoRecord, Lifecycle!Init
<1>2. Fenced /\ [Next]_vars => [Lifecycle!Next]_(Lifecycle!vars)
  BY StepLifecycle, SMTT(30)
<1>. QED
  BY <1>1, <1>2, FencedHolds, PTL DEF Spec, ImplementsLifecycle, Lifecycle!Spec

----------------------------------------------------------------------------
(***************************************************************************)
(* What a step of the life cycle, and hence of AsyncJobs, never does.      *)
(***************************************************************************)
\* One step, as each of the tasks sees it.
LEMMA LifecycleStep ==
  ASSUME Fenced, [Next]_vars, NEW t \in Task
  PROVE  LET s == tasks[t].state
             r == tasks'[t].state
             n == tasks[t].tries
             m == tasks'[t].tries
         IN \/ s = r /\ n = m
            \/ s \in {"unknown", NewTask(t).state} /\ r = NewTask(t).state /\ m = 0
            \/ s \in Takeable /\ r = "active" /\ m = n /\ (TaskMaxTries[t] > 0 => n < TaskMaxTries[t])
            \/ s = "active" /\ r \in {"complete", "terminated", "retry", "expired"} /\ m = n + 1
            \/ s \in Takeable /\ r \in {"expired", "unreachable"} /\ m = n
            \/ s # "unknown" /\ r = "retry" /\ m = n
            \/ s \in {"new", "blocked", "retry"} /\ r = "queue_error" /\ m = n
            \/ r = "unknown" /\ m = 0
<1>. DEFINE S == [u \in Task |-> tasks[u].state]
            N == [u \in Task |-> tasks[u].tries]
<1>1. CASE UNCHANGED Lifecycle!vars
  <2>1. S' = S /\ N' = N
    BY <1>1 DEF Lifecycle!vars
  <2>2. S'[t] = S[t] /\ N'[t] = N[t]
    BY <2>1, SMTT(30)
  <2>. QED
    BY <2>2, Zenon
<1>2. CASE Lifecycle!Next
  <2>1. PICK u \in Task : \/ Lifecycle!Create(u) \/ Lifecycle!Claim(u) \/ Lifecycle!Finish(u)
                          \/ Lifecycle!GiveUp(u) \/ Lifecycle!Retry(u) \/ Lifecycle!QueueError(u)
                          \/ Lifecycle!Remove(u)
    BY <1>2, Zenon DEF Lifecycle!Next
  <2>2. ASSUME NEW s, NEW n, Becomes(u, s, n)
        PROVE  IF u = t THEN tasks'[t].state = s /\ tasks'[t].tries = n
               ELSE tasks'[t].state = tasks[t].state /\ tasks'[t].tries = tasks[t].tries
    <3>1. S' = [S EXCEPT ![u] = s] /\ N' = [N EXCEPT ![u] = n]
      BY <2>2 DEF Becomes
    <3>2. S'[t] = (IF u = t THEN s ELSE S[t]) /\ N'[t] = (IF u = t THEN n ELSE N[t])
      BY <3>1, Zenon
    <3>. QED
      BY <3>2
  <2>3. CASE Lifecycle!Create(u)
    BY <2>2, <2>3, ZenonT(30) DEF Becomes, Lifecycle!Become, Lifecycle!Create
  <2>4. CASE Lifecycle!Claim(u)
    BY <2>2, <2>4, ZenonT(30) DEF Becomes, Lifecycle!Become, Lifecycle!Claim, Takeable
  <2>5. CASE Lifecycle!Finish(u)
    BY <2>2, <2>5, ZenonT(30) DEF Becomes, Lifecycle!Become, Lifecycle!Finish
  <2>6. CASE Lifecycle!GiveUp(u)
    BY <2>2, <2>6, ZenonT(30) DEF Becomes, Lifecycle!Become, Lifecycle!GiveUp, Takeable
  <2>7. CASE Lifecycle!Retry(u) \/ Lifecycle!QueueError(u) \/ Lifecycle!Remove(u)
    BY <2>2, <2>7, ZenonT(30) DEF Becomes, Lifecycle!Become, Lifecycle!Retry, Lifecycle!QueueError, Lifecycle!Remove
  <2>. QED
    BY <2>1, <2>3, <2>4, <2>5, <2>6, <2>7, Zenon
<1>. QED
  BY <1>1, <1>2, StepLifecycle, ZenonT(30)

\* A worker, a creator or a client that still holds an older copy of a task
\* that completed, expired or became unreachable never overwrites the outcome.
THEOREM OutcomesAreFinal == Spec => FinalUnlessRetried
<1>1. Fenced /\ [Next]_vars =>
        [\A t \in Task : tasks[t].state \in {"complete", "expired", "unreachable"} =>
           tasks'[t].state \in {tasks[t].state, "retry", "unknown"}]_vars
  <2>. SUFFICES ASSUME Fenced, [Next]_vars, NEW t \in Task,
                       tasks[t].state \in {"complete", "expired", "unreachable"}
                PROVE  tasks'[t].state \in {tasks[t].state, "retry", "unknown"}
    OBVIOUS
  <2>1. NewTask(t).state \in {"new", "blocked"}
    BY DEF NewTask
  <2>. QED
    BY <2>1, LifecycleStep, ZenonT(30) DEF Takeable
<1>. QED
  BY <1>1, FencedHolds, PTL DEF Spec, FinalUnlessRetried

\* A task that was deleted or discarded comes back only as a new task.
THEOREM DeletionIsFinal == Spec => NotResurrected
<1>1. Fenced /\ [Next]_vars =>
        [\A t \in Task : ~Exists(t) => tasks'[t].state \in {"unknown", NewTask(t).state}]_vars
  <2>. SUFFICES ASSUME Fenced, [Next]_vars, NEW t \in Task, ~Exists(t)
                PROVE  tasks'[t].state \in {"unknown", NewTask(t).state}
    BY Zenon
  <2>1. tasks[t].state = "unknown"
    BY DEF Fenced, StoreFence, Exists
  <2>. QED
    BY <2>1, LifecycleStep, Zenon DEF Takeable
<1>. QED
  BY <1>1, FencedHolds, PTL DEF Spec, NotResurrected

\* TriesBounded is not inductive alone: a try is counted after the check that
\* allowed it, so an active task must have one left.
TryLeft ==
  \A t \in Task : TaskMaxTries[t] > 0 =>
    /\ tasks[t].tries <= TaskMaxTries[t]
    /\ tasks[t].state = "active" => tasks[t].tries < TaskMaxTries[t]

\* The tries a task records never exceed its MaxTries.
THEOREM TriesAreBounded == Spec => []TriesBounded
<1>1. Init => TryLeft
  <2>. SUFFICES ASSUME Init, NEW t \in Task
                PROVE  tasks[t].tries <= TaskMaxTries[t] /\ tasks[t].state # "active"
    BY Zenon DEF TryLeft
  <2>1. tasks[t].tries = 0 /\ tasks[t].state = "unknown" /\ TaskMaxTries[t] \in Nat
    BY JobsAssumption DEF Init, StoreInit, NoRecord
  <2>. QED
    BY <2>1
<1>2. Fenced /\ TryLeft /\ [Next]_vars => TryLeft'
  <2>. SUFFICES ASSUME Fenced, TryLeft, [Next]_vars, NEW t \in Task, TaskMaxTries[t] > 0
                PROVE  /\ tasks'[t].tries <= TaskMaxTries[t]
                       /\ tasks'[t].state = "active" => tasks'[t].tries < TaskMaxTries[t]
    BY Zenon DEF TryLeft
  <2>1. TaskMaxTries[t] \in Nat /\ tasks[t].tries \in Nat
    BY JobsAssumption, ZenonT(30) DEF Fenced, TypeOK, StoreTypeOK, Record
  <2>2. NewTask(t).state \in {"new", "blocked"}
    BY DEF NewTask
  <2>. QED
    <3>1. /\ tasks[t].tries <= TaskMaxTries[t]
          /\ tasks[t].state = "active" => tasks[t].tries + 1 <= TaskMaxTries[t]
          /\ tasks[t].state = "active" => tasks[t].tries < TaskMaxTries[t]
      BY <2>1, Numbers, Zenon DEF TryLeft
    <3>2. 0 <= TaskMaxTries[t]
      BY <2>1
    <3>. QED
      BY <2>2, <3>1, <3>2, LifecycleStep, ZenonT(30)
<1>3. TryLeft => TriesBounded
  BY DEF TryLeft, TriesBounded
<1>. QED
  BY <1>1, <1>2, <1>3, FencedHolds, PTL DEF Spec

----------------------------------------------------------------------------
(***************************************************************************)
(* A terminated task.                                                      *)
(***************************************************************************)
\* A goroutine about to answer the queue stays there until it does.
LEMMA FinishStays ==
  ASSUME Fenced, [Next]_vars, NEW q \in Proc, NEW j \in Slot, handler[q][j].pc = "finish"
  PROVE  handler'[q][j] = handler[q][j] \/ FinishItem(q, j) \/ Crash(q)
<1>0. handler \in [Proc -> [Slot -> Handler]]
  BY DEF Fenced, TypeOK, ProcessorTypeOK
<1>1. ASSUME NEW p \in Proc, LoopNext(p) PROVE handler'[q][j] = handler[q][j]
  <2>1. CASE SetTaskActive(p) /\ handler' # handler
    <3>1. PICK i, h : i \in Slot \ Busy(p) /\ handler' = [handler EXCEPT ![p][i] = h]
      BY <2>1, Zenon DEF SetTaskActive
    <3>. QED
      BY <1>0, <3>1, ZenonT(30) DEF Busy
  <2>. QED
    BY <1>1, <2>1, ZenonT(30) DEF LoopNext, TakeToken, PollItem, LoadTask, LoadDependency, TerminateFailed,
       NakBlocked, RemoveUseless, SaveTask, FindDiscarded, DiscardTask
<1>2. ASSUME NEW p \in Proc, NEW i \in Slot, HandlerNext(p, i)
      PROVE  handler'[q][j] = handler[q][j] \/ FinishItem(q, j)
  <2>1. CASE <<p, i>> = <<q, j>>
    BY <1>2, <2>1, Zenon DEF HandlerNext, HandlerReturns, SaveResult, FindResult, DiscardResult
  <2>. QED
    BY <1>2, <2>1, HandlerMoves, Zenon
<1>3. ASSUME NEW p \in Proc, Crash(p) PROVE p = q \/ handler'[q][j] = handler[q][j]
  BY <1>0, <1>3 DEF Crash
<1>. QED
  BY <1>1, <1>2, <1>3, ZenonT(30) DEF Next, PollReplyLost, LeaseTimeout, RunTimeout, Deadline, ForgetMsgId, vars,
     procVars

\* A task whose item was published gets no other.
LEMMA NoNewItem ==
  ASSUME Fenced, Exclusive, [Next]_vars, NEW t \in Task, lastItem[t] > 0, HasItem(t)'
  PROVE  HasItem(t)
<1>0. QueueTypeOK /\ \A u \in Task : LeaseFence(u)
  BY Zenon DEF Fenced, TypeOK, Exclusive
<1>1. ASSUME NEW u \in Task, Deliver(u) PROVE HasItem(t)
  BY <1>0, <1>1 DEF Deliver, Deliverable, HasItem, QueueTypeOK, Item
<1>2. ASSUME NEW u \in Task,
             LeaseExpires(u) \/ \E seq \in Nat : RemoveItem(u, seq) \/ ReleaseItem(u, seq)
      PROVE  HasItem(t)
  BY <1>0, <1>2, SMTT(30) DEF LeaseExpires, RemoveItem, ReleaseItem, NoItem, HasItem, QueueTypeOK, Item, queueVars
<1>3. ASSUME NEW u \in Task, NEW withId \in BOOLEAN, StoreItem(u, withId), PublishEnqueued(u)
      PROVE  HasItem(t)
  <2>1. u # t
    BY <1>0, <1>3 DEF PublishEnqueued, LeaseFence
  <2>. QED
    BY <1>0, <1>3, <2>1, ZenonT(30) DEF StoreItem, HasItem, QueueTypeOK
<1>4. \A c \in Client : ~PublishRetried(c)
  BY Zenon DEF PublishRetried, Exclusive
<1>5. ~Purge
  <2>. SUFFICES ASSUME Purge PROVE FALSE
    BY Zenon
  <2>1. items'[t] = NoItem
    BY Zenon DEF Purge
  <2>2. NoItem.seq = 0
    BY DEF NoItem
  <2>. QED
    BY <2>1, <2>2, Zenon DEF HasItem
<1>. QED
  BY <1>1, <1>2, <1>3, <1>4, <1>5, QueueSteps, ZenonT(30) DEF HasItem

\* A handler records that its task is terminated, then removes the item, and
\* nobody is given the item in between.
LEMMA NextTerm ==
  ASSUME Recorded, Fenced, Exclusive, [Next]_vars, NEW t \in Task, TermFence(t)
  PROVE  TermFence(t)' /\ (tasks[t].state = "terminated" => tasks'[t].state # "active")
<1>0. /\ LeaseFence(t) /\ QueueTypeOK /\ lastItem[t] \in Nat
      /\ \A c \in Client : ~SaveRetried(c)
      /\ \A p \in Proc : ~Crash(p)
      /\ lastItem'[t] \in Nat /\ lastItem'[t] >= lastItem[t]
  BY ItemsGrow, Zenon DEF Exclusive, SaveRetried, Fenced, TypeOK, QueueTypeOK, Crash, Recorded
<1>1. CASE tasks[t].state # "terminated"
  <2>. SUFFICES ASSUME tasks'[t].state = "terminated" PROVE TermFence(t)'
    BY <1>1, Zenon DEF TermFence
  <2>1. PICK p \in Proc, i \in Slot :
          SaveResult(p, i) /\ HandlerOn(p, i, t) /\ handler[p][i].rec.state = "terminated"
    <3>1. SaveEnqueued(t) => creator[t].rec.state # "terminated"
      BY Zenon DEF Fenced, CreatorFence, NewTask
    <3>. QED
      BY <1>0, <1>1, <3>1, Writers, ZenonT(30)
  <2>2. loop' = loop /\ UNCHANGED queueVars /\ handler'[p][i].pc = "finish"
        /\ handler'[p][i].rec = handler[p][i].rec /\ handler'[p][i].task = t
    <3>1. HandlerNext(p, i) /\ loop' = loop /\ UNCHANGED queueVars
      BY <2>1 DEF HandlerNext, SaveResult
    <3>2. handler \in [Proc -> [Slot -> Handler]] /\ handler' = [handler EXCEPT ![p][i].pc = "finish"]
      BY <2>1 DEF Fenced, TypeOK, ProcessorTypeOK, SaveResult
    <3>. QED
      BY <2>1, <3>1, <3>2, SMTT(30) DEF Handler, HandlerOn
  <2>3. lastItem[t] > 0 /\ \A q \in Proc : ~LoopOn(q, t)
    BY <1>0, <2>1, ZenonT(30) DEF LeaseFence, Leased, Exclusive, OneWorker
  <2>4. \A q \in Proc : ~LoopOn(q, t)'
    BY <2>2, <2>3, ZenonT(30) DEF LoopOn
  <2>5. HandlerOn(p, i, t)' /\ handler'[p][i].rec.state = "terminated" /\ lastItem'[t] > 0
    BY <2>1, <2>2, <2>3, ZenonT(30) DEF HandlerOn, queueVars
  <2>. QED
    BY <2>2, <2>4, <2>5, Zenon DEF TermFence
<1>2. CASE tasks[t].state = "terminated"
  <2>1. lastItem[t] > 0 /\ \A p \in Proc : ~LoopOn(p, t)
    BY <1>2 DEF TermFence
  <2>2. ~\E p \in Proc : PollItem(p, t)
    <3>1. HasItem(t) => items[t].leased
      BY <1>0, <1>2, Zenon DEF TermFence, LeaseFence, Leased
    <3>. QED
      BY <3>1, Zenon DEF PollItem, Deliver, Deliverable
  <2>3. \A p \in Proc : ~LoopOn(p, t)'
    BY <2>1, <2>2, LoopTakesUp, ZenonT(30)
  <2>4. lastItem'[t] > 0
    BY <1>0, <2>1, SMTT(30)
  <2>5. ASSUME HasItem(t)'
        PROVE  \E p \in Proc : \E i \in Slot : /\ HandlerOn(p, i, t)' /\ handler'[p][i].pc = "finish"
                                              /\ handler'[p][i].rec.state = "terminated"
    <3>1. HasItem(t)
      BY <2>1, <2>5, NoNewItem, ZenonT(30)
    <3>2. PICK p \in Proc, i \in Slot : /\ HandlerOn(p, i, t) /\ handler[p][i].pc = "finish"
                                       /\ handler[p][i].rec.state = "terminated"
      BY <1>2, <3>1 DEF TermFence
    <3>3. items[t].seq = handler[p][i].item
      BY <1>0, <3>1, <3>2, Zenon DEF LeaseFence, Leased
    <3>4. ~FinishItem(p, i)
      <4>1. RemoveItem(t, handler[p][i].item) => ~HasItem(t)'
        BY <1>0, <3>3 DEF RemoveItem, NoItem, HasItem, Recorded, QueueTypeOK
      <4>. QED
        BY <2>5, <3>2, <4>1, ZenonT(30) DEF FinishItem, HandlerOn
    <3>5. handler'[p][i] = handler[p][i]
      BY <1>0, <3>2, <3>4, FinishStays, Zenon
    <3>. QED
      BY <3>2, <3>5, ZenonT(30) DEF HandlerOn
  <2>6. tasks'[t].state # "active"
    <3>1. ASSUME NEW p \in Proc, NEW i \in Slot, SaveResult(p, i) PROVE handler[p][i].rec.state # "active"
      BY <3>1, ZenonT(30) DEF SaveResult, Fenced, HandlerFence, Outcome, ErrorState
    <3>2. SaveEnqueued(t) => creator[t].rec.state # "active"
      BY Zenon DEF Fenced, CreatorFence, NewTask
    <3>. QED
      BY <1>0, <1>2, <2>1, <3>1, <3>2, Writers, ZenonT(30)
  <2>. QED
    BY <2>3, <2>4, <2>5, <2>6, ZenonT(30) DEF TermFence
<1>. QED
  BY <1>1, <1>2

\* A task that a handler terminated is not taken up again: its item is removed
\* before another worker is given it.
THEOREM TerminatedIsFinal ==
  ASSUME Recorded
  PROVE  Spec => TerminatedNotRun
<1>. DEFINE Term == \A t \in Task : TermFence(t)
            NotRun == \A t \in Task : tasks[t].state = "terminated" => tasks'[t].state # "active"
<1>1. Undisturbed
  BY DEF Recorded
<1>2. Fenced /\ Exclusive /\ [Next]_vars => Exclusive'
  BY <1>1, NextExclusive, ZenonT(30)
<1>3. Init => Term
  BY DEF Init, StoreInit, NoRecord, TermFence
<1>4. Fenced /\ Exclusive /\ Term /\ [Next]_vars => Term' /\ [NotRun]_vars
  BY NextTerm, Zenon
<1>. QED
  BY <1>2, <1>3, <1>4, InitExclusive, FencedHolds, PTL DEF Spec, TerminatedNotRun

----------------------------------------------------------------------------
(***************************************************************************)
(* The runs of a task.                                                     *)
(***************************************************************************)
\* No run is counted in a step that starts no handler.
LEMMA NoStart ==
  ASSUME Counts, runs \in [Task -> Nat],
         \A p \in Proc : \A i \in Slot : handler'[p][i].pc = "run" => handler[p][i].pc = "run"
  PROVE  runs' = runs
<1>1. \A t \in Task : ~Starts(t)
  BY ZenonT(30) DEF Starts
<1>. QED
  BY <1>1 DEF Counts

\* A task that is gone has nothing to record.
LEMMA GoneRuns ==
  ASSUME NEW t \in Task, RunsFence(t), runs'[t] = runs[t], tasks'[t].seq = 0,
         lastItem'[t] = 0 => lastItem[t] = 0
  PROVE  RunsFence(t)'
  BY DEF RunsFence, Exists

\* What another thread does to another task does not matter to t.
LEMMA SameRuns ==
  ASSUME NEW t \in Task, RunsFence(t), runs'[t] = runs[t], tasks'[t] = tasks[t],
         lastItem'[t] = 0 => lastItem[t] = 0,
         \A p \in Proc : \A i \in Slot :
           /\ Recording(p, i, t)' <=> Recording(p, i, t)
           /\ Recording(p, i, t)' => handler'[p][i].rec.seq \in {handler[p][i].rec.seq, tasks[t].seq}
  PROVE  RunsFence(t)'
<1>1. Unsaved(t)' <=> Unsaved(t)
  BY Zenon DEF Unsaved
<1>2. Exists(t)' <=> Exists(t)
  BY DEF Exists
<1>3. Exists(t) => \A p \in Proc : \A i \in Slot : Recording(p, i, t)' =>
        handler'[p][i].rec.seq = tasks'[t].seq /\ tasks'[t].state = "active"
  BY ZenonT(30) DEF RunsFence
<1>4. Exists(t) => runs'[t] = tasks'[t].tries + (IF Unsaved(t)' THEN 1 ELSE 0)
  <2>1. (IF Unsaved(t)' THEN 1 ELSE 0) = (IF Unsaved(t) THEN 1 ELSE 0)
    BY <1>1, Zenon
  <2>2. Exists(t) => runs[t] = tasks[t].tries + (IF Unsaved(t) THEN 1 ELSE 0)
    BY Zenon DEF RunsFence
  <2>. QED
    BY <2>1, <2>2, Zenon
<1>5. (lastItem'[t] = 0 => runs'[t] = 0) /\ (TaskMaxTries[t] > 0 => runs'[t] <= TaskMaxTries[t])
  BY Zenon DEF RunsFence
<1>. QED
  BY <1>2, <1>3, <1>4, <1>5, Zenon DEF RunsFence

\* A save by the only thread on t, or by its creator before there was one.
LEMMA SavedRuns ==
  ASSUME NEW t \in Task, RunsFence(t), Exists(t) \/ lastItem[t] = 0, runs'[t] = runs[t],
         lastItem'[t] = lastItem[t], ~Unsaved(t)', tasks'[t].tries \in Nat,
         IF Exists(t) THEN tasks'[t].tries = tasks[t].tries + (IF Unsaved(t) THEN 1 ELSE 0)
         ELSE tasks'[t].tries = 0
  PROVE  RunsFence(t)'
<1>1. \A p \in Proc : \A i \in Slot : ~Recording(p, i, t)'
  BY Zenon DEF Unsaved
<1>2. runs'[t] = tasks'[t].tries + (IF Unsaved(t)' THEN 1 ELSE 0)
  BY DEF RunsFence
<1>. QED
  BY <1>1, <1>2 DEF RunsFence, Exists

\* A task has one worker, so a loop that works on t has it to itself.
LEMMA LoopAlone ==
  ASSUME Exclusive, NEW t \in Task, NEW p \in Proc, LoopOn(p, t)
  PROVE  ~Unsaved(t) /\ lastItem[t] > 0
  BY Zenon DEF Exclusive, OneWorker, Unsaved, Recording, LeaseFence, Leased

LEMMA LoopNextRuns ==
  ASSUME Recorded, Fenced, Exclusive, RunsFenced, NEW p \in Proc, LoopNext(p), Counts
  PROVE  RunsFenced'
<1>0. /\ loop \in [Proc -> Loop] /\ handler \in [Proc -> [Slot -> Handler]]
      /\ StoreTypeOK /\ QueueTypeOK /\ LoopFence(p) /\ runs \in [Task -> Nat]
      /\ \A t \in Task : RunsFence(t) /\ StoreFence(t)
  BY DEF Fenced, TypeOK, ProcessorTypeOK, RunsFenced
<1>1. lastItem' = lastItem
  BY Zenon DEF LoopNext, TakeToken, PollItem, Deliver, LoadTask, LoadDependency, TerminateFailed, RemoveItem,
     NakBlocked, ReleaseItem, RemoveUseless, SaveTask, FindDiscarded, DiscardTask, SetTaskActive,
     queueVars
<1>2. ASSUME handler' = handler,
             \A t \in Task : RunsFence(t)' \/ tasks'[t] = tasks[t] \/ tasks'[t].seq = 0
      PROVE  RunsFenced'
  <2>1. runs' = runs
    BY <1>0, <1>2, NoStart, ZenonT(30)
  <2>2. \A t \in Task : \A q \in Proc : \A i \in Slot :
          /\ Recording(q, i, t)' <=> Recording(q, i, t)
          /\ handler'[q][i].rec.seq = handler[q][i].rec.seq
    BY <1>2, ZenonT(30) DEF Recording, HandlerOn
  <2>3. ASSUME NEW t \in Task PROVE RunsFence(t)'
    <3>1. RunsFence(t) /\ runs'[t] = runs[t] /\ lastItem'[t] = lastItem[t]
      BY <1>0, <1>1, <2>1, ZenonT(30)
    <3>2. CASE tasks'[t] = tasks[t]
      BY <2>2, <3>1, <3>2, SameRuns, ZenonT(30)
    <3>3. CASE tasks'[t].seq = 0
      BY <3>1, <3>3, GoneRuns, ZenonT(30)
    <3>. QED
      BY <1>2, <3>2, <3>3, ZenonT(30)
  <2>. QED
    BY <1>0, <2>1, <2>3, ZenonT(30) DEF RunsFenced
<1>3. CASE SaveTask(p)
  <2>1. PICK t \in Task : t = loop[p].task
    BY <1>0, <1>3, Zenon DEF SaveTask, LoopFence
  <2>. DEFINE r == loop[p].rec
  <2>2. LoopOn(p, t) /\ r \in Record /\ handler' = handler
    BY <1>0, <1>3, <2>1, ZenonT(30) DEF SaveTask, LoopOn, Loop
  <2>3. PICK ok \in BOOLEAN : SaveTaskState(t, r, ok)
    BY <1>3, <2>1, ZenonT(30) DEF SaveTask
  <2>4. CASE UNCHANGED storeVars
    BY <1>2, <2>2, <2>4, ZenonT(30) DEF storeVars
  <2>5. CASE Accept(t, r)
    <3>1. /\ \A u \in Task : u # t => tasks'[u] = tasks[u]
          /\ tasks'[t].tries = r.tries
      BY <1>0, <2>2, <2>5, ZenonT(30) DEF Accept, StoreTypeOK, Record
    <3>2. Exists(t) /\ tasks[t].tries = r.tries
      BY <1>0, <1>3, <2>1, <2>5, SMTT(30) DEF Accept, LoopFence, SaveTask, Exists
    <3>3. ~Unsaved(t) /\ ~Unsaved(t)'
      BY <2>2, LoopAlone, ZenonT(30) DEF Unsaved, Recording, HandlerOn
    <3>4. runs' = runs
      BY <1>0, <2>2, NoStart, ZenonT(30)
    <3>5. tasks[t].tries \in Nat /\ RunsFence(t) /\ lastItem'[t] = lastItem[t] /\ runs'[t] = runs[t]
      BY <1>0, <1>1, <3>4, ZenonT(30) DEF StoreTypeOK, Record
    <3>6. RunsFence(t)'
      BY <3>1, <3>2, <3>3, <3>5, SavedRuns, SMTT(30)
    <3>. QED
      BY <1>2, <2>1, <2>2, <3>1, <3>6, ZenonT(30)
  <2>. QED
    BY <2>3, <2>4, <2>5, ZenonT(30) DEF SaveTaskState
<1>4. CASE DiscardTask(p)
  <2>1. loop[p].task \in Task /\ handler' = handler /\ DeleteMessage(loop[p].task, loop[p].rec.seq)
    BY <1>0, <1>4, Zenon DEF DiscardTask, LoopFence
  <2>2. /\ \A t \in Task : t # loop[p].task => tasks'[t] = tasks[t]
        /\ tasks'[loop[p].task] = tasks[loop[p].task] \/ tasks'[loop[p].task].seq = 0
    BY <1>0, <2>1, SMTT(30) DEF DeleteMessage, NoRecord, StoreTypeOK, storeVars
  <2>. QED
    BY <1>2, <2>1, <2>2, Zenon
<1>5. CASE SetTaskActive(p)
  <2>1. PICK t \in Task : t = loop[p].task
    BY <1>0, <1>5, ZenonT(30) DEF SetTaskActive, LoopFence
  <2>. DEFINE r == [loop[p].rec EXCEPT !.state = "active"]
  <2>2. LoopOn(p, t) /\ loop[p].rec \in Record
    BY <1>0, <1>5, <2>1, ZenonT(30) DEF SetTaskActive, LoopOn, Loop
  <2>3. r \in Record /\ r.seq = loop[p].rec.seq /\ r.tries = loop[p].rec.tries /\ r.state = "active"
    BY <2>2 DEF Record, TaskState
  <2>4. ~Unsaved(t) /\ lastItem[t] > 0
    BY <2>2, LoopAlone, ZenonT(30)
  <2>5. \/ /\ SaveTaskState(t, r, TRUE)
           /\ \E i \in Slot \ Busy(p) :
                handler' = [handler EXCEPT ![p][i] =
                  [pc |-> "run", task |-> t, item |-> loop[p].item,
                   rec |-> [tasks'[t] EXCEPT !.tries = @ + 1]]]
        \/ SaveTaskState(t, r, FALSE) /\ handler' = handler
    BY <1>5, <2>1, Zenon DEF SetTaskActive
  <2>. HIDE DEF r
  <2>6. ASSUME Accept(t, r)
        PROVE  /\ \A u \in Task : u # t => tasks'[u] = tasks[u]
               /\ tasks'[t] \in Record /\ tasks'[t].tries = tasks[t].tries /\ tasks'[t].state = "active"
               /\ tasks[t].tries \in Nat /\ Exists(t)
               /\ TaskMaxTries[t] > 0 => tasks[t].tries < TaskMaxTries[t]
    <3>1. r.tries = tasks[t].tries /\ Exists(t)
          /\ (TaskMaxTries[t] > 0 => tasks[t].tries < TaskMaxTries[t])
      BY <1>0, <1>5, <2>1, <2>3, <2>6, SMTT(30) DEF Accept, LoopFence, SetTaskActive, Exists
    <3>. QED
      BY <1>0, <2>3, <2>6, <3>1, SMTT(30) DEF Accept, StoreTypeOK, Record
  <2>7. CASE SaveTaskState(t, r, FALSE) /\ handler' = handler
    <3>1. CASE UNCHANGED storeVars
      BY <1>2, <2>7, <3>1, ZenonT(30) DEF storeVars
    <3>2. CASE Accept(t, r)
      <4>1. runs' = runs
        BY <1>0, <2>7, NoStart, ZenonT(30)
      <4>2. ~Unsaved(t)'
        BY <2>4, <2>7, ZenonT(30) DEF Unsaved, Recording, HandlerOn
      <4>3. RunsFence(t) /\ lastItem'[t] = lastItem[t] /\ runs'[t] = runs[t]
        BY <1>0, <1>1, <4>1, ZenonT(30)
      <4>4. RunsFence(t)'
        BY <2>4, <2>6, <3>2, <4>2, <4>3, SavedRuns, SMTT(30)
      <4>. QED
        BY <1>2, <2>1, <2>6, <2>7, <3>2, <4>4, ZenonT(30)
    <3>. QED
      BY <2>7, <3>1, <3>2, ZenonT(30) DEF SaveTaskState
  <2>8. ASSUME NEW i \in Slot \ Busy(p), SaveTaskState(t, r, TRUE),
               handler' = [handler EXCEPT ![p][i] =
                  [pc |-> "run", task |-> t, item |-> loop[p].item,
                   rec |-> [tasks'[t] EXCEPT !.tries = @ + 1]]]
        PROVE  RunsFenced'
    <3>1. Accept(t, r)
      BY <2>8 DEF SaveTaskState
    <3>2. /\ handler[p][i].pc = "free" /\ handler'[p][i].pc = "run" /\ handler'[p][i].task = t
          /\ \A q \in Proc : \A j \in Slot : <<q, j>> # <<p, i>> => handler'[q][j] = handler[q][j]
      BY <1>0, <2>8, ZenonT(30) DEF Busy
    <3>3. handler'[p][i].rec.seq = tasks'[t].seq
      <4>. DEFINE g == [tasks'[t] EXCEPT !.tries = @ + 1]
      <4>1. g.seq = tasks'[t].seq
        BY <2>6, <3>1, ZenonT(30) DEF Record
      <4>2. handler'[p][i].rec = g
        BY <1>0, <2>8, ZenonT(30)
      <4>. QED
        BY <4>1, <4>2, ZenonT(30)
    <3>4. \A u \in Task : Starts(u) <=> u = t
      BY <3>2, ZenonT(30) DEF Starts
    <3>5. runs' \in [Task -> Nat] /\ runs'[t] = runs[t] + 1
          /\ \A u \in Task : u # t => runs'[u] = runs[u]
      BY <1>0, <3>4 DEF Counts
    <3>6. ASSUME NEW u \in Task, u # t PROVE RunsFence(u)'
      <4>1. \A q \in Proc : \A j \in Slot :
              /\ Recording(q, j, u)' <=> Recording(q, j, u)
              /\ Recording(q, j, u)' => handler'[q][j].rec.seq = handler[q][j].rec.seq
        BY <3>2, <3>6, ZenonT(30) DEF Recording, HandlerOn
      <4>. QED
        BY <1>0, <1>1, <2>6, <3>1, <3>5, <3>6, <4>1, SameRuns, ZenonT(30)
    <3>7. \A q \in Proc : \A j \in Slot : Recording(q, j, t)' <=> q = p /\ j = i
      BY <2>4, <3>2 DEF Unsaved, Recording, HandlerOn
    <3>8. Unsaved(t)'
      BY <3>7, ZenonT(30) DEF Unsaved
    <3>9. runs[t] = tasks[t].tries /\ TaskMaxTries[t] \in Nat
      BY <1>0, <2>4, <2>6, <3>1, JobsAssumption, SMTT(30) DEF RunsFence
    <3>10. RunsFence(t)'
      BY <1>1, <2>4, <2>6, <3>1, <3>3, <3>5, <3>7, <3>8, <3>9, SMTT(30) DEF RunsFence
    <3>. QED
      BY <3>5, <3>6, <3>10, ZenonT(30) DEF RunsFenced
  <2>. QED
    BY <2>5, <2>7, <2>8, Zenon
<1>6. CASE ~(SaveTask(p) \/ DiscardTask(p) \/ SetTaskActive(p))
  <2>1. handler' = handler /\ tasks' = tasks
    BY <1>6, Zenon DEF LoopNext, TakeToken, PollItem, LoadTask, LoadDependency, TerminateFailed,
       NakBlocked, RemoveUseless, FindDiscarded, storeVars
  <2>. QED
    BY <1>2, <2>1, ZenonT(30)
<1>. QED
  BY <1>3, <1>4, <1>5, <1>6, ZenonT(30)

LEMMA HandlerNextRuns ==
  ASSUME Recorded, Fenced, Exclusive, RunsFenced, NEW p \in Proc, NEW i \in Slot, HandlerNext(p, i), Counts
  PROVE  RunsFenced'
<1>0. /\ StoreTypeOK /\ QueueTypeOK /\ HandlerFence(p, i) /\ runs \in [Task -> Nat]
      /\ handler[p][i] \in Handler
      /\ \A u \in Task : RunsFence(u) /\ StoreFence(u)
  BY DEF Fenced, TypeOK, ProcessorTypeOK, RunsFenced
<1>1. PICK t \in Task : t = handler[p][i].task /\ HandlerOn(p, i, t)
  BY <1>0, Zenon DEF HandlerNext, HandlerReturns, SaveResult, FindResult, DiscardResult, FinishItem,
     HandlerFence, HandlerOn
<1>2. lastItem' = lastItem
  BY Zenon DEF HandlerNext, HandlerReturns, SaveResult, FindResult, DiscardResult, FinishItem, RemoveItem,
     ReleaseItem, queueVars
<1>3. /\ HandlerKeeps(p, i)
      /\ \A q \in Proc : \A j \in Slot : <<q, j>> # <<p, i>> => handler'[q][j] = handler[q][j]
  BY HandlerMoves
<1>4. handler'[p][i].pc # "run"
  BY HandlerPoints, Zenon
<1>5. runs' = runs
  BY <1>0, <1>3, <1>4, NoStart, ZenonT(30)
<1>6. \A q \in Proc : \A j \in Slot : <<q, j>> # <<p, i>> => ~Recording(q, j, t) /\ ~Recording(q, j, t)'
  BY <1>1, <1>3 DEF Exclusive, OneWorker, Recording, HandlerOn
<1>7. ASSUME NEW u \in Task, u # t, tasks'[u] = tasks[u] PROVE RunsFence(u)'
  <2>1. ~HandlerOn(p, i, u) /\ ~HandlerOn(p, i, u)'
    BY <1>1, <1>3, <1>7, ZenonT(30) DEF HandlerOn, HandlerKeeps
  <2>2. \A q \in Proc : \A j \in Slot :
          /\ Recording(q, j, u)' <=> Recording(q, j, u)
          /\ Recording(q, j, u)' => handler'[q][j].rec.seq = handler[q][j].rec.seq
    BY <1>3, <2>1 DEF Recording, HandlerOn
  <2>3. RunsFence(u) /\ runs'[u] = runs[u] /\ lastItem'[u] = lastItem[u]
    BY <1>0, <1>2, <1>5, ZenonT(30)
  <2>. QED
    BY <1>7, <2>2, <2>3, SameRuns, Zenon
<1>8. RunsFence(t) /\ runs'[t] = runs[t] /\ lastItem'[t] = lastItem[t]
  BY <1>0, <1>2, <1>5, ZenonT(30)
<1>9. ASSUME Recording(p, i, t)' <=> Recording(p, i, t), tasks'[t] = tasks[t],
             Recording(p, i, t)' => handler'[p][i].rec.seq \in {handler[p][i].rec.seq, tasks[t].seq}
      PROVE  RunsFence(t)'
  BY <1>6, <1>8, <1>9, SameRuns, Zenon
<1>10. \A u \in Task : u # t => tasks'[u] = tasks[u]
  <2>1. ASSUME NEW r, NEW ok, SaveTaskState(t, r, ok) PROVE \A u \in Task : u # t => tasks'[u] = tasks[u]
    BY <1>0, <2>1, ZenonT(30) DEF SaveTaskState, Accept, StoreTypeOK, storeVars
  <2>2. ASSUME NEW n, DeleteMessage(t, n) PROVE \A u \in Task : u # t => tasks'[u] = tasks[u]
    BY <1>0, <2>2 DEF DeleteMessage, StoreTypeOK, storeVars
  <2>. QED
    BY <1>1, <2>1, <2>2, Zenon DEF HandlerNext, HandlerReturns, SaveResult, FindResult, DiscardResult,
       FinishItem, storeVars
<1>11. ASSUME HandlerReturns(p, i) /\ handler'[p][i].pc = "save"
            /\ handler'[p][i].rec.seq = handler[p][i].rec.seq
       PROVE  RunsFence(t)'
  <2>1. handler[p][i].pc = "run" /\ tasks' = tasks
    BY <1>11 DEF HandlerReturns, storeVars
  <2>2. handler'[p][i].task = t
    BY <1>1, <1>3, <1>11, Zenon DEF HandlerKeeps
  <2>3. Recording(p, i, t) /\ Recording(p, i, t)'
    BY <1>1, <1>11, <2>1, <2>2, Zenon DEF Recording, HandlerOn
  <2>. QED
    BY <1>9, <1>11, <2>1, <2>3, ZenonT(30)
<1>12. ASSUME SaveResult(p, i) /\ handler'[p][i].pc = "finish"
       PROVE  RunsFence(t)'
  <2>. DEFINE r == handler[p][i].rec
  <2>1. PICK ok \in BOOLEAN : SaveTaskState(t, r, ok)
    BY <1>1, <1>12, ZenonT(30) DEF SaveResult
  <2>2. /\ r \in Record /\ r.seq \in 1..lastSeq[t]
        /\ r.seq = tasks[t].seq => r.tries = tasks[t].tries + 1
        /\ Recording(p, i, t)
    BY <1>0, <1>1, <1>12, ZenonT(30) DEF SaveResult, HandlerFence, Handler, Recording
  <2>3. ~Recording(p, i, t)'
    BY <1>12, SMTT(30) DEF Recording
  <2>4. ~Unsaved(t)' /\ Unsaved(t)
    BY <1>6, <2>2, <2>3, ZenonT(30) DEF Unsaved
  <2>5. CASE ~Exists(t)
    <3>1. tasks' = tasks
      BY <1>0, <2>1, <2>2, <2>5, SMTT(30) DEF SaveTaskState, Accept, Exists, StoreTypeOK, storeVars
    <3>. QED
      BY <1>8, <2>5, <3>1, GoneRuns, ZenonT(30) DEF Exists
  <2>6. CASE Exists(t)
    <3>1. r.seq = tasks[t].seq
      BY <1>8, <2>2, <2>6, Zenon DEF RunsFence
    <3>2. Accept(t, r)
      BY <2>1, <3>1, ZenonT(30) DEF SaveTaskState, Recorded
    <3>3. tasks'[t].tries = r.tries /\ r.tries \in Nat
      BY <1>0, <2>2, <3>2, ZenonT(30) DEF Accept, StoreTypeOK, Record
    <3>. QED
      BY <1>8, <2>2, <2>4, <2>6, <3>1, <3>3, SavedRuns, ZenonT(30)
  <2>. QED
    BY <2>5, <2>6, ZenonT(30)
<1>13. ASSUME DiscardResult(p, i)
       PROVE  RunsFence(t)'
  <2>1. DeleteMessage(t, handler[p][i].rec.seq) /\ Recording(p, i, t)
    BY <1>1, <1>13, ZenonT(30) DEF DiscardResult, Recording
  <2>2. tasks'[t].seq = 0
    BY <1>0, <1>8, <2>1, SMTT(30) DEF DeleteMessage, RunsFence, Exists, NoRecord, StoreTypeOK, Recorded, storeVars
  <2>. QED
    BY <1>8, <2>2, GoneRuns, ZenonT(30)
<1>14. ASSUME FindResult(p, i) /\ handler'[p][i].pc = "discard"
            /\ handler'[p][i].rec.seq = tasks[handler[p][i].task].seq
       PROVE  RunsFence(t)'
  <2>1. handler[p][i].pc = "save" /\ tasks' = tasks
    BY <1>14 DEF FindResult, storeVars
  <2>2. handler'[p][i].task = t
    BY <1>1, <1>3, <1>14, Zenon DEF HandlerKeeps
  <2>3. Recording(p, i, t) /\ Recording(p, i, t)'
    BY <1>1, <1>14, <2>1, <2>2, ZenonT(30) DEF Recording, HandlerOn
  <2>. QED
    BY <1>1, <1>9, <1>14, <2>1, <2>3, ZenonT(30)
<1>15. ASSUME FindResult(p, i) /\ (~Exists(handler[p][i].task) \/ "lostRequest" \in Faults)
       PROVE  RunsFence(t)'
  <2>1. tasks'[t].seq = 0
    BY <1>1, <1>15, ZenonT(30) DEF FindResult, Exists, Recorded, storeVars
  <2>. QED
    BY <1>8, <2>1, GoneRuns, ZenonT(30)
<1>16. ASSUME FinishItem(p, i) /\ handler'[p][i].pc = "free"
       PROVE  RunsFence(t)'
  <2>1. handler[p][i].pc = "finish" /\ tasks' = tasks
    BY <1>16, ZenonT(30) DEF FinishItem, storeVars
  <2>2. ~Recording(p, i, t) /\ ~Recording(p, i, t)'
    BY <1>16, <2>1, ZenonT(30) DEF Recording
  <2>. QED
    BY <1>9, <2>1, <2>2, ZenonT(30)
<1>17. RunsFence(t)'
  BY <1>11, <1>12, <1>13, <1>14, <1>15, <1>16, HandlerPoints, ZenonT(30)
<1>. QED
  BY <1>0, <1>5, <1>7, <1>10, <1>17, ZenonT(30) DEF RunsFenced

\* The creator saves the task before it has an item or, when it was not told
\* that the item was stored, before a worker took it up.
LEMMA CreatorNextRuns ==
  ASSUME Recorded, Fenced, Exclusive, RunsFenced, NEW t \in Task, CreatorNext(t), UNCHANGED procVars, Counts
  PROVE  RunsFenced'
<1>0. /\ StoreTypeOK /\ QueueTypeOK /\ CreatorFence(t) /\ runs \in [Task -> Nat] /\ LeaseFence(t)
      /\ creator[t] \in Creator /\ handler' = handler
      /\ \A u \in Task : RunsFence(u) /\ StoreFence(u)
  BY DEF Fenced, TypeOK, ClientTypeOK, RunsFenced, Exclusive, procVars
<1>1. runs' = runs
  BY <1>0, NoStart, ZenonT(30)
<1>2. \A u \in Task : lastItem'[u] = 0 => lastItem[u] = 0
  BY <1>0 DEF CreatorNext, EnqueueTask, SaveEnqueued, PublishEnqueued, PublishItem, StoreItem,
     CreatorCrash, QueueTypeOK, queueVars
<1>3. ASSUME NEW u \in Task, tasks'[u] = tasks[u] PROVE RunsFence(u)'
  <2>1. \A q \in Proc : \A j \in Slot :
          /\ Recording(q, j, u)' <=> Recording(q, j, u)
          /\ handler'[q][j].rec.seq = handler[q][j].rec.seq
    BY <1>0 DEF Recording, HandlerOn
  <2>2. RunsFence(u) /\ runs'[u] = runs[u] /\ (lastItem'[u] = 0 => lastItem[u] = 0)
    BY <1>0, <1>1, <1>2, ZenonT(30)
  <2>. QED
    BY <1>3, <2>1, <2>2, SameRuns, Zenon
<1>4. CASE ~SaveEnqueued(t)
  <2>1. tasks' = tasks
    BY <1>4 DEF CreatorNext, EnqueueTask, PublishEnqueued, CreatorCrash, storeVars
  <2>. QED
    BY <1>0, <1>1, <1>3, <2>1, ZenonT(30) DEF RunsFenced
<1>5. CASE SaveEnqueued(t)
  <2>. DEFINE r == creator[t].rec
  <2>1. PICK ok \in BOOLEAN : SaveTaskState(t, r, ok)
    BY <1>5 DEF SaveEnqueued
  <2>2. CASE UNCHANGED storeVars
    BY <1>0, <1>1, <1>3, <2>2, ZenonT(30) DEF RunsFenced, storeVars
  <2>3. CASE Accept(t, r)
    <3>1. /\ \A u \in Task : u # t => tasks'[u] = tasks[u]
          /\ tasks'[t].tries = 0 /\ tasks[t].tries = 0
      BY <1>0, <2>3, ZenonT(30) DEF Accept, StoreTypeOK, Record, CreatorFence, Creator
    <3>2. /\ ~Unsaved(t) /\ (Exists(t) \/ lastItem[t] = 0)
      <4>1. CASE creator[t].pc = "save"
        BY <1>0, <4>1 DEF LeaseFence, Leased, Unsaved, Recording
      <4>2. CASE creator[t].pc = "queueError"
        <5>1. Exists(t) /\ tasks[t].state # "active"
          BY <1>0, <2>3, <4>2, SMTT(30) DEF CreatorFence, Accept, Exists, NewTask
        <5>. QED
          BY <1>0, <5>1, ZenonT(30) DEF RunsFence, Unsaved
      <4>. QED
        BY <1>5, <4>1, <4>2, ZenonT(30) DEF SaveEnqueued
    <3>3. ~Unsaved(t)'
      BY <1>0, <3>2, Zenon DEF Unsaved, Recording, HandlerOn
    <3>4. RunsFence(t) /\ runs'[t] = runs[t] /\ lastItem'[t] = lastItem[t]
      BY <1>0, <1>1, <1>5, ZenonT(30) DEF SaveEnqueued, queueVars
    <3>5. RunsFence(t)'
      BY <3>1, <3>2, <3>3, <3>4, SavedRuns, SMTT(30)
    <3>. QED
      BY <1>0, <1>1, <1>3, <3>1, <3>5, ZenonT(30) DEF RunsFenced
  <2>. QED
    BY <2>1, <2>2, <2>3, ZenonT(30) DEF SaveTaskState
<1>. QED
  BY <1>4, <1>5, ZenonT(30)

LEMMA OtherRuns ==
  ASSUME Recorded, Fenced, Exclusive, RunsFenced, Counts,
         \/ \E p \in Proc : Crash(p) /\ UNCHANGED clientVars
         \/ \E t \in Task : PollReplyLost(t) /\ UNCHANGED clientVars
         \/ \E c \in Client : ClientNext(c) /\ UNCHANGED procVars
         \/ PurgeQueue /\ UNCHANGED procVars
         \/ \E t \in Task : LeaseTimeout(t) \/ RunTimeout(t) \/ Deadline(t) \/ ForgetMsgId(t)
  PROVE  RunsFenced'
<1>0. StoreTypeOK /\ runs \in [Task -> Nat] /\ \A u \in Task : RunsFence(u)
  BY ZenonT(30) DEF Fenced, TypeOK, RunsFenced
<1>1. handler' = handler
  BY DEF Crash, Recorded, PollReplyLost, LeaseTimeout, RunTimeout, Deadline, ForgetMsgId, procVars
<1>2. runs' = runs
  BY <1>0, <1>1, NoStart, ZenonT(30)
<1>3. lastItem' = lastItem /\ \A u \in Task : tasks'[u] = tasks[u] \/ tasks'[u].seq = 0
  <2>1. ASSUME NEW c \in Client, ClientNext(c)
        PROVE  lastItem' = lastItem /\ \A u \in Task : tasks'[u] = tasks[u] \/ tasks'[u].seq = 0
    <3>1. client[c].pc \in {"idle", "delete"}
      BY DEF Exclusive
    <3>2. UNCHANGED queueVars /\ (UNCHANGED storeVars \/ DeleteFound(c))
      BY <2>1, <3>1, ZenonT(30) DEF ClientNext, RetryTaskByID, DeleteTaskByID, SaveRetried, PublishRetried,
         DeleteFound, ClientCrash
    <3>3. DeleteFound(c) => \A u \in Task : tasks'[u] = tasks[u] \/ tasks'[u].seq = 0
      BY <1>0 DEF DeleteFound, DeleteMessage, NoRecord, StoreTypeOK, storeVars
    <3>. QED
      BY <3>2, <3>3, ZenonT(30) DEF queueVars, storeVars
  <2>2. ASSUME \/ \E p \in Proc : Crash(p)
               \/ PurgeQueue
               \/ \E t \in Task : PollReplyLost(t) \/ LeaseTimeout(t) \/ RunTimeout(t) \/ Deadline(t)
                                  \/ ForgetMsgId(t)
        PROVE  lastItem' = lastItem /\ tasks' = tasks
    BY <2>2, Zenon DEF Crash, PurgeQueue, Purge, PollReplyLost, Deliver, LeaseTimeout, LeaseExpires,
       RunTimeout, MaxRunTimePasses, Deadline, DeadlinePasses, ForgetMsgId, DuplicateWindowPasses,
       queueVars, storeVars
  <2>. QED
    BY <2>1, <2>2, ZenonT(30)
<1>4. ASSUME NEW u \in Task PROVE RunsFence(u)'
  <2>1. \A q \in Proc : \A j \in Slot :
          /\ Recording(q, j, u)' <=> Recording(q, j, u)
          /\ handler'[q][j].rec.seq = handler[q][j].rec.seq
    BY <1>1, Zenon DEF Recording, HandlerOn
  <2>2. RunsFence(u) /\ runs'[u] = runs[u] /\ lastItem'[u] = lastItem[u]
    BY <1>0, <1>2, <1>3, Zenon
  <2>. QED
    BY <1>3, <2>1, <2>2, SameRuns, GoneRuns, ZenonT(30)
<1>. QED
  BY <1>0, <1>2, <1>4, ZenonT(30) DEF RunsFenced

LEMMA NextRuns ==
  ASSUME Recorded, Fenced, Exclusive, RunsFenced, [HistoryNext]_historyVars
  PROVE  RunsFenced'
<1>1. CASE HistoryNext
  <2>1. Counts /\ Next
    BY <1>1 DEF HistoryNext, Counts
  <2>. QED
    BY <2>1, LoopNextRuns, HandlerNextRuns, CreatorNextRuns, OtherRuns, ZenonT(30) DEF Next
<1>2. CASE UNCHANGED historyVars
  <2>1. UNCHANGED <<runs, tasks, handler, lastItem>>
    BY <1>2, ZenonT(30) DEF historyVars, vars, storeVars, procVars, queueVars
  <2>2. \A u \in Task : Unsaved(u)' <=> Unsaved(u)
    BY <2>1, Zenon DEF Unsaved, Recording, HandlerOn
  <2>. QED
    BY <2>1, <2>2, Zenon DEF RunsFenced, RunsFence, Exists, Recording, HandlerOn
<1>. QED
  BY <1>1, <1>2, ZenonT(30)

LEMMA InitRuns == HistoryInit => RunsFenced
<1>. SUFFICES ASSUME HistoryInit PROVE RunsFenced
  OBVIOUS
<1>1. \A t \in Task : runs[t] = 0 /\ ~Exists(t)
  BY DEF HistoryInit, Init, StoreInit, NoRecord, Exists
<1>2. runs \in [Task -> Nat] /\ \A t \in Task : TaskMaxTries[t] \in Nat
  BY JobsAssumption DEF HistoryInit
<1>. QED
  BY <1>1, <1>2, SMTT(30) DEF RunsFenced, RunsFence

LEMMA RunsFencedHolds ==
  ASSUME Recorded
  PROVE  HistorySpec => []RunsFenced
<1>1. Undisturbed
  BY DEF Recorded
<1>2. Fenced /\ Exclusive /\ [Next]_vars => Exclusive'
  BY <1>1, NextExclusive, ZenonT(30)
<1>3. Fenced /\ Exclusive /\ RunsFenced /\ [HistoryNext]_historyVars => RunsFenced'
  BY NextRuns
<1>4. HistorySpec => [](Fenced /\ Exclusive)
  BY <1>2, InitExclusive, FencedHolds, HistoryIsSpec, PTL DEF Spec
<1>. QED
  BY <1>3, <1>4, InitRuns, PTL DEF HistorySpec

\* A task with MaxTries is never handed to a handler more often than that,
\* although the try is counted only when its outcome is saved: no worker can
\* start another run before.
THEOREM RunsAreBounded ==
  ASSUME Recorded
  PROVE  HistorySpec => []RunsBounded
<1>1. RunsFenced => RunsBounded
  BY DEF RunsFenced, RunsFence, RunsBounded
<1>. QED
  BY <1>1, RunsFencedHolds, PTL

\* Between runs the tries a task records are exactly the runs it had.
THEOREM TriesAreRuns ==
  ASSUME Recorded
  PROVE  HistorySpec => []TriesCountRuns
<1>1. Fenced /\ RunsFenced => TriesCountRuns
  <2>. SUFFICES ASSUME Fenced, RunsFenced, NEW t \in Task, Exists(t),
                       \A p \in Proc, i \in Slot : handler[p][i].task # t
                PROVE  tasks[t].tries = runs[t]
    BY DEF TriesCountRuns
  <2>1. ~Unsaved(t)
    BY ZenonT(30) DEF Unsaved, Recording, HandlerOn
  <2>2. tasks[t].tries \in Nat
    BY DEF Fenced, TypeOK, StoreTypeOK, Record
  <2>. QED
    BY <2>1, <2>2, SMTT(30) DEF RunsFenced, RunsFence
<1>. QED
  BY <1>1, RunsFencedHolds, HistoryIsSpec, FencedHolds, PTL

----------------------------------------------------------------------------
(***************************************************************************)
(* Dependencies.                                                           *)
(***************************************************************************)
Records == done' = done \cup {t \in Task : Succeeds(t)}

\* What was cleared stays cleared.
LEMMA StaysCleared ==
  ASSUME Records, NEW t, Cleared(t)
  PROVE  Cleared(t)'
  BY Zenon DEF Records, Cleared, Parents

LEMMA NoParents ==
  ASSUME NEW t \in Task, ~HasDependencies(t)
  PROVE  Cleared(t)
<1>1. Len(Dependencies[t]) \in Nat
  BY JobsAssumption
<1>. QED
  BY <1>1 DEF HasDependencies, Cleared, Parents

\* A loop that did not move, or that goes where nothing is asked of it.
LEMMA LoopStaysCleared ==
  ASSUME Fenced, [Next]_vars, Records, NEW p \in Proc, LoopCleared(p), LoopFence(p),
         \/ loop'[p] = loop[p]
         \/ loop'[p] = Waiting
         \/ /\ loop[p].pc \notin {"limiter", "poll"} /\ loop'[p].task = loop[p].task
            /\ loop'[p].pc \notin {"limiter", "poll", "load", "deps", "activate"}
  PROVE  LoopCleared(p)'
<1>1. loop[p].pc \notin {"limiter", "poll"} => lastItem'[loop[p].task] > 0
  <2>1. CASE loop[p].pc \notin {"limiter", "poll"}
    <3>1. PICK t \in Task : t = loop[p].task
      BY <2>1, Zenon DEF LoopFence
    <3>2. lastItem[t] \in Nat /\ lastItem[t] > 0
      BY <2>1, <3>1, Zenon DEF LoopCleared, Fenced, TypeOK, QueueTypeOK
    <3>. QED
      BY <3>1, <3>2, ItemsGrow, SMTT(30)
  <2>. QED
    BY <2>1, ZenonT(30)
<1>2. CASE loop'[p] = loop[p]
  <2>1. loop[p].pc = "activate" => Cleared(loop[p].task)'
    BY <1>2, ZenonT(30) DEF LoopCleared, Cleared, Parents, Records
  <2>2. done \subseteq done'
    BY DEF Records
  <2>. QED
    BY <1>1, <1>2, <2>1, <2>2, ZenonT(30) DEF LoopCleared
<1>3. CASE loop'[p] = Waiting
  <2>1. loop'[p].pc = "limiter" /\ loop'[p].ready = TRUE
    BY <1>3 DEF Waiting
  <2>. QED
    BY <2>1, Zenon DEF LoopCleared
<1>4. CASE /\ loop[p].pc \notin {"limiter", "poll"} /\ loop'[p].task = loop[p].task
           /\ loop'[p].pc \notin {"limiter", "poll", "load", "deps", "activate"}
  BY <1>1, <1>4, Zenon DEF LoopCleared
<1>. QED
  BY <1>2, <1>3, <1>4, ZenonT(30)

LEMMA LoadTaskCleared ==
  ASSUME Fenced, [Next]_vars, Records, AllCleared, NEW p \in Proc, LoadTask(p)
  PROVE  LoopCleared(p)'
<1>0. /\ loop \in [Proc -> Loop] /\ StoreTypeOK /\ LoopFence(p) /\ LoopCleared(p)
      /\ loop[p].pc = "load" /\ lastItem' = lastItem
  BY Zenon DEF Fenced, TypeOK, ProcessorTypeOK, AllCleared, LoadTask, queueVars
<1>1. PICK t \in Task : t = loop[p].task
  BY <1>0, Zenon DEF LoopFence
<1>. DEFINE r == tasks[t]
            expire == IsPastDeadline(t) \/ ExceedsMaxTries(t, r)
            deps == r.state = "blocked" /\ HasDependencies(t)
            rec == IF expire THEN [r EXCEPT !.state = "expired"] ELSE r
            pc == CASE expire -> "save"
                    [] ~expire /\ deps -> "deps"
                    [] OTHER -> "activate"
            dep == IF ~expire /\ deps THEN 1 ELSE 0
            l == [loop[p] EXCEPT !.rec = rec, !.pc = pc, !.dep = dep]
<1>2. ASSUME NEW to, Goto(p, to), to \notin {"limiter", "poll", "load", "deps", "activate"}
      PROVE  LoopCleared(p)'
  <2>1. loop'[p].pc = to /\ loop'[p].task = loop[p].task
    BY <1>0, <1>2, ZenonT(30) DEF Goto, Loop
  <2>. QED
    BY <1>0, <1>2, <2>1, LoopStaysCleared, Zenon
<1>3. CASE EndMessage(p)
  <2>1. loop'[p] = Waiting
    BY <1>0, <1>3, ZenonT(30) DEF EndMessage
  <2>. QED
    BY <1>0, <2>1, LoopStaysCleared, ZenonT(30)
<1>4. CASE Exists(t) /\ r.state \notin AckStates /\ loop' = [loop EXCEPT ![p] = l]
  <2>1. l.task = t /\ l.pc = pc /\ l.dep = dep /\ l.ready = loop[p].ready
    <3>. HIDE DEF rec, pc, dep
    <3>. QED
      BY <1>0, <1>1, ZenonT(30) DEF Loop
  <2>2. loop'[p] = l
    BY <1>0, <1>4, ZenonT(30)
  <2>3. pc = "activate" => Cleared(t)
    <3>1. pc = "activate" => ~deps
      BY ZenonT(30)
    <3>2. ~deps => Cleared(t)
      <4>1. TaskCleared(t) /\ lastItem[t] > 0 /\ r \in Record /\ StoreFence(t)
        BY <1>0, <1>1, ZenonT(30) DEF AllCleared, LoopCleared, StoreTypeOK, Fenced
      <4>2. r.state \in {"new", "blocked", "active", "retry", "queue_error", "terminated"}
        BY <1>4, <4>1, ZenonT(30) DEF AckStates, Exists, StoreFence, Record, TaskState
      <4>. QED
        BY <4>1, <4>2, NoParents, SMTT(30) DEF TaskCleared
    <3>. QED
      BY <3>1, <3>2, ZenonT(30)
  <2>4. pc \in {"save", "deps", "activate"} /\ (pc = "deps" => dep = 1)
    OBVIOUS
  <2>. HIDE DEF pc, dep, l
  <2>5. pc = "activate" => Cleared(t)'
    BY <2>3, StaysCleared, ZenonT(30)
  <2>6. lastItem'[t] > 0
    BY <1>0, <1>1, ZenonT(30) DEF LoopCleared
  <2>. QED
    BY <2>1, <2>2, <2>4, <2>5, <2>6, SMTT(30) DEF LoopCleared, Cleared, Parents
<1>. QED
  <2>1. \/ EndMessage(p) \/ Goto(p, "termUnknown") \/ Goto(p, "ack")
        \/ Exists(t) /\ r.state \notin AckStates /\ loop' = [loop EXCEPT ![p] = l]
    BY <1>1, Zenon DEF LoadTask
  <2>. QED
    BY <1>2, <1>3, <1>4, <2>1, ZenonT(30)

LEMMA LoadDependencyCleared ==
  ASSUME Fenced, [Next]_vars, Records, AllCleared, NEW p \in Proc, LoadDependency(p)
  PROVE  LoopCleared(p)'
<1>0. /\ loop \in [Proc -> Loop] /\ loop[p] \in Loop /\ LoopFence(p) /\ LoopCleared(p)
      /\ loop[p].pc = "deps" /\ lastItem' = lastItem
  BY Zenon DEF Fenced, TypeOK, ProcessorTypeOK, AllCleared, LoadDependency, queueVars
<1>1. PICK t \in Task : t = loop[p].task
  BY <1>0, ZenonT(30) DEF LoopFence
<1>2. PICK d \in Nat : d = loop[p].dep /\ d \in 1..Len(Dependencies[t]) /\ Len(Dependencies[t]) \in Nat
  <2>1. loop[p].dep \in Nat /\ Len(Dependencies[t]) \in Nat
    BY <1>0, <1>1, JobsAssumption, SMTT(30) DEF Loop
  <2>. QED
    BY <1>0, <1>1, <2>1, Zenon DEF LoopFence
<1>. DEFINE ready == loop[p].ready /\ tasks[Dependencies[t][d]].state = "complete"
            pc == IF ready THEN "activate" ELSE "nakBlocked"
            l == [loop[p] EXCEPT !.dep = @ + 1, !.ready = ready]
            m == [loop[p] EXCEPT !.pc = pc, !.ready = TRUE, !.dep = 0]
<1>3. ready => \A n \in 1..d : Dependencies[t][n] \in done
  <2>1. Dependencies[t][d] \in Task
    BY <1>2, JobsAssumption, SMTT(30)
  <2>2. tasks[Dependencies[t][d]].state = "complete" => Dependencies[t][d] \in done
    BY <2>1, ZenonT(30) DEF AllCleared, TaskCleared
  <2>3. loop[p].ready => \A n \in 1..(d - 1) : Dependencies[t][n] \in done
    BY <1>0, <1>1, <1>2, ZenonT(30) DEF LoopCleared
  <2>. QED
    BY <1>2, <2>2, <2>3, SMTT(30)
<1>4. ready \in BOOLEAN
  BY <1>0, ZenonT(30) DEF Loop
<1>5. \/ Goto(p, "nakBlocked") \/ Goto(p, "termFailed")
      \/ loop' = [loop EXCEPT ![p].dep = @ + 1, ![p].ready = ready]
      \/ /\ d = Len(Dependencies[t])
         /\ loop' = [loop EXCEPT ![p].pc = pc, ![p].ready = TRUE, ![p].dep = 0]
  BY <1>1, <1>2, ZenonT(30) DEF LoadDependency
<1>6. pc \in {"activate", "nakBlocked"} /\ (pc = "activate" => ready)
  OBVIOUS
<1>. HIDE DEF ready, pc
<1>7. \/ Goto(p, "nakBlocked") \/ Goto(p, "termFailed") \/ loop' = [loop EXCEPT ![p] = l]
      \/ d = Len(Dependencies[t]) /\ loop' = [loop EXCEPT ![p] = m]
  BY <1>5, Zenon
<1>8. /\ l.pc = "deps" /\ l.task = t /\ l.dep = d + 1 /\ l.ready = ready
      /\ m.pc = pc /\ m.task = t /\ m.ready = TRUE
  BY <1>0, <1>1, <1>2, ZenonT(30) DEF Loop
<1>. HIDE DEF l, m
<1>9. lastItem'[t] > 0
  BY <1>0, <1>1, Zenon DEF LoopCleared
<1>10. ASSUME NEW to, Goto(p, to), to \notin {"limiter", "poll", "load", "deps", "activate"}
       PROVE  LoopCleared(p)'
  <2>1. loop'[p].pc = to /\ loop'[p].task = loop[p].task
    BY <1>0, <1>10, ZenonT(30) DEF Goto, Loop
  <2>. QED
    BY <1>0, <1>10, <2>1, LoopStaysCleared, ZenonT(30)
<1>11. CASE loop' = [loop EXCEPT ![p] = l]
  <2>1. loop'[p] = l
    BY <1>0, <1>11, ZenonT(30)
  <2>2. ready => \A n \in 1..((d + 1) - 1) : Dependencies[t][n] \in done'
    BY <1>2, <1>3, SMTT(30) DEF Records
  <2>. QED
    BY <1>2, <1>8, <1>9, <2>1, <2>2, ZenonT(30) DEF LoopCleared
<1>12. CASE d = Len(Dependencies[t]) /\ loop' = [loop EXCEPT ![p] = m]
  <2>1. loop'[p] = m
    BY <1>0, <1>12, ZenonT(30)
  <2>2. pc = "activate" => Cleared(t)
    BY <1>3, <1>6, <1>12, ZenonT(30) DEF Cleared, Parents
  <2>3. pc = "activate" => Cleared(t)'
    BY <2>2, StaysCleared, ZenonT(30)
  <2>. QED
    BY <1>6, <1>8, <1>9, <2>1, <2>3, ZenonT(30) DEF LoopCleared, Cleared, Parents
<1>. QED
  BY <1>7, <1>10, <1>11, <1>12, ZenonT(30)

\* The other steps of a loop.
LEMMA LoopNextCleared ==
  ASSUME Fenced, [Next]_vars, Records, AllCleared, NEW p \in Proc, LoopNext(p)
  PROVE  LoopCleared(p)'
<1>0. /\ loop \in [Proc -> Loop] /\ LoopFence(p) /\ LoopCleared(p) /\ loop[p] \in Loop
  BY Zenon DEF Fenced, TypeOK, ProcessorTypeOK, AllCleared
<1>1. CASE LoadTask(p) \/ LoadDependency(p)
  BY <1>1, LoadTaskCleared, LoadDependencyCleared, ZenonT(30)
<1>2. CASE TakeToken(p)
  <2>1. loop'[p].pc = "poll" /\ loop'[p].ready = loop[p].ready /\ loop[p].pc = "limiter"
    BY <1>0, <1>2, ZenonT(30) DEF TakeToken, Goto, Loop
  <2>. QED
    BY <1>0, <2>1, Zenon DEF LoopCleared
<1>3. ASSUME NEW t \in Task, PollItem(p, t) PROVE LoopCleared(p)'
  <2>1. loop'[p].pc = "load" /\ loop'[p].ready = loop[p].ready /\ loop'[p].task = t
        /\ loop[p].pc = "poll"
    <3>. DEFINE l == [loop[p] EXCEPT !.pc = "load", !.task = t, !.item = items'[t].seq]
    <3>1. loop' = [loop EXCEPT ![p] = l] /\ loop[p].pc = "poll"
      BY <1>3, Zenon DEF PollItem
    <3>2. l.pc = "load" /\ l.ready = loop[p].ready /\ l.task = t
      BY <1>0 DEF Loop
    <3>. HIDE DEF l
    <3>. QED
      BY <1>0, <3>1, <3>2, ZenonT(30)
  <2>2. lastItem'[t] > 0
    BY <1>3, ZenonT(30) DEF PollItem, Deliver, Deliverable, AllCleared, TaskCleared
  <2>. QED
    BY <1>0, <2>1, <2>2, ZenonT(30) DEF LoopCleared
<1>4. CASE NakBlocked(p) \/ RemoveUseless(p) \/ SaveTask(p) \/ DiscardTask(p) \/ SetTaskActive(p)
  <2>1. loop'[p] = Waiting
    BY <1>0, <1>4, ZenonT(30) DEF NakBlocked, RemoveUseless, SaveTask, DiscardTask, SetTaskActive, EndMessage
  <2>. QED
    BY <1>0, <2>1, LoopStaysCleared, ZenonT(30)
<1>5. CASE TerminateFailed(p)
  <2>. DEFINE l == [loop[p] EXCEPT !.pc = "save", !.rec.state = "unreachable"]
  <2>1. loop' = [loop EXCEPT ![p] = l] /\ loop[p].pc = "termFailed"
    BY <1>5, Zenon DEF TerminateFailed
  <2>2. l.task = loop[p].task /\ l.pc = "save"
    BY <1>0 DEF Loop
  <2>. HIDE DEF l
  <2>3. loop'[p] = l
    BY <1>0, <2>1, ZenonT(30)
  <2>. QED
    BY <1>0, <2>1, <2>2, <2>3, LoopStaysCleared, ZenonT(30)
<1>6. CASE FindDiscarded(p)
  <2>. DEFINE l == [loop[p] EXCEPT !.pc = "discard", !.rec.seq = tasks[loop[p].task].seq]
  <2>1. /\ loop[p].pc = "save"
        /\ EndMessage(p) \/ loop' = [loop EXCEPT ![p] = l]
    BY <1>6, Zenon DEF FindDiscarded
  <2>2. l.task = loop[p].task /\ l.pc = "discard"
    BY <1>0 DEF Loop
  <2>. HIDE DEF l
  <2>3. loop'[p] = l \/ loop'[p] = Waiting
    BY <1>0, <2>1, ZenonT(30) DEF EndMessage
  <2>. QED
    BY <1>0, <2>1, <2>2, <2>3, LoopStaysCleared, ZenonT(30)
<1>. QED
  BY <1>1, <1>2, <1>3, <1>4, <1>5, <1>6, ZenonT(30) DEF LoopNext

\* A work item is only stored by the creator, who then has nothing left to do.
LEMMA ItemComes ==
  ASSUME EnqueuedOnce, Fenced, [Next]_vars, AllCleared, NEW t \in Task, lastItem'[t] # lastItem[t]
  PROVE  /\ creator[t].pc = "publish" /\ creator'[t].pc = "idle"
         /\ creator'[t].calls = creator[t].calls /\ tasks' = tasks
<1>0. lastItem \in [Task -> Nat] /\ creator \in [Task -> Creator]
  BY DEF Fenced, TypeOK, QueueTypeOK, ClientTypeOK
<1>1. PICK u \in Task : /\ \E withId \in BOOLEAN : StoreItem(u, withId)
                        /\ PublishEnqueued(u) \/ \E c \in Client : PublishRetried(c)
  BY QueueSteps, Zenon DEF Deliver, LeaseExpires, RemoveItem, ReleaseItem, Purge, queueVars
<1>2. u = t
  BY <1>0, <1>1, ZenonT(30) DEF StoreItem
<1>3. PublishEnqueued(t)
  BY <1>1, <1>2, ZenonT(30) DEF PublishRetried, AllCleared
<1>4. creator' = [creator EXCEPT ![t].pc = "idle"] /\ creator[t].pc = "publish" /\ tasks' = tasks
  BY <1>3 DEF PublishEnqueued, PublishItem, EnqueuedOnce, queueVars, storeVars
<1>. QED
  BY <1>0, <1>4, ZenonT(30) DEF Creator

\* An item has a sequence number.
LEMMA ItemsNumbered ==
  ASSUME Fenced, [Next]_vars, NEW t \in Task, HasItem(t) => lastItem[t] > 0
  PROVE  HasItem(t)' => lastItem'[t] > 0
<1>0. QueueTypeOK
  BY DEF Fenced, TypeOK
<1>1. ASSUME NEW u \in Task,
             \/ Deliver(u) \/ LeaseExpires(u) \/ \E seq \in Nat : RemoveItem(u, seq) \/ ReleaseItem(u, seq)
      PROVE  HasItem(t)' => HasItem(t) /\ lastItem'[t] = lastItem[t]
  BY <1>0, <1>1, SMTT(30) DEF Deliver, LeaseExpires, RemoveItem, ReleaseItem, NoItem, HasItem, QueueTypeOK, Item,
     queueVars
<1>2. ASSUME NEW u \in Task, NEW withId, StoreItem(u, withId)
      PROVE  HasItem(t)' => lastItem'[t] > 0
  BY <1>0, <1>2, SMTT(30) DEF StoreItem, HasItem, QueueTypeOK, Item
<1>3. ASSUME Purge PROVE ~HasItem(t)'
  BY <1>3, Zenon DEF Purge, HasItem, NoItem
<1>4. CASE UNCHANGED <<items, lastItem>>
  BY <1>4, ZenonT(30) DEF HasItem
<1>. QED
  BY <1>1, <1>2, <1>3, <1>4, QueueSteps, ZenonT(30)

\* What the creator knows about the items.
LEMMA CreatorCleared ==
  ASSUME EnqueuedOnce, Fenced, [Next]_vars, AllCleared, NEW t \in Task
  PROVE  /\ creator'[t].pc = "queueError" => lastItem'[t] = 0
         /\ creator'[t].pc \in {"save", "publish"} \/ creator'[t].calls = 0 =>
              /\ lastItem'[t] = 0
              /\ tasks[t].state # "queue_error" /\ creator[t].pc # "queueError"
         /\ creator'[t].pc # "idle" => creator'[t].calls > 0
<1>0. TaskCleared(t) /\ creator[t].calls \in Nat /\ MaxEnqueues \in Nat /\ MaxEnqueues <= 1
  BY ClientAssumption, ZenonT(30) DEF Fenced, TypeOK, ClientTypeOK, Creator, AllCleared, EnqueuedOnce
<1>1. CASE lastItem'[t] # lastItem[t]
  <2>1. /\ creator[t].pc = "publish" /\ creator'[t].pc = "idle"
        /\ creator'[t].calls = creator[t].calls
    BY <1>1, ItemComes, ZenonT(30)
  <2>. QED
    BY <1>0, <2>1, SMTT(30) DEF TaskCleared
<1>2. CASE lastItem'[t] = lastItem[t]
  <2>. DEFINE k == creator[t]
              l == creator'[t]
  <2>1. CASE l = k
    BY <1>0, <1>2, <2>1, SMTT(30) DEF TaskCleared
  <2>2. CASE k.pc = "idle" /\ k.calls < MaxEnqueues /\ l.pc = "save" /\ l.calls = k.calls + 1
    <3>1. k.calls = 0 /\ l.calls = 1
      BY <1>0, <2>2, SMTT(30)
    <3>. QED
      BY <1>0, <1>2, <2>2, <3>1, SMTT(30) DEF TaskCleared
  <2>3. CASE /\ l.calls = k.calls /\ k.pc # "idle"
             /\ l.pc \in {"idle", "gone"} \/ (k.pc = "save" /\ l.pc = "publish")
                \/ (k.pc = "publish" /\ l.pc = "queueError")
    BY <1>0, <1>2, <2>3, SMTT(30) DEF TaskCleared
  <2>. QED
    BY <2>1, <2>2, <2>3, CreatorPoints, Zenon
<1>. QED
  BY <1>1, <1>2, ZenonT(30)

\* A record that lets a worker go on was cleared before it was written.
LEMMA RecordCleared ==
  ASSUME EnqueuedOnce, Fenced, [Next]_vars, Records, AllCleared, NEW t \in Task
  PROVE  TaskCleared(t)'
<1>0. /\ TaskCleared(t) /\ CreatorFence(t) /\ lastItem \in [Task -> Nat]
      /\ \A p \in Proc : LoopFence(p) /\ LoopCleared(p)
      /\ \A p \in Proc : \A i \in Slot : HandlerFence(p, i)
  BY Zenon DEF AllCleared, Fenced, TypeOK, QueueTypeOK
<1>1. tasks'[t].state = "complete" => t \in done'
  BY Zenon DEF Records, Succeeds
<1>2. /\ tasks'[t].state = "new" => ~HasDependencies(t)
      /\ tasks'[t].state \in {"active", "retry", "complete", "terminated"} => Cleared(t)
      /\ tasks'[t].state = "queue_error" => tasks[t].state = "queue_error" \/ creator[t].pc = "queueError"
  <2>1. CASE tasks'[t] = tasks[t]
    BY <1>0, <2>1, Zenon DEF TaskCleared
  <2>2. ASSUME NEW p \in Proc, SetTaskActive(p), LoopOn(p, t) PROVE Cleared(t)
    BY <1>0, <2>2, ZenonT(30) DEF SetTaskActive, LoopOn, LoopCleared
  <2>3. ASSUME NEW p \in Proc, NEW i \in Slot, SaveResult(p, i), HandlerOn(p, i, t),
               tasks'[t].state = handler[p][i].rec.state
        PROVE  Cleared(t) /\ tasks'[t].state \notin {"new", "queue_error"}
    <3>1. handler[p][i].pc = "save" /\ handler[p][i].task = t
      BY <2>3, ZenonT(30) DEF SaveResult, HandlerOn
    <3>. QED
      BY <1>0, <2>3, <3>1, ZenonT(30) DEF AllCleared, HandlerFence, Outcome, ErrorState
  <2>4. ASSUME SaveEnqueued(t), tasks'[t].state = creator[t].rec.state
        PROVE  /\ tasks'[t].state = "new" => ~HasDependencies(t)
               /\ tasks'[t].state \in {"new", "blocked", "queue_error"}
               /\ tasks'[t].state = "queue_error" => creator[t].pc = "queueError"
    BY <1>0, <2>4, ZenonT(30) DEF SaveEnqueued, CreatorFence, NewTask
  <2>5. ASSUME NEW c \in Client PROVE ~SaveRetried(c)
    BY DEF SaveRetried, AllCleared
  <2>. QED
    BY <2>1, <2>2, <2>3, <2>4, <2>5, Writers, ZenonT(30)
<1>3. tasks'[t].state = "queue_error" => lastItem'[t] = 0
  <2>1. CASE lastItem'[t] = lastItem[t]
    BY <1>0, <1>2, <2>1, Zenon DEF TaskCleared
  <2>2. CASE lastItem'[t] # lastItem[t]
    BY <1>0, <2>2, ItemComes, Zenon DEF TaskCleared
  <2>. QED
    BY <2>1, <2>2, Zenon
<1>4. tasks'[t].state \in {"active", "retry", "complete", "terminated"} => Cleared(t)'
  BY <1>2, StaysCleared, Zenon
<1>5. HasItem(t)' => lastItem'[t] > 0
  BY <1>0, ItemsNumbered, Zenon DEF TaskCleared
<1>. QED
  BY <1>1, <1>2, <1>3, <1>4, <1>5, CreatorCleared, ZenonT(30) DEF TaskCleared, HasDependencies

\* Without retries no client enqueues.
LEMMA ClientsCleared ==
  ASSUME EnqueuedOnce, Fenced, [Next]_vars, AllCleared, NEW c \in Client
  PROVE  client'[c].pc \in {"idle", "delete"}
<1>0. client \in [Client -> Caller] /\ client[c].pc \in {"idle", "delete"} /\ NoCall.pc = "idle"
  BY Zenon DEF Fenced, TypeOK, ClientTypeOK, AllCleared, NoCall
<1>1. ASSUME NEW d \in Client, ClientNext(d) PROVE client'[c].pc \in {"idle", "delete"}
  <2>1. client[d].pc \in {"idle", "delete"}
    BY DEF AllCleared
  <2>2. ~SaveRetried(d) /\ ~PublishRetried(d) /\ \A t \in Task : ~RetryTaskByID(d, t)
    BY <2>1 DEF SaveRetried, PublishRetried, RetryTaskByID, Call, EnqueuedOnce
  <2>3. \/ client' = [client EXCEPT ![d] = NoCall]
        \/ \E t \in Task : client' = [client EXCEPT ![d] = [pc |-> "delete", task |-> t, rec |-> tasks[t]]]
    BY <1>1, <2>2, Zenon DEF ClientNext, DeleteTaskByID, DeleteFound, ClientCrash
  <2>. QED
    BY <1>0, <2>3, SMTT(30)
<1>2. ASSUME NEW t \in Task, CreatorNext(t) PROVE client' = client
  BY <1>2, Zenon DEF CreatorNext, EnqueueTask, SaveEnqueued, PublishEnqueued, CreatorCrash
<1>3. ASSUME \/ UNCHANGED clientVars \/ UNCHANGED vars \/ PurgeQueue
             \/ \E u \in Task : LeaseTimeout(u) \/ RunTimeout(u) \/ Deadline(u) \/ ForgetMsgId(u)
      PROVE  client' = client
  BY <1>3, Zenon DEF PurgeQueue, LeaseTimeout, RunTimeout, Deadline, ForgetMsgId, clientVars, vars
<1>. QED
  BY <1>0, <1>1, <1>2, <1>3, ZenonT(30) DEF Next

LEMMA NextCleared ==
  ASSUME EnqueuedOnce, Fenced, [Next]_vars, Records, AllCleared
  PROVE  AllCleared'
<1>1. ASSUME NEW p \in Proc PROVE LoopCleared(p)'
  <2>1. LoopFence(p) /\ LoopCleared(p)
    BY DEF Fenced, AllCleared
  <2>. QED
    BY <2>1, LoopSteps, LoopStaysCleared, LoopNextCleared, ZenonT(30)
<1>2. ASSUME NEW p \in Proc, NEW i \in Slot, handler'[p][i].pc \in {"run", "save"}
      PROVE  Cleared(handler[p][i].task)'
  <2>1. PICK t : t = handler'[p][i].task
    OBVIOUS
  <2>2. CASE handler[p][i].pc \in {"run", "save"} /\ handler'[p][i].task = handler[p][i].task
    <3>1. Cleared(t)
      BY <2>1, <2>2, ZenonT(30) DEF AllCleared
    <3>. QED
      BY <2>1, <3>1, StaysCleared, ZenonT(30) DEF Cleared, Parents
  <2>3. CASE SetTaskActive(p) /\ handler'[p][i].task = loop[p].task
    <3>1. Cleared(t)
      BY <2>1, <2>3, ZenonT(30) DEF AllCleared, LoopCleared, SetTaskActive
    <3>. QED
      BY <2>1, <3>1, StaysCleared, ZenonT(30) DEF Cleared, Parents
  <2>. QED
    BY <1>2, <2>2, <2>3, HandlerTakesUp, ZenonT(30)
<1>. QED
  BY <1>1, <1>2, RecordCleared, ClientsCleared, ZenonT(30) DEF AllCleared

LEMMA InitCleared == HistoryInit => AllCleared
<1>. SUFFICES ASSUME HistoryInit PROVE AllCleared
  OBVIOUS
<1>1. /\ \A t \in Task : /\ tasks[t].state = "unknown" /\ lastItem[t] = 0 /\ ~HasItem(t)
                         /\ creator[t].pc = "idle" /\ creator[t].calls = 0
  BY Zenon DEF HistoryInit, Init, StoreInit, QueueInit, ClientInit, NoRecord, NoItem, HasItem
<1>2. /\ \A p \in Proc : loop[p].pc = "limiter" /\ loop[p].ready
      /\ \A p \in Proc : \A i \in Slot : handler[p][i].pc = "free"
      /\ \A c \in Client : client[c].pc = "idle"
  BY Zenon DEF HistoryInit, Init, ProcessorInit, ClientInit, Waiting, Free, NoCall
<1>. QED
  BY <1>1, <1>2, ZenonT(30) DEF AllCleared, TaskCleared, LoopCleared

LEMMA ClearedHolds ==
  ASSUME EnqueuedOnce
  PROVE  HistorySpec => []AllCleared
<1>1. Fenced /\ AllCleared /\ [HistoryNext]_historyVars => AllCleared'
  <2>. SUFFICES ASSUME Fenced, AllCleared, [HistoryNext]_historyVars PROVE AllCleared'
    OBVIOUS
  <2>1. CASE HistoryNext
    BY <2>1, NextCleared, ZenonT(30) DEF HistoryNext, Records
  <2>2. CASE UNCHANGED historyVars
    <3>1. UNCHANGED <<tasks, creator, lastItem, items, loop, handler, client, done>>
      BY <2>2, ZenonT(30) DEF historyVars, vars, storeVars, queueVars, procVars, clientVars
    <3>. QED
      BY <3>1, SMTT(30) DEF AllCleared, TaskCleared, LoopCleared, Cleared, Parents, HasItem
  <2>. QED
    BY <2>1, <2>2, ZenonT(30)
<1>. QED
  BY <1>1, InitCleared, HistoryIsSpec, FencedHolds, PTL DEF HistorySpec

\* All the tasks a task depends on have succeeded when its handler starts,
\* whatever requests are lost and whatever is late, discarded, deleted or
\* crashes, as long as a task is enqueued once, by a creator that hears whether
\* it was, and nobody retries it.
THEOREM RunsFollowParents ==
  ASSUME EnqueuedOnce
  PROVE  HistorySpec => RunsAfterParents
<1>. DEFINE After == \A t \in Task : Starts(t) => Parents(t) \subseteq done
<1>1. Fenced /\ AllCleared /\ [HistoryNext]_historyVars => [After]_historyVars
  <2>. SUFFICES ASSUME Fenced, AllCleared, HistoryNext, NEW t \in Task, Starts(t)
                PROVE  Parents(t) \subseteq done
    BY ZenonT(30) DEF After
  <2>1. PICK p \in Proc, i \in Slot :
          handler[p][i].pc = "free" /\ handler'[p][i].pc = "run" /\ handler'[p][i].task = t
    BY DEF Starts
  <2>2. SetTaskActive(p) /\ loop[p].task = t
    BY <2>1, HandlerTakesUp, Zenon DEF HistoryNext
  <2>. QED
    BY <2>2, ZenonT(30) DEF AllCleared, LoopCleared, SetTaskActive, Cleared
<1>. QED
  BY <1>1, ClearedHolds, HistoryIsSpec, FencedHolds, PTL DEF HistorySpec, RunsAfterParents

\* A task whose record says that its work item could not be stored has none,
\* under the same conditions: the creator that saves queue_error was told so by
\* the queue, and nothing publishes the task afterwards.
THEOREM QueueErrorsHaveNoItem ==
  ASSUME EnqueuedOnce
  PROVE  HistorySpec => []QueueErrorMeansNoItem
<1>1. AllCleared => QueueErrorMeansNoItem
  <2>. SUFFICES ASSUME AllCleared, NEW t \in Task, tasks[t].state = "queue_error", HasItem(t) PROVE FALSE
    BY ZenonT(30) DEF QueueErrorMeansNoItem
  <2>1. lastItem[t] = 0 /\ lastItem[t] > 0
    BY DEF AllCleared, TaskCleared
  <2>. QED
    BY <2>1
<1>. QED
  BY <1>1, ClearedHolds, PTL

----------------------------------------------------------------------------
\* Only a search for a task to discard leads to its deletion.
LEMMA DiscardsFound ==
  ASSUME Fenced, NEW p \in Proc, LoopNext(p), loop'[p].pc = "discard"
  PROVE  loop[p].pc = "discard" \/ FindDiscarded(p)
<1>0. /\ loop \in [Proc -> Loop] /\ loop[p] \in Loop /\ Waiting.pc = "limiter"
  BY ZenonT(30) DEF Fenced, TypeOK, ProcessorTypeOK, Waiting
<1>1. ~EndMessage(p)
  BY <1>0, ZenonT(30) DEF EndMessage
<1>2. \A to : Goto(p, to) => to = "discard"
  BY <1>0, ZenonT(30) DEF Goto, Loop
<1>3. \A l : loop' = [loop EXCEPT ![p] = l] => l.pc = "discard"
  BY <1>0, ZenonT(30)
<1>4. ASSUME LoadTask(p) PROVE FALSE
  <2>. DEFINE t == loop[p].task
              r == tasks[t]
              expire == IsPastDeadline(t) \/ ExceedsMaxTries(t, r)
              deps == r.state = "blocked" /\ HasDependencies(t)
              rec == IF expire THEN [r EXCEPT !.state = "expired"] ELSE r
              pc == CASE expire -> "save"
                      [] ~expire /\ deps -> "deps"
                      [] OTHER -> "activate"
              dep == IF ~expire /\ deps THEN 1 ELSE 0
              l == [loop[p] EXCEPT !.rec = rec, !.pc = pc, !.dep = dep]
  <2>1. \/ EndMessage(p) \/ Goto(p, "termUnknown") \/ Goto(p, "ack")
        \/ loop' = [loop EXCEPT ![p] = l]
    BY <1>4, Zenon DEF LoadTask
  <2>2. pc \in {"save", "deps", "activate"}
    OBVIOUS
  <2>. HIDE DEF rec, pc, dep
  <2>3. l.pc = pc
    BY <1>0 DEF Loop
  <2>. HIDE DEF l
  <2>. QED
    BY <1>1, <1>2, <1>3, <2>1, <2>2, <2>3, ZenonT(30)
<1>5. ASSUME LoadDependency(p) PROVE loop[p].pc = "discard"
  <2>. DEFINE ready == loop[p].ready
                         /\ tasks[Dependencies[loop[p].task][loop[p].dep]].state = "complete"
              pc == IF ready THEN "activate" ELSE "nakBlocked"
              l == [loop[p] EXCEPT !.dep = @ + 1, !.ready = ready]
              m == [loop[p] EXCEPT !.pc = pc, !.ready = TRUE, !.dep = 0]
  <2>1. \/ Goto(p, "nakBlocked") \/ Goto(p, "termFailed")
        \/ loop' = [loop EXCEPT ![p].dep = @ + 1, ![p].ready = ready]
        \/ loop' = [loop EXCEPT ![p].pc = pc, ![p].ready = TRUE, ![p].dep = 0]
    BY <1>5, Zenon DEF LoadDependency
  <2>2. pc \in {"activate", "nakBlocked"}
    BY Zenon
  <2>. HIDE DEF ready, pc
  <2>3. \/ Goto(p, "nakBlocked") \/ Goto(p, "termFailed")
        \/ loop' = [loop EXCEPT ![p] = l] \/ loop' = [loop EXCEPT ![p] = m]
    BY <2>1, Zenon
  <2>4. l.pc = loop[p].pc /\ m.pc = pc
    BY <1>0, ZenonT(30) DEF Loop
  <2>. HIDE DEF l, m
  <2>. QED
    BY <1>2, <1>3, <2>2, <2>3, <2>4, ZenonT(30)
<1>6. ~TakeToken(p) /\ \A t \in Task : ~PollItem(p, t)
  <2>1. ~TakeToken(p)
    BY <1>2 DEF TakeToken
  <2>2. ASSUME NEW t \in Task, PollItem(p, t) PROVE FALSE
    <3>. DEFINE l == [loop[p] EXCEPT !.pc = "load", !.task = t, !.item = items'[t].seq]
    <3>1. loop' = [loop EXCEPT ![p] = l]
      BY <2>2, Zenon DEF PollItem
    <3>2. l.pc = "load"
      BY <1>0, ZenonT(30) DEF Loop
    <3>. HIDE DEF l
    <3>. QED
      BY <1>3, <3>1, <3>2, ZenonT(30)
  <2>. QED
    BY <2>1, <2>2, ZenonT(30)
<1>7. ~TerminateFailed(p)
  BY <1>0 DEF TerminateFailed, Loop
<1>8. ~NakBlocked(p) /\ ~RemoveUseless(p) /\ ~SaveTask(p) /\ ~DiscardTask(p) /\ ~SetTaskActive(p)
  BY <1>0, <1>1, Zenon DEF NakBlocked, RemoveUseless, SaveTask, DiscardTask, SetTaskActive
<1>. QED
  BY <1>4, <1>5, <1>6, <1>7, <1>8, ZenonT(30) DEF LoopNext

\* Nothing is discarded, deleted or retried.
LEMMA NextKept ==
  ASSUME Kept, Fenced, [Next]_vars, DoneIsComplete
  PROVE  /\ \A p \in Proc : loop'[p].pc # "discard" /\ \A i \in Slot : handler'[p][i].pc # "discard"
         /\ \A c \in Client : client'[c].pc = "idle"
<1>0. /\ handler \in [Proc -> [Slot -> Handler]]
  BY DEF Fenced, TypeOK, ProcessorTypeOK
<1>1. ASSUME NEW p \in Proc PROVE loop'[p].pc # "discard"
  <2>1. ~FindDiscarded(p) /\ loop[p].pc # "discard" /\ Waiting.pc # "discard"
    BY DEF FindDiscarded, DoneIsComplete, Kept, Waiting
  <2>. QED
    BY <2>1, LoopSteps, DiscardsFound, ZenonT(30)
<1>2. ASSUME NEW p \in Proc, NEW i \in Slot PROVE handler'[p][i].pc # "discard"
  <2>0. handler[p][i].pc # "discard"
    BY DEF DoneIsComplete
  <2>1. ASSUME NEW q \in Proc, NEW j \in Slot, HandlerNext(q, j) PROVE handler'[p][i].pc # "discard"
    <3>1. ~FindResult(q, j)
      BY DEF FindResult, Kept
    <3>2. handler'[q][j].pc # "discard"
      BY <2>1, <3>1, HandlerPoints, Zenon
    <3>. QED
      BY <2>0, <2>1, <3>2, HandlerMoves, ZenonT(30)
  <2>2. ASSUME NEW q \in Proc, LoopNext(q) PROVE handler'[p][i].pc # "discard"
    <3>1. CASE handler' = handler
      BY <2>0, <3>1, ZenonT(30)
    <3>2. CASE handler' # handler
      <4>1. SetTaskActive(q)
        BY <2>2, <3>2, ZenonT(30) DEF LoopNext, TakeToken, PollItem, LoadTask, LoadDependency, TerminateFailed,
           NakBlocked, RemoveUseless, SaveTask, FindDiscarded, DiscardTask
      <4>2. PICK j, r : j \in Slot /\ handler' = [handler EXCEPT ![q][j] =
                 [pc |-> "run", task |-> loop[q].task, item |-> loop[q].item, rec |-> r]]
        BY <3>2, <4>1, Zenon DEF SetTaskActive
      <4>. QED
        BY <1>0, <2>0, <4>2, ZenonT(30)
    <3>. QED
      BY <3>1, <3>2, ZenonT(30)
  <2>3. ASSUME NEW q \in Proc, Crash(q) PROVE handler'[p][i].pc # "discard"
    BY <1>0, <2>0, <2>3, ZenonT(30) DEF Crash, Free
  <2>4. ASSUME \/ UNCHANGED procVars \/ UNCHANGED vars
               \/ \E t \in Task : PollReplyLost(t) \/ LeaseTimeout(t) \/ RunTimeout(t) \/ Deadline(t)
                                  \/ ForgetMsgId(t)
        PROVE  handler' = handler
    BY <2>4, Zenon DEF PollReplyLost, LeaseTimeout, RunTimeout, Deadline, ForgetMsgId, procVars, vars
  <2>. QED
    BY <2>0, <2>1, <2>2, <2>3, <2>4, ZenonT(30) DEF Next
<1>3. ASSUME NEW c \in Client PROVE client'[c].pc = "idle"
  <2>0. client[c].pc = "idle" /\ client \in [Client -> Caller] /\ NoCall.pc = "idle"
    BY Zenon DEF DoneIsComplete, Fenced, TypeOK, ClientTypeOK, NoCall
  <2>1. ASSUME NEW d \in Client, ClientNext(d) PROVE client' = [client EXCEPT ![d] = NoCall]
    <3>1. client[d].pc = "idle" /\ Operations \subseteq {"purge"}
      BY DEF DoneIsComplete, Kept
    <3>2. /\ ~SaveRetried(d) /\ ~PublishRetried(d) /\ ~DeleteFound(d)
          /\ \A t \in Task : ~RetryTaskByID(d, t) /\ ~DeleteTaskByID(d, t)
      BY <3>1, ZenonT(30) DEF SaveRetried, PublishRetried, RetryTaskByID, DeleteTaskByID, DeleteFound, Call
    <3>. QED
      BY <2>1, <3>2, ZenonT(30) DEF ClientNext, ClientCrash
  <2>2. ASSUME NEW t \in Task, CreatorNext(t) PROVE client' = client
    BY <2>2, Zenon DEF CreatorNext, EnqueueTask, SaveEnqueued, PublishEnqueued, CreatorCrash
  <2>3. ASSUME \/ UNCHANGED clientVars \/ UNCHANGED vars \/ PurgeQueue
               \/ \E u \in Task : LeaseTimeout(u) \/ RunTimeout(u) \/ Deadline(u) \/ ForgetMsgId(u)
        PROVE  client' = client
    BY <2>3, Zenon DEF PurgeQueue, LeaseTimeout, RunTimeout, Deadline, ForgetMsgId, clientVars, vars
  <2>. QED
    BY <2>0, <2>1, <2>2, <2>3, ZenonT(30) DEF Next
<1>. QED
  BY <1>1, <1>2, <1>3, ZenonT(30)

\* So a task that has succeeded stays complete.
LEMMA NextDone ==
  ASSUME Kept, Fenced, [Next]_vars, Records, DoneIsComplete
  PROVE  DoneIsComplete'
<1>1. \A t \in Task : Succeeds(t) => tasks'[t].state = "complete"
  BY DEF Succeeds, DoneIsComplete
<1>2. ASSUME NEW t \in Task, tasks[t].state = "complete" PROVE tasks'[t].state = "complete"
  <2>1. CASE tasks'[t] = tasks[t]
    BY <1>2, <2>1, ZenonT(30)
  <2>2. CASE tasks'[t] # tasks[t]
    <3>1. \A c \in Client : ~SaveRetried(c) /\ ~DeleteFound(c)
      BY DEF SaveRetried, DeleteFound, DoneIsComplete
    <3>2. \A p \in Proc : ~DiscardTask(p) /\ \A i \in Slot : ~DiscardResult(p, i)
      BY DEF DiscardTask, DiscardResult, DoneIsComplete
    <3>3. ASSUME NEW p \in Proc, NEW i \in Slot, SaveResult(p, i), HandlerOn(p, i, t),
                 Accept(t, handler[p][i].rec)
          PROVE  FALSE
      <4>1. HandlerFence(p, i) /\ handler[p][i].pc = "save" /\ handler[p][i].task = t
        BY <3>3, ZenonT(30) DEF Fenced, SaveResult, HandlerOn
      <4>. QED
        BY <1>2, <3>3, <4>1, ZenonT(30) DEF HandlerFence, Accept
    <3>4. ASSUME SaveEnqueued(t), tasks'[t].state = creator[t].rec.state
          PROVE  tasks'[t].state \in {"new", "blocked", "queue_error"}
      <4>1. CreatorFence(t)
        BY DEF Fenced
      <4>. QED
        BY <3>4, <4>1, ZenonT(30) DEF CreatorFence, NewTask
    <3>5. tasks'[t].state \in {"expired", "unreachable", "active", "new", "blocked", "queue_error"}
      BY <2>2, <3>1, <3>2, <3>3, <3>4, Writers, ZenonT(30)
    <3>6. NewTask(t).state \in {"new", "blocked"}
      BY DEF NewTask
    <3>. QED
      BY <1>2, <3>5, <3>6, LifecycleStep, ZenonT(30) DEF Takeable
  <2>. QED
    BY <2>1, <2>2, ZenonT(30)
<1>3. done' \subseteq Task /\ \A t \in done' : tasks'[t].state = "complete"
  BY <1>1, <1>2, Zenon DEF Records, DoneIsComplete
<1>. QED
  BY <1>3, NextKept, ZenonT(30) DEF DoneIsComplete

\* A task is only judged unreachable while a task it depends on has not
\* succeeded, whatever is lost, late or crashes and however often the creator
\* enqueues it, as long as nobody discards, deletes or retries tasks.
THEOREM JudgedByFailure ==
  ASSUME Kept
  PROVE  HistorySpec => UnreachableMeansFailed
<1>. DEFINE Judged == \A p \in Proc : loop[p].pc = "deps" /\ loop'[p].pc = "termFailed"
                                      => ~(Parents(loop[p].task) \subseteq done)
<1>1. HistoryInit => DoneIsComplete
  BY SMTT(30) DEF HistoryInit, Init, ProcessorInit, ClientInit, Waiting, Free, NoCall, DoneIsComplete
<1>2. Fenced /\ DoneIsComplete /\ [HistoryNext]_historyVars => DoneIsComplete'
  <2>. SUFFICES ASSUME Fenced, DoneIsComplete, [HistoryNext]_historyVars PROVE DoneIsComplete'
    OBVIOUS
  <2>1. CASE HistoryNext
    BY <2>1, NextDone, ZenonT(30) DEF HistoryNext, Records
  <2>2. CASE UNCHANGED historyVars
    <3>1. UNCHANGED <<tasks, loop, handler, client, done>>
      BY <2>2, ZenonT(30) DEF historyVars, vars, storeVars, procVars, clientVars
    <3>. QED
      BY <3>1, ZenonT(30) DEF DoneIsComplete
  <2>. QED
    BY <2>1, <2>2
<1>3. Fenced /\ DoneIsComplete /\ [HistoryNext]_historyVars => [Judged]_historyVars
  <2>. SUFFICES ASSUME Fenced, DoneIsComplete, HistoryNext, NEW p \in Proc, loop[p].pc = "deps",
                       loop'[p].pc = "termFailed", Parents(loop[p].task) \subseteq done
                PROVE  FALSE
    BY ZenonT(30) DEF Judged
  <2>0. loop \in [Proc -> Loop] /\ LoopFence(p) /\ loop[p] \in Loop
    BY ZenonT(30) DEF Fenced, TypeOK, ProcessorTypeOK
  <2>1. LoopNext(p)
    BY LoopSteps, SMTT(30) DEF HistoryNext, Waiting
  <2>2. LoadDependency(p)
    BY <2>1, ZenonT(30) DEF LoopNext, TakeToken, PollItem, LoadTask, TerminateFailed, NakBlocked, RemoveUseless,
       SaveTask, FindDiscarded, DiscardTask, SetTaskActive
  <2>3. PICK t \in Task : t = loop[p].task
    BY <2>0, Zenon DEF LoopFence
  <2>4. PICK u : u = Dependencies[t][loop[p].dep]
    BY Zenon
  <2>5. u \in done
    BY <2>0, <2>3, <2>4, ZenonT(30) DEF LoopFence, Parents
  <2>6. u \in Task /\ tasks[u].state = "complete" /\ StoreFence(u)
    BY <2>5, ZenonT(30) DEF DoneIsComplete, Fenced
  <2>7. ~(\/ ~Exists(u) \/ tasks[u].state \in {"expired", "terminated", "queue_error", "unknown"})
    BY <2>6, ZenonT(30) DEF StoreFence, Exists
  <2>. DEFINE ready == loop[p].ready /\ tasks[u].state = "complete"
              pc == IF ready THEN "activate" ELSE "nakBlocked"
              l == [loop[p] EXCEPT !.dep = @ + 1, !.ready = ready]
              m == [loop[p] EXCEPT !.pc = pc, !.ready = TRUE, !.dep = 0]
  <2>8. \/ Goto(p, "nakBlocked")
        \/ loop' = [loop EXCEPT ![p].dep = @ + 1, ![p].ready = ready]
        \/ loop' = [loop EXCEPT ![p].pc = pc, ![p].ready = TRUE, ![p].dep = 0]
    BY <2>2, <2>3, <2>4, <2>7, ZenonT(30) DEF LoadDependency
  <2>9. pc \in {"activate", "nakBlocked"}
    OBVIOUS
  <2>. HIDE DEF ready, pc
  <2>10. Goto(p, "nakBlocked") \/ loop' = [loop EXCEPT ![p] = l] \/ loop' = [loop EXCEPT ![p] = m]
    BY <2>8, Zenon
  <2>11. l.pc = "deps" /\ m.pc = pc
    BY <2>0 DEF Loop
  <2>. HIDE DEF l, m
  <2>12. CASE Goto(p, "nakBlocked")
    BY <2>0, <2>12, ZenonT(30) DEF Goto, Loop
  <2>. QED
    BY <2>0, <2>9, <2>10, <2>11, <2>12, ZenonT(30)
<1>. QED
  BY <1>1, <1>2, <1>3, HistoryIsSpec, FencedHolds, PTL DEF HistorySpec, UnreachableMeansFailed

==============================================================================
