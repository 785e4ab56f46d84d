----------------------------- MODULE AsyncJobs -----------------------------
(***************************************************************************)
(* The task system: creators and clients, the task store, a work queue and *)
(* the worker processes that serve it.                                     *)
(***************************************************************************)
EXTENDS Processor, Client

vars == <<storeVars, queueVars, procVars, clientVars>>

Init == StoreInit /\ QueueInit /\ ProcessorInit /\ ClientInit

\* AckWait of a leased item passes.  Unless workers may be slow this only
\* happens to an item no thread works on any more.
LeaseTimeout(t) ==
  /\ "slow" \in Faults \/ ~Held(t)
  /\ LeaseExpires(t)
  /\ UNCHANGED <<storeVars, procVars, clientVars>>

\* MaxRunTime passes since a task became active; see LeaseTimeout.  The clock
\* that stamped LastTriedAt is not the one it is compared with.
RunTimeout(t) ==
  /\ "slow" \in Faults \/ ~Held(t)
  /\ MaxRunTimePasses(t)
  /\ UNCHANGED <<queueVars, procVars, clientVars>>

Deadline(t) == DeadlinePasses(t) /\ UNCHANGED <<queueVars, procVars, clientVars>>

ForgetMsgId(t) ==
  /\ DuplicateWindowPasses(t)
  /\ MaxEnqueues > 1
  /\ UNCHANGED <<storeVars, procVars, clientVars>>

Next ==
  \/ \E p \in Proc : LoopNext(p) /\ UNCHANGED clientVars
  \/ \E p \in Proc, i \in Slot : HandlerNext(p, i) /\ UNCHANGED clientVars
  \/ \E p \in Proc : Crash(p) /\ UNCHANGED clientVars
  \/ \E t \in Task : PollReplyLost(t) /\ UNCHANGED clientVars
  \/ \E t \in Task : CreatorNext(t) /\ UNCHANGED procVars
  \/ \E c \in Client : ClientNext(c) /\ UNCHANGED procVars
  \/ PurgeQueue /\ UNCHANGED procVars
  \/ \E t \in Task : LeaseTimeout(t) \/ RunTimeout(t) \/ Deadline(t) \/ ForgetMsgId(t)

Spec == Init /\ [][Next]_vars

----------------------------------------------------------------------------
\* Type invariant: records, items and threads of store, queue, workers and clients
\* have their types; in particular no limiter goes below zero or over its capacity.
TypeOK == StoreTypeOK /\ QueueTypeOK /\ ProcessorTypeOK /\ ClientTypeOK

\* Every token of the limiter is accounted for: it is in the channel, held by
\* the loop between the receive and the end of processMessage, or owned by a
\* running handler.  Each return path of processMessage, and handle's defer,
\* gives back exactly one, so no worker ever stalls for want of a token and
\* the deferred send never blocks.
TokensConserved ==
  \A p \in Proc :
    limiter[p] + Cardinality(Busy(p)) + (IF loop[p].pc = "limiter" THEN 0 ELSE 1) = Concurrency

\* Of all the threads that took up one task - after redeliveries, retries and
\* crashes - at most one handler can still record an outcome: a handler whose
\* sequence is current is the only one, and the stored state is its own.
SoleOwner ==
  \A p, q \in Proc : \A i, j \in Slot :
    LET h == handler[p][i]
        g == handler[q][j]
    IN /\ h.pc \in {"run", "save"}
       /\ g.pc \in {"run", "save"}
       /\ h.task = g.task
       /\ h.rec.seq = tasks[h.task].seq
       /\ g.rec.seq = tasks[g.task].seq
       => <<p, i>> = <<q, j>> /\ tasks[h.task].state = "active"

\* The loop of p, or the goroutine i of p, works on the item of t.
LoopOn(p, t) == loop[p].pc \notin {"limiter", "poll"} /\ loop[p].task = t
HandlerOn(p, i, t) == handler[p][i].pc # "free" /\ handler[p][i].task = t

\* Of all the threads of all the workers at most one works on a task at a time,
\* from the delivery of its item until it answers the queue: the lease of the
\* item, not the state of the task, keeps the others away.  Crashes and lost
\* messages do not change that; a worker slower than its lease does, and so do
\* a second EnqueueTask and RetryTaskByID, which replace the item.
OneWorker ==
  \A t \in Task : \A p, q \in Proc :
    /\ LoopOn(p, t) /\ LoopOn(q, t) => p = q
    /\ \A j \in Slot : ~(LoopOn(p, t) /\ HandlerOn(q, j, t))
    /\ \A i, j \in Slot : HandlerOn(p, i, t) /\ HandlerOn(q, j, t) => p = q /\ i = j

\* A task never records more tries than its MaxTries, whatever handlers,
\* redeliveries and retries do: the check in processMessage is made on a copy
\* that is older than the save that counts the try.
TriesBounded ==
  \A t \in Task : TaskMaxTries[t] > 0 => tasks[t].tries <= TaskMaxTries[t]

\* A task that completed, expired or became unreachable is only brought back
\* by RetryTaskByID (or removed); no handler, loop or creator that still has
\* an older copy of it overwrites the outcome.
FinalUnlessRetried ==
  [][\A t \in Task : tasks[t].state \in {"complete", "expired", "unreachable"} =>
       tasks'[t].state \in {tasks[t].state, "retry", "unknown"}]_vars

\* The store implements TaskLifecycle: through all interleavings, crashes and
\* lost messages the record of a task takes only the steps of its life cycle,
\* and each attempt that is recorded counts exactly one try.  A handler that
\* was overtaken by a redelivery or a retry leaves no trace.
Lifecycle == INSTANCE TaskLifecycle WITH
  First <- [t \in Task |-> NewTask(t).state],
  MaxTries <- TaskMaxTries,
  QueueTries <- QueueMaxTries,
  state <- [t \in Task |-> tasks[t].state],
  tries <- [t \in Task |-> tasks[t].tries]

ImplementsLifecycle == Lifecycle!Spec

----------------------------------------------------------------------------
\* A task that does not exist - never saved, deleted or discarded - is only
\* created by the program that enqueues it.  A worker or a client that loaded
\* it before it was deleted does not bring it back.
NotResurrected ==
  [][\A t \in Task : ~Exists(t) => tasks'[t].state \in {"unknown", NewTask(t).state}]_vars

Running == {h \in Proc \X Slot : handler[h[1]][h[2]].pc = "run"}

(***************************************************************************)
(* What the documentation says and the code does not ensure in general.    *)
(* The README names an instance in which each fails.                       *)
(***************************************************************************)
\* "the queue MaxConcurrent is the absolute upper limit for in-flight jobs"
\* (client_options.go), over all the processes that serve it.
InFlightBounded == Cardinality(Running) <= MaxConcurrent

\* A task that was terminated is not run again, unless a client retries it: "no
\* further retries are done" (task-lifecycle.md).
TerminatedNotRun ==
  [][\A t \in Task : tasks[t].state = "terminated" => tasks'[t].state # "active"]_vars

\* "A task may not exceed the work queue max tries" (task.go).
TriesWithinQueue ==
  \A t \in Task : QueueMaxTries > 0 => tasks[t].tries <= QueueMaxTries

\* A thread of a worker or of a client is still busy with task t.
InHand(t) ==
  \/ \E p \in Proc : loop[p].task = t \/ \E i \in Slot : handler[p][i].task = t
  \/ \E c \in Client : client[c].task = t
  \/ creator[t].pc \in {"save", "publish", "queueError"}

\* A task in the state retry "is scheduled for a later retry"
\* (task-lifecycle.md): the queue will deliver its item, unless a thread is
\* still busy with it.
RetryIsScheduled ==
  \A t \in Task : tasks[t].state = "retry" => Deliverable(t) \/ InHand(t)

\* A task in the state queue_error has no item in the work queue: "the work
\* queue entry could not be made" (task-lifecycle.md).
QueueErrorMeansNoItem ==
  \A t \in Task : tasks[t].state = "queue_error" => ~HasItem(t)

\* A task that is waiting to be retried is not removed by a worker that is
\* discarding the result of an earlier run.
RetriedNotDiscarded ==
  [][\A t \in Task : tasks[t].state = "retry" => tasks'[t].seq # 0]_vars

----------------------------------------------------------------------------
\* Threads that can go on do; a running handler returns; what waits for a
\* timeout meets it; an item that can be delivered time and again is.
Fairness ==
  /\ \A p \in Proc : WF_vars(LoopNext(p) /\ UNCHANGED clientVars)
  /\ \A p \in Proc, i \in Slot : WF_vars(HandlerNext(p, i) /\ UNCHANGED clientVars)
  /\ \A t \in Task : SF_vars(\E p \in Proc : PollItem(p, t) /\ UNCHANGED clientVars)
  /\ \A t \in Task : WF_vars(SaveEnqueued(t) /\ UNCHANGED procVars)
  /\ \A t \in Task : WF_vars(PublishEnqueued(t) /\ UNCHANGED procVars)
  /\ \A c \in Client : WF_vars((SaveRetried(c) \/ PublishRetried(c)) /\ UNCHANGED procVars)
  /\ \A t \in Task : WF_vars(LeaseTimeout(t)) /\ WF_vars(RunTimeout(t))

FairSpec == Spec /\ Fairness

Settled(t) == tasks[t].state \in {"complete", "expired", "terminated", "unreachable"}

\* The item of t has been delivered MaxTries times and will not be again.
Exhausted(t) == HasItem(t) /\ ~items[t].leased /\ ~Deliverable(t)

\* A blocked task whose item is gone and that no thread has in hand.
Stranded(t) == tasks[t].state = "blocked" /\ ~HasItem(t) /\ ~InHand(t)

\* Every task that has a work item is eventually settled or discarded, unless
\* the queue gives up on the item: workers that crash delay it, no more.  The
\* one exception is a crash between the two halves of processDependencies,
\* which terminates the item before it records the task as unreachable.
EventuallySettled ==
  \A t \in Task : HasItem(t) ~> (Settled(t) \/ ~Exists(t) \/ Exhausted(t) \/ Stranded(t))

\* No item stays in the queue for ever: it is acknowledged or terminated, or
\* has used up its deliveries.
QueueDrains == \A t \in Task : HasItem(t) ~> (~HasItem(t) \/ Exhausted(t))

\* A blocked task becomes unreachable once a task it depends on has: "If a
\* dependent task reaches a final failure state, the task becomes
\* `TaskStateUnreachable`" (task-lifecycle.md).
UnreachableSpreads ==
  \A t \in Task : \A n \in 1..Len(Dependencies[t]) :
    tasks[t].state = "blocked" /\ tasks[Dependencies[t][n]].state = "unreachable"
      ~> tasks[t].state = "unreachable"

----------------------------------------------------------------------------
(***************************************************************************)
(* The inductive invariant behind the fencing of stale writers.  A thread  *)
(* that holds a record with the sequence the store has now knows the       *)
(* stored record; one with any other sequence cannot write.                *)
(***************************************************************************)
\* The states from which a worker takes up a task.
Takeable == {"new", "blocked", "retry", "queue_error", "active", "terminated"}

StoreFence(t) ==
  /\ tasks[t].seq <= lastSeq[t]
  /\ tasks[t].seq = 0 <=> tasks[t].state = "unknown"
  /\ tasks[t].seq = 0 => tasks[t].tries = 0

LoopFence(p) ==
  LET l == loop[p]
      t == l.task
  IN
  /\ l.pc \notin {"limiter", "poll"} => t \in Task
  /\ l.pc = "deps" => l.dep \in 1..Len(Dependencies[t])
  /\ l.pc \in {"deps", "activate"} => (TaskMaxTries[t] > 0 => l.rec.tries < TaskMaxTries[t])
  /\ l.pc = "save" => l.rec.state \in {"expired", "unreachable"}
  /\ l.pc \in {"deps", "termFailed", "activate", "save"} =>
       /\ l.rec.seq \in 1..lastSeq[t]
       /\ l.rec.seq = tasks[t].seq =>
            /\ tasks[t].tries = l.rec.tries
            /\ tasks[t].state \in Takeable
            /\ l.pc \in {"deps", "termFailed"} => tasks[t].state = "blocked"
            /\ l.pc = "save" /\ l.rec.state = "unreachable" => tasks[t].state = "blocked"

HandlerFence(p, i) ==
  LET h == handler[p][i]
      t == h.task
  IN
  /\ h.pc # "free" => t \in Task
  /\ h.pc = "save" => h.rec.state \in Outcome(h.rec)
  /\ h.pc \in {"run", "save"} =>
       /\ h.rec.seq \in 1..lastSeq[t]
       /\ h.rec.seq = tasks[t].seq =>
            tasks[t].state = "active" /\ h.rec.tries = tasks[t].tries + 1

CreatorFence(t) ==
  LET k == creator[t]
      first == NewTask(t).state
  IN
  /\ k.rec.seq <= lastSeq[t]
  /\ k.rec.tries = 0
  /\ k.pc \in {"save", "publish"} => k.rec.state = first
  /\ k.pc = "queueError" => k.rec.state = "queue_error"
  /\ k.rec.state \in {first, "queue_error"}
  /\ k.pc \in {"publish", "queueError"} => k.rec.seq > 0
  /\ k.rec.seq = tasks[t].seq =>
       /\ tasks[t].tries = 0
       /\ k.rec.state = first \/ k.pc = "queueError" => tasks[t].state \in {first, "unknown"}

ClientFence(c) ==
  LET k == client[c]
      t == k.task
  IN
  /\ k.pc # "idle" => t \in Task
  /\ k.pc \in {"save", "publish", "queueError"} =>
       /\ k.rec.seq \in 1..lastSeq[t]
       /\ k.rec.state = IF k.pc = "queueError" THEN "queue_error" ELSE "retry"
       /\ k.rec.seq = tasks[t].seq =>
            tasks[t].tries = k.rec.tries /\ (k.pc # "save" => tasks[t].state = "retry")

\* No two handlers that have yet to save hold the same record.
HandlersDistinct ==
  \A p, q \in Proc : \A i, j \in Slot :
    LET h == handler[p][i]
        g == handler[q][j]
    IN h.pc \in {"run", "save"} /\ g.pc \in {"run", "save"} /\ h.task = g.task
         /\ h.rec.seq = g.rec.seq => p = q /\ i = j

\* Every writer is fenced: SaveTaskState's sequence check stands between a
\* stale copy of a task and the store, for every thread of every process.
Fenced ==
  /\ TypeOK
  /\ \A t \in Task : StoreFence(t) /\ CreatorFence(t)
  /\ \A p \in Proc : LoopFence(p)
  /\ \A p \in Proc : \A i \in Slot : HandlerFence(p, i)
  /\ \A c \in Client : ClientFence(c)
  /\ HandlersDistinct

----------------------------------------------------------------------------
(***************************************************************************)
(* The inductive invariant behind the leases.  The item a thread works on  *)
(* is leased, until it is removed, and nobody publishes another.           *)
(***************************************************************************)
\* No worker is slower than its lease and no item replaces another.
Undisturbed == "slow" \notin Faults /\ MaxEnqueues <= 1 /\ "retry" \notin Operations

Leased(t, item) ==
  lastItem[t] > 0 /\ (HasItem(t) => items[t].leased /\ items[t].seq = item)

LeaseFence(t) ==
  /\ HasItem(t) => lastItem[t] > 0
  /\ creator[t].pc \in {"save", "publish"} \/ creator[t].calls = 0 => lastItem[t] = 0
  /\ creator[t].pc # "idle" => creator[t].calls > 0
  /\ \A p \in Proc : LoopOn(p, t) => Leased(t, loop[p].item)
  /\ \A p \in Proc : \A i \in Slot : HandlerOn(p, i, t) => Leased(t, handler[p][i].item)

\* A task has one worker, which holds its lease.
Exclusive ==
  /\ OneWorker
  /\ \A t \in Task : LeaseFence(t)
  /\ \A c \in Client : client[c].pc \in {"idle", "delete"}

\* What is more, no worker stops before it answered and every request arrives,
\* though its reply may be lost.
Recorded == Undisturbed /\ Faults \subseteq {"lostReply"}

\* The item of a terminated task is gone, or in the hands of the handler that
\* is about to remove it.
TermFence(t) ==
  tasks[t].state = "terminated" =>
    /\ lastItem[t] > 0
    /\ \A p \in Proc : ~LoopOn(p, t)
    /\ HasItem(t) => \E p \in Proc : \E i \in Slot :
                       HandlerOn(p, i, t) /\ handler[p][i].pc = "finish" /\ handler[p][i].rec.state = "terminated"
=============================================================================
