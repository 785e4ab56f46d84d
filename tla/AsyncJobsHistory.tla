-------------------------- MODULE AsyncJobsHistory --------------------------
(***************************************************************************)
(* AsyncJobs with two history variables, for the properties that relate a  *)
(* step to what happened before it.  They never constrain a step.          *)
(***************************************************************************)
EXTENDS AsyncJobs

VARIABLES
  runs,         \* runs[t]: how often a handler was started for t
  done          \* the tasks that have been recorded complete, or discarded as such

historyVars == <<vars, runs, done>>

----------------------------------------------------------------------------
\* A handler is started for t in this step.
Starts(t) ==
  \E p \in Proc, i \in Slot :
    handler[p][i].pc = "free" /\ handler'[p][i].pc = "run" /\ handler'[p][i].task = t

\* The success of t is recorded in this step, by a save or by a discard.
Succeeds(t) ==
  \/ tasks'[t].state = "complete"
  \/ /\ Exists(t) /\ tasks'[t].seq = 0
     /\ \E p \in Proc, i \in Slot :
          /\ handler[p][i].pc = "discard" /\ handler'[p][i].pc = "finish"
          /\ handler[p][i].task = t /\ handler[p][i].rec.state = "complete"

HistoryInit == Init /\ runs = [t \in Task |-> 0] /\ done = {}

HistoryNext ==
  /\ Next
  /\ runs' = [t \in Task |-> runs[t] + (IF Starts(t) THEN 1 ELSE 0)]
  /\ done' = done \cup {t \in Task : Succeeds(t)}

HistorySpec == HistoryInit /\ [][HistoryNext]_historyVars

----------------------------------------------------------------------------
Parents(t) == {Dependencies[t][n] : n \in 1..Len(Dependencies[t])}

\* All the tasks a task depends on have completed when its handler starts,
\* although processDependencies reads them one by one while they change.
RunsAfterParents ==
  [][\A t \in Task : Starts(t) => Parents(t) \subseteq done]_historyVars

\* A task is only judged unreachable, in processDependencies, while one of the
\* tasks it depends on has not succeeded.
UnreachableMeansFailed ==
  [][\A p \in Proc :
       loop[p].pc = "deps" /\ loop'[p].pc = "termFailed"
         => ~(Parents(loop[p].task) \subseteq done)]_historyVars

\* A task with a limit on its tries is never handed to a handler more often.
RunsBounded ==
  \A t \in Task : TaskMaxTries[t] > 0 => runs[t] <= TaskMaxTries[t]

\* The tries a task records are exactly the runs it had, once no handler has
\* one left to record.
TriesCountRuns ==
  \A t \in Task :
    (\A p \in Proc, i \in Slot : handler[p][i].task # t) /\ Exists(t) => tasks[t].tries = runs[t]

\* Whatever crashes, is slow or gets lost, a handler starts at most as often as
\* MaxDeliver allows for each item published: enqueued again or retried, a task
\* gets as many deliveries again.
RunsWithinDeliveries ==
  QueueMaxTries > 0 => \A t \in Task : runs[t] <= QueueMaxTries * lastItem[t]

\* Whatever fails, no try is recorded without a run of its own: a handler saves
\* the try it made over the record it started from, and a copy of that record
\* is not saved twice.
TriesWithinRuns == \A t \in Task : tasks[t].tries <= runs[t]

----------------------------------------------------------------------------
(***************************************************************************)
(* The inductive invariants behind these properties.                       *)
(***************************************************************************)
\* A handler has a run of t to record.
Recording(p, i, t) == HandlerOn(p, i, t) /\ handler[p][i].pc \in {"run", "save", "discard"}
Unsaved(t) == \E p \in Proc : \E i \in Slot : Recording(p, i, t)

\* The record counts the runs of t up to the one that is still to be recorded,
\* which nobody can come in the way of.
RunsFence(t) ==
  /\ lastItem[t] = 0 => runs[t] = 0
  /\ Exists(t) =>
       /\ \A p \in Proc : \A i \in Slot : Recording(p, i, t) =>
            handler[p][i].rec.seq = tasks[t].seq /\ tasks[t].state = "active"
       /\ runs[t] = tasks[t].tries + (IF Unsaved(t) THEN 1 ELSE 0)
  /\ TaskMaxTries[t] > 0 => runs[t] <= TaskMaxTries[t]

RunsFenced == runs \in [Task -> Nat] /\ \A t \in Task : RunsFence(t)

\* A handler that can still record its try of t had a run that is not recorded.
TriesFence(t) ==
  /\ tasks[t].tries <= runs[t]
  /\ \A p \in Proc : \A i \in Slot :
       /\ handler[p][i].pc \in {"run", "save"} /\ handler[p][i].task = t
       /\ handler[p][i].rec.seq = tasks[t].seq
       => tasks[t].tries + 1 <= runs[t]

TriesFenced == runs \in [Task -> Nat] /\ \A t \in Task : TriesFence(t)

\* The loops that were delivered t and may still start a handler for it.
Pursuers(t) == {p \in Proc : LoopOn(p, t) /\ loop[p].pc \in {"load", "deps", "activate"}}

\* The deliveries of t there were at most.
Delivered(t) ==
  IF HasItem(t) THEN QueueMaxTries * (lastItem[t] - 1) + items[t].deliveries
  ELSE QueueMaxTries * lastItem[t]

\* Each run, and each that may still come of a delivery, has one of its own.
DeliveryFence(t) ==
  /\ HasItem(t) => lastItem[t] > 0 /\ items[t].deliveries <= QueueMaxTries
  /\ IsFiniteSet(Pursuers(t))
  /\ runs[t] + Cardinality(Pursuers(t)) <= Delivered(t)

DeliveriesFenced == runs \in [Task -> Nat] /\ \A t \in Task : DeliveryFence(t)

----------------------------------------------------------------------------
\* A task is enqueued once, and its creator is told whether it was.
EnqueuedOnce == "lostReply" \notin Faults /\ "retry" \notin Operations /\ MaxEnqueues <= 1

\* A task is published at most once.
PublishedOnce == "retry" \notin Operations /\ MaxEnqueues <= 1

OneItem(t) ==
  /\ creator[t].pc \in {"save", "publish"} \/ creator[t].calls = 0 => lastItem[t] = 0
  /\ creator[t].pc # "idle" => creator[t].calls > 0
  /\ lastItem[t] <= 1

OneItemEach == (\A t \in Task : OneItem(t)) /\ \A c \in Client : client[c].pc \in {"idle", "delete"}

Cleared(t) == Parents(t) \subseteq done

\* A record or a creator that could make a worker skip the dependencies of t
\* does not exist as long as there is an item that would bring it to a worker.
TaskCleared(t) ==
  /\ tasks[t].state = "complete" => t \in done
  /\ tasks[t].state = "new" => ~HasDependencies(t)
  /\ tasks[t].state \in {"active", "retry", "complete", "terminated"} => Cleared(t)
  /\ tasks[t].state = "queue_error" \/ creator[t].pc = "queueError" => lastItem[t] = 0
  /\ creator[t].pc \in {"save", "publish"} \/ creator[t].calls = 0 =>
       lastItem[t] = 0 /\ tasks[t].state # "queue_error"
  /\ creator[t].pc # "idle" => creator[t].calls > 0
  /\ HasItem(t) => lastItem[t] > 0

\* While a loop goes through the parents, those it found complete are done.
LoopCleared(p) ==
  LET l == loop[p] IN
  /\ l.pc \in {"limiter", "poll", "load"} => l.ready
  /\ l.pc = "deps" /\ l.ready => \A n \in 1..(l.dep - 1) : Dependencies[l.task][n] \in done
  /\ l.pc = "activate" => Cleared(l.task)
  /\ l.pc \notin {"limiter", "poll"} => lastItem[l.task] > 0

AllCleared ==
  /\ \A t \in Task : TaskCleared(t)
  /\ \A p \in Proc : LoopCleared(p)
  /\ \A p \in Proc : \A i \in Slot : handler[p][i].pc \in {"run", "save"} => Cleared(handler[p][i].task)
  /\ \A c \in Client : client[c].pc \in {"idle", "delete"}

\* Nobody deletes, discards or retries a task, so a success lasts.
Kept == Discard = {} /\ Operations \subseteq {"purge"}

DoneIsComplete ==
  /\ done \subseteq Task
  /\ \A t \in done : tasks[t].state = "complete"
  /\ \A p \in Proc : loop[p].pc # "discard" /\ \A i \in Slot : handler[p][i].pc # "discard"
  /\ \A c \in Client : client[c].pc = "idle"
=============================================================================
