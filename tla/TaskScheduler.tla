--------------------------- MODULE TaskScheduler ---------------------------
(***************************************************************************)
(* The scheduler service (src/task_scheduler.go) and the schedules it      *)
(* follows (the configuration bucket of src/storage.go).  Every member     *)
(* watches the bucket and keeps one cron entry per schedule; the jobs of   *)
(* the leader create tasks.  Leadership stands for the election, which     *)
(* implements it.                                                          *)
(*                                                                         *)
(* The bucket keeps one revision per key.  A watcher gets the revisions in *)
(* order, and only those that are still there when it comes to them.       *)
(***************************************************************************)
EXTENDS Integers, Sequences, FiniteSets

CONSTANTS
  Scheduler,    \* the members
  Schedule,     \* names of schedules
  Operations,   \* what clients do: subset of {"create", "update", "delete"}
  Shutdowns,    \* how members end: subset of {"stop", "cancel", "crash"}
  MaxWrites,    \* bound: writes to the bucket
  MaxRounds,    \* bound: times the schedules come due
  MaxStops      \* bound: members that end

ASSUME SchedulerAssumption ==
  /\ MaxWrites \in Nat /\ MaxRounds \in Nat /\ MaxStops \in Nat

VARIABLES
  bucket,       \* bucket[s]: the last revision of s, and if it is a deletion
  lastRev,      \* the last revision of the bucket
  sched,        \* sched[n]: the scheduler of member n
  leaders,      \* the members that lead
  created,      \* <<schedule, ok>>: its job enqueued a task since schedules last came due
  rounds, stops \* counters of the bounds

vars == <<bucket, lastRev, sched, leaders, created, rounds, stops>>

L == INSTANCE Leadership WITH Node <- Scheduler

\* An entry of the watch channel: a schedule in some revision or its deletion,
\* or nil, which ends the initial values.
Nil == [kind |-> "nil"]
Update(s) == [kind |-> IF bucket[s].deleted THEN "delete" ELSE "put", name |-> s, rev |-> bucket[s].rev]

NewScheduler ==
  [run |-> "new",         \* Run: new, loading, running, returned
   watcher |-> "none",    \* its goroutine: none, select, continue, return, done
   pos |-> 0,             \* the last revision the bucket watch delivered
   initial |-> 0,         \* the revision up to which values are initial ones
   marker |-> FALSE,      \* the nil after the initial values was delivered
   chan |-> <<>>,         \* the channel of ScheduledTasksWatch
   closed |-> FALSE,
   ready |-> FALSE,       \* the channel ready holds a value
   tasks |-> [s \in Schedule |-> [rev |-> 0, cronID |-> 0]],
   cron |-> {},           \* entries, as <<cronID, name>>
   lastID |-> 0,
   due |-> {},            \* entries whose job was started and has not run
   jobs |-> {},           \* jobs that found they lead and are about to enqueue
   stopped |-> FALSE,     \* s.ctx is cancelled
   cancelled |-> FALSE]   \* the context of the caller is cancelled

Become(n, m) == sched' = [sched EXCEPT ![n] = m]

Init ==
  /\ bucket = [s \in Schedule |-> [rev |-> 0, deleted |-> TRUE]]
  /\ lastRev = 0
  /\ sched = [n \in Scheduler |-> NewScheduler]
  /\ leaders = {}
  /\ created = {}
  /\ rounds = 0 /\ stops = 0

----------------------------------------------------------------------------
(* Clients: SaveScheduledTask and DeleteScheduledTaskByName. *)

Write(s, deleted) ==
  /\ lastRev < MaxWrites
  /\ lastRev' = lastRev + 1
  /\ bucket' = [bucket EXCEPT ![s] = [rev |-> lastRev + 1, deleted |-> deleted]]
  /\ UNCHANGED <<sched, leaders, created, rounds, stops>>

CreateSchedule(s) == "create" \in Operations /\ bucket[s].deleted /\ Write(s, FALSE)

UpdateSchedule(s) == "update" \in Operations /\ Write(s, FALSE)

DeleteSchedule(s) == "delete" \in Operations /\ Write(s, TRUE)

----------------------------------------------------------------------------
(* Run, prepareAndWatch and the goroutines they start. *)

Local == UNCHANGED <<bucket, lastRev, leaders, created, rounds, stops>>

\* Run makes its context and starts the election and the watch.
Run(n) ==
  /\ sched[n].run = "new"
  /\ Become(n, [sched[n] EXCEPT !.run = "loading", !.watcher = "select", !.initial = lastRev])
  /\ Local

\* The revisions the watch has yet to deliver.
Pending(n) == {s \in Schedule : bucket[s].rev > sched[n].pos}

InitialDone(n) == \A s \in Pending(n) : bucket[s].rev > sched[n].initial

\* ScheduledTasksWatch passes on the next revision, or the nil marker.
ForwardUpdate(n) ==
  LET m == sched[n]
  IN
  /\ m.watcher # "none" /\ ~m.closed /\ ~m.cancelled
  /\ \/ /\ InitialDone(n) /\ ~m.marker
        /\ Become(n, [m EXCEPT !.chan = Append(m.chan, Nil), !.marker = TRUE])
     \/ \E s \in Pending(n) :
          /\ \A u \in Pending(n) : bucket[s].rev <= bucket[u].rev
          /\ m.marker \/ bucket[s].rev <= m.initial
          /\ Become(n, [m EXCEPT !.chan = Append(m.chan, Update(s)), !.pos = bucket[s].rev])
  /\ Local

\* ScheduledTasksWatch closes its channel when the context is done.
CloseWatch(n) ==
  /\ sched[n].watcher # "none" /\ sched[n].cancelled /\ ~sched[n].closed
  /\ Become(n, [sched[n] EXCEPT !.closed = TRUE])
  /\ Local

\* deleteItem: the cron entry goes, the entry of s.tasks stays.
deleteItem(m, name) ==
  [m EXCEPT !.cron = {e \in m.cron : e # <<m.tasks[name].cronID, name>>}]

\* Mutant of addItem: a schedule that is known is not replaced.
addItemOnce(m, name, rev) ==
  IF m.tasks[name].rev > 0 THEN m
  ELSE [m EXCEPT !.lastID = m.lastID + 1,
                 !.cron = m.cron \cup {<<m.lastID + 1, name>>},
                 !.tasks[name] = [rev |-> rev, cronID |-> m.lastID + 1]]

\* A new cron entry; s.tasks has the item and the id of this entry.  One step: a
\* job of the entry that starts between AddFunc and the assignment finds no item
\* or the one before, and is skipped or creates from that.  Every schedule in the
\* bucket was validated by its writer, so AddFunc accepts it.
addItem(m, name, rev) ==
  [m EXCEPT !.lastID = m.lastID + 1,
            !.cron = m.cron \cup {<<m.lastID + 1, name>>},
            !.tasks[name] = [rev |-> rev, cronID |-> m.lastID + 1]]

\* Mutant of WatchItem: the nil after the initial values ends the goroutine.
WatchItemReturns(n) ==
  LET m == sched[n]
      rest == [m EXCEPT !.chan = Tail(m.chan)]
      item == Head(m.chan)
  IN
  /\ m.watcher = "select" /\ m.chan # <<>>
  /\ Become(n, CASE item.kind = "nil" -> [rest EXCEPT !.watcher = "return"]
                 [] item.kind = "delete" -> deleteItem(rest, item.name)
                 [] item.kind = "put" -> addItem(rest, item.name, item.rev))
  /\ Local

\* The goroutine receives from the channel.  A closed channel gives nil.
WatchItem(n) ==
  LET m == sched[n]
      rest == [m EXCEPT !.chan = IF m.chan = <<>> THEN <<>> ELSE Tail(m.chan)]
      item == IF m.chan = <<>> THEN Nil ELSE Head(m.chan)
  IN
  /\ m.watcher = "select"
  /\ m.chan # <<>> \/ m.closed
  /\ Become(n, CASE item.kind = "nil" -> [rest EXCEPT !.watcher = "continue"]
                 [] item.kind = "delete" -> deleteItem(rest, item.name)
                 [] item.kind = "put" -> addItem(rest, item.name, item.rev))
  /\ Local

\* It sees that the context is done.
WatchDone(n) ==
  /\ sched[n].watcher = "select" /\ sched[n].cancelled
  /\ Become(n, [sched[n] EXCEPT !.watcher = "return"])
  /\ Local

\* It sends on the channel ready, of capacity 1, and goes on or returns.
SendReady(n) ==
  /\ sched[n].watcher \in {"continue", "return"}
  /\ ~sched[n].ready
  /\ Become(n, [sched[n] EXCEPT !.ready = TRUE,
                  !.watcher = IF sched[n].watcher = "continue" THEN "select" ELSE "done"])
  /\ Local

\* Mutant of Loaded: cron is started without waiting for the initial values.
LoadedAtOnce(n) ==
  /\ sched[n].run = "loading"
  /\ Become(n, [sched[n] EXCEPT !.run = "running", !.ready = FALSE])
  /\ Local

\* prepareAndWatch receives from ready, and Run starts cron.
Loaded(n) ==
  /\ sched[n].run = "loading" /\ sched[n].ready
  /\ Become(n, [sched[n] EXCEPT !.run = "running", !.ready = FALSE])
  /\ Local

\* Run sees that s.ctx is done: it stops cron and returns.
RunReturns(n) ==
  /\ sched[n].run = "running"
  /\ sched[n].stopped \/ sched[n].cancelled
  /\ Become(n, [sched[n] EXCEPT !.run = "returned", !.stopped = TRUE])
  /\ Local

----------------------------------------------------------------------------
(* Jobs. *)

CronRuns(n) == sched[n].run = "running" /\ ~sched[n].stopped

\* The schedules come due: each cron starts the job of each of its entries.
\* A round ends before the next one starts.
ComeDue ==
  /\ rounds < MaxRounds
  /\ \A n \in Scheduler : sched[n].due \cup sched[n].jobs = {}
  /\ rounds' = rounds + 1
  /\ sched' = [n \in Scheduler |-> IF CronRuns(n) THEN [sched[n] EXCEPT !.due = sched[n].cron] ELSE sched[n]]
  /\ created' = {}
  /\ UNCHANGED <<bucket, lastRev, leaders, stops>>

\* Mutant of RunJob: only the entry that is current creates a task.
RunJobCurrent(n, e) ==
  LET m == sched[n]
      creates == m.tasks[e[2]].cronID = e[1] /\ n \in leaders
  IN
  /\ e \in m.due
  /\ Become(n, [m EXCEPT !.due = @ \ {e}, !.jobs = IF creates THEN @ \cup {e} ELSE @])
  /\ Local

\* The function of handlerFactory first looks, under the lock, for the schedule
\* and whether this member leads.
RunJob(n, e) ==
  LET m == sched[n]
      creates == m.tasks[e[2]].rev > 0 /\ n \in leaders
  IN
  /\ e \in m.due
  /\ Become(n, [m EXCEPT !.due = @ \ {e}, !.jobs = IF creates THEN @ \cup {e} ELSE @])
  /\ Local

\* It then enqueues the task, whoever leads by now.  The storage may refuse it,
\* and does if s.ctx was cancelled; the job does not try again.
EnqueueJob(n, e) ==
  LET m == sched[n]
      fails == m.stopped \/ m.cancelled
  IN
  /\ e \in m.jobs
  /\ Become(n, [m EXCEPT !.jobs = @ \ {e}])
  /\ \E ok \in BOOLEAN : (ok => ~fails) /\ created' = created \cup {<<e[2], ok>>}
  /\ UNCHANGED <<bucket, lastRev, leaders, rounds, stops>>

----------------------------------------------------------------------------
(* Leadership, and the ends of members. *)

Remote == UNCHANGED <<bucket, lastRev, sched, created, rounds, stops>>

\* onWon.
OnWon(n) ==
  /\ sched[n].run # "new" /\ ~sched[n].cancelled
  /\ L!Win(n)
  /\ Remote

\* onLost: the election refused an update.
OnLost(n) == ~sched[n].cancelled /\ L!Lose(n) /\ Remote

\* onLost: the election runs on the context of the caller and sees it end.
OnLostShutdown(n) == sched[n].cancelled /\ L!Lose(n) /\ Remote

Ends(n, how) ==
  /\ how \in Shutdowns /\ sched[n].run # "new" /\ stops < MaxStops
  /\ stops' = stops + 1
  /\ UNCHANGED <<bucket, lastRev, created, rounds>>

\* Stop stops cron and cancels s.ctx.
Stop(n) ==
  /\ Ends(n, "stop") /\ ~sched[n].stopped
  /\ Become(n, [sched[n] EXCEPT !.stopped = TRUE])
  /\ UNCHANGED leaders

\* The caller cancels the context it gave to Run.
Cancel(n) ==
  /\ Ends(n, "cancel") /\ ~sched[n].cancelled
  /\ Become(n, [sched[n] EXCEPT !.cancelled = TRUE])
  /\ UNCHANGED leaders

\* The process ends, and may be started again.
Crash(n) ==
  /\ Ends(n, "crash")
  /\ Become(n, NewScheduler)
  /\ leaders' = leaders \ {n}

Step(n) ==
  \/ ForwardUpdate(n) \/ CloseWatch(n) \/ WatchItem(n) \/ WatchDone(n) \/ SendReady(n)
  \/ Loaded(n) \/ RunReturns(n)

Next ==
  \/ \E s \in Schedule : CreateSchedule(s) \/ UpdateSchedule(s) \/ DeleteSchedule(s)
  \/ \E n \in Scheduler :
       \/ Run(n) \/ Step(n) \/ (\E e \in sched[n].due : RunJob(n, e))
       \/ (\E e \in sched[n].jobs : EnqueueJob(n, e))
       \/ OnWon(n) \/ OnLost(n) \/ OnLostShutdown(n)
       \/ Stop(n) \/ Cancel(n) \/ Crash(n)
  \/ ComeDue

Spec == Init /\ [][Next]_vars

\* Every goroutine that can go on does: that of ScheduledTasksWatch, the one
\* prepareAndWatch starts, Run, the election and the jobs of cron.
Fairness ==
  \A n \in Scheduler :
    /\ WF_vars(ForwardUpdate(n) \/ CloseWatch(n))
    /\ WF_vars(WatchItem(n) \/ WatchDone(n) \/ SendReady(n))
    /\ WF_vars(Loaded(n) \/ RunReturns(n))
    /\ WF_vars(OnLostShutdown(n))
    /\ WF_vars(\E e \in sched[n].due : RunJob(n, e))
    /\ WF_vars(\E e \in sched[n].jobs : EnqueueJob(n, e))

----------------------------------------------------------------------------
\* The scheduler of n has seen every change of the bucket.
CaughtUp(n) ==
  /\ sched[n].run = "running"
  /\ sched[n].chan = <<>>
  /\ Pending(n) = {}

Entries(n, s) == {e \in sched[n].cron : e[2] = s}

\* A member that has seen every change has a cron entry for each schedule, and
\* its job creates tasks from the last revision of the schedule, however often
\* the schedule was updated, or removed and created again.
FollowsBucket ==
  \A n \in Scheduler : CaughtUp(n) =>
    \A s \in Schedule : ~bucket[s].deleted =>
      Entries(n, s) # {} /\ sched[n].tasks[s].rev = bucket[s].rev

\* A schedule that was there when the scheduler started is known by the time
\* cron runs: prepareAndWatch waits for all initial values.  The schedule may
\* have been replaced or removed since, then its change is still to come.
LoadedBeforeCron ==
  \A n \in Scheduler : sched[n].run = "running" /\ ~sched[n].cancelled =>
    \A s \in Schedule :
      0 < bucket[s].rev /\ bucket[s].rev <= sched[n].initial /\ ~bucket[s].deleted =>
        Entries(n, s) # {}

\* A schedule that has come due on the leader enqueues a task, even if it was
\* updated or removed before its job ran, unless the leader steps down or ends:
\* nothing but an error of the storage keeps the task from being created.
LeaderCreates ==
  \A n \in Scheduler, s \in Schedule :
    (n \in leaders /\ \E e \in sched[n].due : e[2] = s) ~>
      ((\E ok \in BOOLEAN : <<s, ok>> \in created) \/ n \notin leaders \/ sched[n].stopped \/ sched[n].cancelled)

\* A change of a schedule reaches every member that goes on running.
ChangesArrive ==
  \A n \in Scheduler : (sched[n].run = "running") ~> (CaughtUp(n) \/ sched[n].run # "running" \/ sched[n].cancelled)

\* A member creates tasks only while it leads: "only the leader creates tasks"
\* (scheduled-tasks.md).
OnlyLeaderCreates ==
  [][\A n \in Scheduler : \A e \in sched[n].jobs :
       EnqueueJob(n, e) /\ <<e[2], TRUE>> \in created' \ created => n \in leaders]_vars

\* A member that has seen every change has one cron entry for each schedule:
\* "Restarts and signals are not required when schedules are added, removed, or
\* updated" (scheduled-tasks.md).
OneEntryPerSchedule ==
  \A n \in Scheduler : CaughtUp(n) => \A s \in Schedule : Cardinality(Entries(n, s)) <= 1

\* A member that has seen every change has no cron entry for a schedule that
\* was removed.
RemovedNotScheduled ==
  \A n \in Scheduler : CaughtUp(n) => \A s \in Schedule : bucket[s].deleted => Entries(n, s) = {}

\* Count of a member that has seen every change: the schedules there are.
CountIsExact ==
  \A n \in Scheduler : CaughtUp(n) =>
    \A s \in Schedule : sched[n].tasks[s].rev > 0 => ~bucket[s].deleted

\* A scheduler that was stopped does not stay the leader.
StopReleasesLeadership == \A n \in Scheduler : sched[n].stopped ~> n \notin leaders

\* When the context ends the background goroutine ends, so that the caller who
\* waits for it goes on.
ShutdownCompletes ==
  \A n \in Scheduler : (sched[n].cancelled /\ sched[n].watcher # "none") ~> sched[n].watcher \in {"done", "none"}

\* Condition on a step: a schedule is saved only when it is not there, and not
\* before its removal was delivered to every member that runs.
Patient ==
  \A s \in Schedule : bucket'[s] # bucket[s] /\ ~bucket'[s].deleted =>
    bucket[s].deleted /\ \A n \in Scheduler : sched[n].run = "new" \/ sched[n].pos >= bucket[s].rev

\* Message i of the channel of m saves or removes schedule s.
Puts(m, s, i) == m.chan[i].kind = "put" /\ m.chan[i].name = s
Removes(m, s, i) == m.chan[i].kind = "delete" /\ m.chan[i].name = s

\* Member m has no cron entry for s once it has received the messages before k.
Removed(m, s, k) ==
  \/ \E i \in 1..(k - 1) : Removes(m, s, i) /\ \A j \in (i + 1)..(k - 1) : ~Puts(m, s, j)
  \/ (\A e \in m.cron : e[2] # s) /\ \A j \in 1..(k - 1) : ~Puts(m, s, j)

\* Invariant of patient clients: the one cron entry of s is the one that
\* deleteItem will find, a save reaches a member that has none, and a removal
\* that was delivered leaves none.
Single(m, s, b) ==
  /\ \A e \in m.cron : e[2] = s => e[1] = m.tasks[s].cronID
  /\ \A k \in 1..Len(m.chan) : Puts(m, s, k) => Removed(m, s, k)
  /\ (b.deleted <=> b.rev <= m.pos) => Removed(m, s, Len(m.chan) + 1)

SingleEntries == \A n \in Scheduler, s \in Schedule : Single(sched[n], s, bucket[s])
=============================================================================
