# A verification of asyncjobs

This directory models [choria-io/asyncjobs](../src), a task queue on NATS
JetStream, in TLA+. TLC checks the models on small instances; TLAPS proves the
central safety properties for every value of the constants. Paths below are
relative to `src/`.

## 1. The system

| Part | Code | Role |
|---|---|---|
| Task store | `storage.go`, `task.go` | One record per task: the last message on a subject. A save names the sequence its writer last saw and is refused when that is no longer the last one (compare and swap). |
| Work queue | `storage.go` `createQueue`, `queue.go` | A JetStream work queue: one item per enqueued task, delivered under a lease (`AckWait` = MaxRunTime), at most `MaxDeliver` = MaxTries times, at most `MaxAckPending` = MaxConcurrent at once. |
| Processor | `processor.go`, `client.go` | Polls the queue while it has a limiter token, loads the task, checks state, deadline, tries and dependencies, claims it by a save, runs the handler in a goroutine, records the outcome and finishes the item. |
| Client | `client.go`, `storage.go` | Saves and publishes new tasks; retries, deletes, purges. |
| Router, retry policies, request-reply | `mux.go`, `retrypolicy.go`, `request_reply_handler.go` | Which handler runs, how long a retry waits, handlers that live in another process. |
| Scheduler, election | `task_scheduler.go`, `election/election.go` | Members watch a bucket of schedules; the elected leader creates the tasks. |
| Set-up, signatures | `storage.go`, `client.go`, `task.go` | Load-or-create of streams and buckets; ed25519 signatures over a task. |
| HTTP API | `httpserver/` | The client's operations, idempotency keys, listings. |
| Others | `ajc/`, `generators/`, `lifecycle.go`, metrics, generated bindings | Not modelled, see section 8. |

The processor and the client share nothing but the store and the queue. All
coordination between workers is the sequence check of a save; the queue may
deliver an item again while an earlier handler still runs.

## 2. Modules

```
Jobs <- TaskStore, WorkQueue <- Processor, Client <- AsyncJobs <- AsyncJobsHistory
                                TaskLifecycle (abstract)  ^--- implemented by AsyncJobs
Leadership (abstract) <- implemented by Election, used by TaskScheduler
MCAsyncJobs, MCAsyncJobsHistory                          instances of the core
MCService:  Election, TaskScheduler
MCLibrary:  HandlerRun, RequestReply, Mux, RetryPolicy, Setup, Signing
MCHttp:     HttpApi, TaskListing
AsyncJobsProofs, WorkerProofs, HistoryProofs             about AsyncJobs, AsyncJobsHistory
ElectionProofs, SchedulerProofs                          about Election, TaskScheduler
LibraryProofs                                            about all of MCLibrary's modules
HttpProofs, ListingProofs                                about HttpApi, TaskListing
```

**TaskStore** holds `tasks[t]` (sequence, state, tries) and `lastSeq[t]`.
`Accept` is the server's side of `SaveTaskState`, `DeleteMessage` that of
`DeleteTaskByID`. Sequences are counted per task because they are only compared
within one subject. Two facts stand for time: the task was last tried MaxRunTime
ago (`overdue`), its deadline is over (`pastDeadline`).

**WorkQueue** holds `items[t]` (deliveries, leased or not) and the message IDs
inside the duplicate window. It is the server's behaviour as configured by
`createQueue`.

**Processor** has one `loop[p]` (`processMessages`, `pollItem`,
`processMessage`, `processDependencies`) and `handler[p][i]`, the goroutines of
`handle`, per process. A program counter separates the requests to the server, so
that other threads run between them: loading the task, loading each parent,
claiming, saving or discarding the outcome (a look-up and a deletion), finishing
the item. `Crash` loses all of it.

**Client** has a creator per task (`EnqueueTask`: save, publish, record a queue
error) and callers of `RetryTaskByID`, `DeleteTaskByID` and `PurgeQueue`.

**AsyncJobs** composes the four, adds the passing of time and states the
properties. **AsyncJobsHistory** adds history variables (runs per task, tasks that
succeeded) that never constrain a step. **TaskLifecycle** is what a user may rely
on: create, claim, finish with exactly one more try, give up, retry, remove.

**Election** is one key with a TTL in discrete time, and a campaign goroutine per
member with its callbacks. It has the ticker of the fixed interval and the one
`WithBackoff` resets, requests that fail and answers that get lost, writes and
deletions of the key by somebody else, stops and crashes. A leader steps down on
every error but those of its context, also when the record is still its own
(`RequestFails`). The revision of the key is kept only as far as
a member knows it: absent, known to one member, or known to nobody.
**Leadership** is its promise: a member is told it won only while nobody else
leads. **TaskScheduler** uses Leadership in place of the
election; per member it has the watch, its channels, the table, cron entries and
the jobs between reading the leader flag and enqueueing, which the storage may
refuse. `addItem` is one step: a job that starts between `AddFunc` and the
assignment to the table finds no item, and is skipped, or the one before. The path
of an invalid schedule is left out, as writers validate what they save.

**HandlerRun** is the race of the handler's timer with the server's lease;
**RequestReply** a call with its deadline header in whole seconds; **Mux** the
routes, sorted by an unstable sort, and middleware; **RetryPolicy** the delays
with their jitter. **HttpApi** has one step per call a handler makes to the
library. **TaskListing** has the consumer, the callback, the closing goroutine and
the reader. **Setup** is the two-request load-or-create of each asset. It takes
from the JetStream API that creating what exists with another configuration is an
error, for a stream as for the durable consumer (`storage.go:461`, by way of jsm.go);
`ReadyAgrees` rests on that.
**Signing** represents a signature by what it was computed over; keys are given
directly or in files that are read at every use and may be replaced or damaged.

`PROJECT.json` maps each definition to its lines. Definitions marked "Mutant of
..." are faulty variants, used to show that a property would notice.

## 3. Runs

`tlc -workers 2 -config <cfg> <module>`; each takes under two minutes.

| Run | Instance | Shows |
|---|---|---|
| faults | 1 task, 2 workers, crash, slow, lost request, lost reply, 1 retry, 2 tries | `SoleOwner`, `TriesBounded`, `Fenced`, `FinalUnlessRetried`, `ImplementsLifecycle` |
| discard | 1 task with deadline enqueued up to twice, 2 slow workers that discard, retry / delete / purge (1 592 000 states) | `NotResurrected` |
| dependencies | t3 waits for t1 and t2, t4 for nothing and has two tries, 2 workers with 2 slots, MaxConcurrent 2 (828 000 states) | `RunsAfterParents`, `UnreachableMeansFailed`, `RunsBounded`, `TriesCountRuns`, `TokensConserved`, `InFlightBounded`, `TerminatedNotRun` |
| progress | t2 waits for t1, 2 workers, crashes, 3 deliveries | `EventuallySettled`, `QueueDrains`, `OneWorker` |
| service | election: 2 members, TTL 4, timeout 2, no back-off or intervals 1 and 3, no two messages lost in a row, failed requests, overwrites, deletions of the key while nobody was told it leads, 3 faults. Scheduler: 1 member, 2 schedules, 3 writes or 2 writes and a round of jobs, 1 stop, cancel or crash (355 000 states) | `ToldApart`, `CallbacksAgree`, `ImplementsLeadership`, `EventuallyLed`, `FollowsBucket`, `LoadedBeforeCron`, `ChangesArrive`, `LeaderCreates` |
| library | handler clocks; request-reply with deadlines on both sides of each limit; 3 routes; all policies; 2 clients, or 1 client and 2 posts, with a queue deletion; 2 signers with 2 keys and 2 changes of files (710 000 states) | `LockStep`, `TimelyAnswerCounts`, `RoutesToLongestPrefix`, `DelayInBounds`, `BackoffGrows`, `ReadyAgrees`, `BindersCreateNothing`, `SignedStaysLoadable` |
| http | 2 requests, 2 keys, 2 tasks, 1 restart; 1 or 2 listings of up to 3 tasks | `AtMostLimit`, `CompleteListing`, `ListingEnds`, `SemaphoreFreed`, `ReplayCreatesNothing`, `CreatedOnce`, `BulkAccurate`, `OneCreateWins` |
| unreachable_chain | t3 waits for t2 waits for t1 | violates `UnreachableSpreads` |
| two_leaders | the election without back-off, two lost messages in a row | violates `OneLeader` |
| update_duplicates | the scheduler, create and update | violates `OneEntryPerSchedule` |
| no_deadline | the request-reply call | violates `TaskIsDispatched` |
| panics | as http | violates `NeverPanics` |

Modules that share no state are put in one run by a variable `part` that never
changes: a behaviour explores one part and leaves the others at rest.

**Bounds.** Two workers are needed for a claim to be contested, and two suffice
for every pair of threads the properties compare; the proofs remove the bound for
the core. One retry call reaches a retry in every state of a task. Two tries
distinguish first, last and one too many. A TTL of 4 with a timeout of 2 keeps
the proportion of the smallest bucket allowed (10 s) to the request timeout
(5 s), with the campaign interval at 75 % of the TTL. One scheduler member is
enough for what a member does with the bucket, since members meet only in the
election; two writes to one schedule reach every replacement, three also a
removal in between. MaxDeliveries 55 passes
the 50 steps of the policies. unreachable_chain has the unlimited `MaxDeliver` a queue gets
when its MaxTries is not set, which keeps the queue from
giving up first.

**Deadlock** is not checked: each run has parts that stop when the work is done or
a bound is met. What must go on is stated as liveness instead.

## 4. Fairness

- Core (`Fairness` in AsyncJobs): goroutines that can go on do, a handler returns
  (its context ends), leases and MaxRunTime run out. Polling is strongly fair per
  task: an item that can be delivered time and again eventually is, since a
  consumer delivers in stream order. Calls, crashes and faults are never forced;
  message IDs need not be forgotten.
- Election (`ElectionFairness`): the campaign goroutines run, the server removes a
  record that is TTL old and time passes. Faults are bounded by `MaxFaults` and
  never forced, nor is a start.
- Scheduler (`Fairness` in TaskScheduler): the forwarding goroutine, the watcher,
  `Run` and the jobs run. Winning and losing an election is not fair, except
  that an election whose context ends reports it.
- Listing: goroutines run, the server pushes, the minute passes; callers,
  failures and writers may do nothing.

## 5. Proofs

`tlapm <module>` checks them. Assumptions are the named ASSUMEs of the modules
(`JobsAssumption` and those of WorkQueue, Processor, Client; `RunAssumption`,
`RequestReplyAssumption`, `ElectionAssumption`, `SchedulerAssumption`,
`SetupAssumption`, `SigningAssumption`, `PolicyAssumption`, `MuxAssumption`,
`HttpAssumption`, `ListingAssumption`), which TLC evaluates on every run that
extends the module, and the condition the table names.

| Theorem | Module | States |
|---|---|---|
| `FencedHolds`, `TypeCorrect`, `SoleOwnerHolds` | AsyncJobsProofs | the inductive invariant, types, one owner per task |
| `OneWorkerHolds` (given `Undisturbed`) | AsyncJobsProofs | a task is in the hands of one thread at a time |
| `TokensAreConserved` | WorkerProofs | limiter tokens |
| `InFlightIsBounded` (given `Undisturbed`, no purge) | WorkerProofs | MaxConcurrent bounds the running handlers of all workers |
| `TriesNeedRuns` | WorkerProofs | under all faults and operations, no try is recorded without a run |
| `TriesKeepToQueue` (given `PublishedOnce`) | WorkerProofs | the recorded tries stay within the queue's MaxTries |
| `DeliveriesBoundRuns` | WorkerProofs | under all faults and operations, at most the queue's MaxTries runs per item published |
| `RefinesLifecycle` | HistoryProofs | AsyncJobs implements TaskLifecycle |
| `OutcomesAreFinal`, `DeletionIsFinal`, `TriesAreBounded` | HistoryProofs | the three step and bound properties |
| `TerminatedIsFinal` (given `Recorded`) | HistoryProofs | a terminated task is not taken up again |
| `RunsAreBounded`, `TriesAreRuns` (given `Recorded`) | HistoryProofs | at most MaxTries runs, each recorded as one try |
| `QueueErrorsHaveNoItem` (given `EnqueuedOnce`) | HistoryProofs | a task in `queue_error` has no item |
| `RunsFollowParents` (given `EnqueuedOnce`) | HistoryProofs | no handler starts before all parents succeeded, for any dependency graph |
| `JudgedByFailure` (given `Kept`) | HistoryProofs | a task is judged unreachable only while a parent has not succeeded |
| `AtMostOneTold`, `OneLeaderAtATime` (given `Paced`) | ElectionProofs | the inductive invariant `ToldApart`, at most one member told it leads |
| `ObserverAgrees` | ElectionProofs | callbacks and `IsLeader` agree, for any times, back-offs, losses, failures and deletions |
| `ElectionImplementsLeadership` (given `Paced`) | ElectionProofs | Election implements Leadership |
| `SchedulersFollow`, `SchedulersLoadFirst` | SchedulerProofs | no change of the bucket is lost; cron waits for the initial values |
| `PatienceKeepsOneEntry`, `PatienceLeavesNone` (given `Patient`) | SchedulerProofs | one cron entry per schedule, none for one that was removed |
| `ClocksInLockStep`, `TimelyAnswersCount` | LibraryProofs | timer and lease; the request-reply deadline |
| `ClientsAgree`, `BindersOnlyBind`, `SignedTasksLoad` | LibraryProofs | set-up by any number of clients; signatures through any saves, retries and key files |
| `DelaysAreBounded`, `BackoffNeverShrinks` | LibraryProofs | how far the delay of a retry may leave the range of its policy, and that it grows, for every predefined policy and any number of tries |
| `LongestPrefixWins` | LibraryProofs | routing, for any task types, routes and middleware |
| `ReplaysCreateNothing`, `TasksAreCreatedOnce`, `BulkRetriesAreAccurate`, `OneCreatorPerSchedule` | HttpProofs | what an answer of the API means, for any number of overlapping requests |
| `OrderlyRepeatsMakeNone` (given `Orderly`, no expiry, no restart) | HttpProofs | the requests with one Idempotency-Key leave one task |
| `LimitHolds`, `ListingIsComplete` | ListingProofs | what a listing shows, for any number of listings, tasks and limits |
| `PanicsNeedHurry` (given `Unhurried`) | ListingProofs | no send on a closed channel |
| `RepeatsNeedSave` (given `NoneMoved`) | ListingProofs | no task is shown twice |

The conditions say what the code does not guarantee by itself; section 6 gives the
causes. `Undisturbed`, `Recorded`, `EnqueuedOnce` as far as `RunsAfterParents` needs
it and `Kept` are as weak as they can be in these terms: with any one of the
disturbances they exclude, and no other, TLC finds each of their properties
violated (1 or 2 tasks, 2 workers; InFlightBounded with MaxConcurrent 1).

| Condition | Says | Leaves in |
|---|---|---|
| `Undisturbed` | no worker is slower than its lease, no second `EnqueueTask` of a task and no retry call | crashes, lost requests and replies, deletions, discards, purges |
| `Recorded` | `Undisturbed`, no crash, and no request is lost | lost replies, deletions, discards, purges |
| `EnqueuedOnce` | no second `EnqueueTask`, no retry call, and the creator hears whether its task was enqueued | crashes, slow workers, lost requests, deletions, discards, purges |
| `PublishedOnce` | no second `EnqueueTask` and no retry call | crashes, slow workers, lost requests and replies, deletions, discards, purges |
| `Kept` | nobody discards, deletes or retries a task | crashes, slow workers, lost requests and replies, repeated enqueues, purges |

Those outside the core are conditions on the steps of clients:

| Condition | Says | Leaves in |
|---|---|---|
| `Paced` | no two messages of a member of the election are lost in a row, nobody deletes the key of a member that was told it leads, and a back-off fits into the TTL | single losses, failed requests, overwrites and other deletions of the key, crashes, restarts |
| `Patient` | a schedule is saved only when it is not there, and not before its removal was delivered to every member that runs | any delay in the channel, crashes, restarts, removals at any time |
| `Orderly` | a request with a key is sent when none with this key is in progress, and a stored task can be loaded | failed enqueues, deletions, any interleaving of different keys and other requests |
| `Unhurried` | no minute of a listing passes, no caller leaves | saves, deletions, failures, slow readers, limits |
| `NoneMoved` | no task is saved that a subscribed listing was already sent | saves of other tasks, time-outs, callers that leave |

*Fenced.* `SoleOwner` is not inductive: it says nothing of a thread that has
loaded a task and not saved it yet. `Fenced` says for every thread, at every
program counter at which it holds a record, that the record's sequence is at most
the last one given out, and that if it is the store's current sequence then the
stored state and tries are what the thread may rely on: a running handler's record
is `active` with one try less than the handler counts, a loop about to claim holds
what is stored, a retry that saved sees `retry`. `HandlersDistinct` adds that no
two unsaved handlers hold the same sequence. A save with a current sequence gets a
new sequence, which makes every other copy stale; a save with a stale one changes
nothing; a deletion leaves sequence 0, which no worker's copy has. The proof has one
lemma per action, and under it one step per conjunct the action can disturb.

*Refinement.* Given `Fenced`, each save maps to one step of TaskLifecycle and
everything else to a stutter. `TryLeft` (an active task has a try left) closes
`TriesBounded`.

*Tokens.* Counting busy slots with `Cardinality` needs lemmas on adding and
removing a slot; the rest is one case per exit of the loop and of the handler.

*One worker.* `OneWorker` counts threads, and what keeps a second one away is in
the queue: `Exclusive` adds that the item a thread works on is leased to it or
gone (`LeaseFence`), and that no creator can publish another. A delivery needs an
item that is not leased; a lease ends only with the thread that holds it, by its
answer or by a crash.

*In flight.* A running handler still has the item it was given (`Owned`), leased by
`Exclusive`, and `MaxAckPending` bounds the leases (`Pending`). So the map from
handlers to their tasks is an injection into a set of at most MaxConcurrent. A purge
takes the item from under the handler, which is why the theorem excludes it.

*Runs.* `RunsFence` says that the runs of a task are its recorded tries plus one
while a handler has its outcome to save, and that such a handler's record is the
stored one. With one worker per task the save cannot be refused, so no run goes
unrecorded. `TermFence`: the item of a terminated task is gone, or held by the
handler that is about to remove it.

*Deliveries.* What holds of the runs when workers crash is weaker, but needs no
condition. `DeliveryFence` says that the runs of a task, plus the loops that were
delivered it and may still start a handler, are at most its deliveries. An item
that leaves the queue or is replaced was delivered at most MaxDeliver times, so
deliveries are at most MaxDeliver for each item published (`lastItem` counts them).

*Tries.* `TriesFence` adds to `TriesWithinRuns` that a handler which holds the
current record of its task, and so can still save a try, has a run no try
stands for yet. A handler whose record is stale is refused by the store. With
`OneItemEach` (a task has one item in its life, as neither creator nor client publishes
a second) and `DeliveriesBoundRuns` the tries are at most the deliveries of that item.

*Dependencies.* A worker skips the check of a task whose record is not `blocked`.
`AllCleared` says where such a record can come from: once an item exists the record of a
task with unfinished parents is `blocked` or final (`TaskCleared`), and a loop that got
as far as its claim has seen each parent `complete` (`LoopCleared`), which the
history set `done` never forgets. `DoneIsComplete` is the converse direction for
`JudgedByFailure`: a task that succeeded is still stored as `complete`.

*LockStep* needs `RunInv`: while the worker has yet to arm its timer, delay plus
remaining lease cover MaxRunTime.

*Election.* A leader learns late that its record is gone, and nothing but time
keeps it apart from the next one: the successor is told that it won only after its
first interval. `Certain(m)` is the time until a member that was told it leads is
certain to have had an answer or to have been told that it lost; `ToldApart` says
that it is shorter than the rest of the record's life while the record is its own,
and shorter than the time the successor still waits once it is not. It needs
`Paced`: no two messages of a member lost in a row, no deletion of the key of a
leader, and, with a back-off, a first interval that together with the timeout of a
request fits into the TTL. The code guarantees none of them. The run `two_leaders`
shows that the first is needed. A deletion lets a successor in at once: its first
interval may then end in the instant the leader learns that it lost, or one lost
message before that (section 6). Each step lemma shows `Kept`: the part of the
invariant about single members, `ObjectsOK`, needs no condition, and `ObserverAgrees`
follows from it alone.

*Scheduler.* `FollowsBucket` is about a member that has seen every change, so the
invariant has to say where a change is before that: the last revision of a
schedule that exists is still to be delivered, or in the channel, or applied
(`Followed`). That an older message cannot undo a newer one comes from the order
of revisions (`Ordered`), which holds because the watch delivers them in order and
revisions are unique. `Marked` says that the nil marker has all initial values
before it and none behind it; `Waited` that nobody signals `ready`, and `Run` does
not start cron, before the marker was received, unless the context was cancelled.
`MemberOK` is the conjunction, per member; a write to the bucket disturbs every
member, all other steps one.

*One entry.* `deleteItem` removes the entry whose ID the table has, and `addItem`
overwrites that ID. `Single` therefore says that the entries of a schedule are the one the
table knows, and, for each save in the channel and for one still to be delivered, that the member
has no entry by the time it receives it: there is none now, or a removal comes first
(`Removed`). A save by a `Patient` client follows a removal that was
delivered, so it is in the channel or applied.

*HTTP.* `CreatedOnce` relates two requests, and a replay gets its task from the
table of keys, so the invariant `ApiInv` also relates every request to every key
(`Keeps`) and to the task store (`Known`): a task that was just made is known to
its request only, until the store of the key makes it known to replays. `Counted`
is the progress of a bulk retry: there is a result for each id tried so far, and each
task enqueued has a result that does not call it not found.

*Keys.* `InTurn` says that a key has one request at work, that this request loads
the task the key remembers, or makes one when no request was answered with a task that
is still stored, and that such a task is the one the key remembers.

*Set-up and signatures.* `ProcessOK` says of each process what it has settled so
far: the assets up to its step, which it holds as the server has them unless the
queue was deleted. `Genuine` says that a stored task which a client signed carries
a signature over what is stored, as long as it stays on its queue.

*Request-reply.* `RequestInv`: the deadline in the header, cut to whole seconds,
is two seconds before that of the context, and an answer is under way for less.

*Listing.* `Covered` says where a task is that the caller must still be shown: on
the way to the reader, in the subscription's queue, or ahead of the consumer's
position in the stream, which is where a save moves it. By the first message that
reports nothing pending, each of them is in the queue up to that message or shown.
`Counted` bounds what the callback sent; `Ordered` ties the phases of request,
callback and closing goroutine together.

`Calm` is why a listing that is not hurried cannot panic: it is cancelled by its
callback only, which unsubscribes first, so the channel is closed when nobody can
send on it. `Once` says that what a listing holds is in one place: shown, in the channel or in
the queue. `Behind` says that all of it is behind the consumer's position, so that
the server does not push it again.

*Retry policies.* `Growing` says that the intervals of a policy are positive and
ascend, `InRange` that they lie in the range of the policy and the second one far
enough from its low end; both are shown for each predefined table. The lemmas on
`Duration` then bound what jitter, with its truncating divisions and its replacement
of a zero, does to one interval, and compare two of them. An item never waits less
than the low end: `NakItem` counts the first delivery as a try, so it starts with the second interval.

*Routing.* `MuxInv` says that the routes are the registered types, sorted by
descending length. The first match is then the longest: `LeastNumber`
gives its index. Two prefixes of one type with the same length are equal, so it does not
matter how the unstable sort places them. The chain of middleware is a concatenation
built from the inside out.

**Model-checked only:** liveness (`EventuallySettled`, `QueueDrains`,
`EventuallyLed`, `ChangesArrive`, `LeaderCreates`, `ListingEnds`,
`SemaphoreFreed`), which is out of the prover's reach. Each other property of a
passing run is a theorem. Of the properties of section 6, which TLC finds violated,
the theorems show `OneLeader`, `OneEntryPerSchedule`, `RemovedNotScheduled`,
`NeverPanics`, `ListedOnce`, `NoSecondTask`, `RunsBounded`, `RunsAfterParents`,
`UnreachableMeansFailed`, `InFlightBounded`, `TerminatedNotRun`, `TriesWithinQueue` and
`QueueErrorMeansNoItem` under their condition. The others are left to TLC.

## 6. Disagreements between documentation and code

Five are runs of their own, with a finding in `PROJECT.json`:

- `UnreachableSpreads`: an unreachable parent is not counted as failed
  (`processor.go:81`), so the third task of a failed chain stays blocked.
- `OneLeader`: a refresh that times out keeps the member leader
  (`election/election.go:193`) past the TTL of its record.
- `OneEntryPerSchedule`: an updated schedule gets a second cron entry and the first
  is forgotten (`task_scheduler.go:267`); both keep creating tasks.
- `TaskIsDispatched`: the context `handle` gives a handler has no deadline, and the
  request-reply handler refuses such a context (`request_reply_handler.go:64`).
- `NeverPanics`: `Tasks` closes its channel before it unsubscribes
  (`storage.go:1033`), in a goroutine no middleware recovers.

The others are stated in the modules. Each is violated when it is made the property
of the instance named; where nothing else is said it is that of the run of the
module.

| Property | Instance | Text it is taken from | Cause |
|---|---|---|---|
| `RunsBounded` | 1 task, OneTry, crash | `task.go:259` "maximum to the amount of processing attempts" | Tries is saved with the outcome only |
| `RunsAfterParents` | Chain, one retry call, or MaxEnqueues 2, or lost replies | `task-lifecycle.md:60` "must complete successfully before this task runs" | a retried task is no longer blocked, nor is one whose creator records a queue error although the item was made |
| `UnreachableMeansFailed` | Chain, Discard {"complete"} | `task-lifecycle.md:94` "because a dependent task failed" | a discarded parent is not found |
| `InFlightBounded` | MaxConcurrent 1, slow | `client_options.go:218` "absolute upper limit for in-flight jobs" | an expired lease frees the place of a handler that runs |
| `TerminatedNotRun` | crash | `task-lifecycle.md:90` "no further retries are done" | `terminated` is not among the states acknowledged in `processMessage` |
| `TriesWithinQueue`, `RetryIsScheduled` | Unlimited, one retry call | `task.go:83`, `task-lifecycle.md:88` | the queue's limit is compared by equality; tries are kept by a retry |
| `QueueErrorMeansNoItem` | MaxEnqueues 2 | `task-lifecycle.md:92` "the work queue entry could not be made" | a duplicate is recorded as an error |
| `RetriedNotDiscarded` | Discard {"complete"}, one retry call | `task-lifecycle.md:106` "enqueued again for processing" | a discard deletes whatever record is last |
| `OneLeader` | service without back-off, Deletions {"led"}, MaxLost 0 or 1 | `election/election.go:30` "gives a prior leader time to observe its own CAS failure" | after a deletion the successor's interval starts at once, not when the TTL has passed |
| `RefreshAttempts` | service | `election.go:23` "multiple refresh attempts" | 75 % of the TTL leaves one |
| `OnlyLeaderCreates` | service | `scheduled-tasks.md:145` "only the leader creates tasks" | the job enqueues after it released the lock |
| `RemovedNotScheduled` | create, delete, MaxWrites 4 | `scheduled-tasks.md:12` | the watch skips the deletion in between, so a second entry is added |
| `CountIsExact` | create, delete | `task_scheduler.go:148` | `deleteItem` keeps the table entry |
| `StopReleasesLeadership` | FairSpec, stop | `task_scheduler.go:130` | the election runs on the caller's context |
| `ShutdownCompletes` | FairSpec, cancel | `ajc/task_cron_command.go:85` waits for it | the watcher blocks sending on `ready` |
| `WorksWithinLease` | library | `processor.go:311` "never keep working past a lease" | the timer is armed after the lease |
| `RenewedContextIsLive` | library | `task.go:186` | a timer that has fired is reset without effect on the context |
| `ExactMatch` | library | `mux.go:140` "exact taskType match" | prefixes match too |
| `DelayAsDocumented` | library | `client_options.go:195` "backoff with jitter between 1 and 10 minutes", `golang-overview.md:100`, `routing-concurrency-retry.md:196` | jitter adds up to a whole interval to 0.9 of it (`retrypolicy.go:132`): up to 19 minutes |
| `OneHourHasFiftySteps` | library | `retrypolicy.go:35` | the policy is made with fewer steps |
| `ListedOnce` | http | `http-api.md:87` "Snapshot list" | a task saved meanwhile is delivered again |
| `NoSecondTask` | http, MayExpire FALSE, MaxRestarts 0 | `http-api.md:144` "rather than enqueuing twice" | look-up, enqueue and store are separate steps |
| `UnsetTriesDefault` | library | `queue.go:25` "Default to DefaultMaxTries" | an unset limit becomes -1, unlimited |
| `CreatedAsAsked` | library | `openapi.yaml:345` "Queue created." | an existing queue answers the same |
| `OneItemPerTask` | library | `task-lifecycle.md:106` "work queue items for the task are discarded" | a retry on another queue leaves the old item |
| `SchedulerSigns` | library | `security.md:25` "when tasks are created sign" | the scheduler enqueues past the client |
| `CallerSignatureVerifies` | library | `http-api.md:142` "pre-computed `signature`" | the signed ID and creation time are made by the server |

Instances of the core are otherwise: Task {t1} (with Chain {t1, t2}),
NoDependencies, TwoTries, QueueMaxTries 2, MaxConcurrent 2, two workers with one
slot, no faults, one enqueue.

One more needs no run: `client_options.go:290` says of `TaskSigningSeedFile` that
the seed "will be used for signing and verification", but `validate` refuses it
together with a public key (`client_options.go:49`) and `verifyTaskSignature`
returns at once without one (`client.go:134`). Its branch for the seed file is never
taken, and Signing has none.

## 7. Hazards

`PROJECT.json` lists what is hard to test in this code, at the line where it
bites, with the property that covers it or the reason why none does. Not
expressible with the present modules: the subscription that `Tasks` leaves when its
consumer cannot be made (`storage.go:1026`) is in TaskListing but not a property,
and `ScheduledTasks` answering an empty list without an error when its own five
seconds pass (`storage.go:645`).

## 8. Not modelled

- `ajc/`, `generators/`, logging, metrics, the generated HTTP bindings, the HTTP
  server's listening and TLS: I/O or rendering without state of their own.
- Lifecycle events: published and forgotten. A failed publication after a save
  (`storage.go:196`) is modelled as the lost reply of that save. The two differ in
  one respect: the sequence in the caller's task is then the new one, so a program
  that calls `EnqueueTask` again is not refused, and its second save is that of a
  first call.
- The limits of a queue by age and size (`MaxAge`, `MaxEntries`, `DiscardOld`) and the
  retention of the task store: items and tasks that the server drops. Those of tasks are
  deletions by somebody else in HttpApi and TaskListing, and `DeleteTaskByID` in the core.
- `ExternalProcess`: runs a command and returns its exit as the handler's error.
- The orderly shutdown of a worker: once the context of `Run` is cancelled, saves
  and acknowledgements with it fail, and what the server sees is that of `Crash`.
- `docs/themes/`: the vendored Hugo theme, browser code of the documentation site
  that no part of the program calls.
- Payloads, results and error texts: no guard of the code looks at them.

## 9. Plan

What could follow:

1. compose Election with TaskScheduler instead of Leadership, to count what two
   leaders create;
2. model the orderly shutdown of `Server.Run` while requests are being served.
