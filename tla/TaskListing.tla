---------------------------- MODULE TaskListing ----------------------------
(***************************************************************************)
(* Listing the task store: jetStreamStorage.Tasks (src/storage.go) and the *)
(* GET /v1/tasks handler above it (src/httpserver/tasks.go).  A listing is *)
(* an ephemeral push consumer, a subscription callback that feeds a        *)
(* buffered channel, a goroutine that closes the channel, and the handler  *)
(* that reads it, while others save and delete tasks.                      *)
(***************************************************************************)
EXTENDS Integers, Sequences, FiniteSets, SequencesExt

CONSTANTS
  Stored,                   \* task IDs
  Unreadable,             \* tasks whose stored message does not decode
  Lister,                \* GET /v1/tasks requests
  Filters,                \* what a request may filter on: sets of tasks
  Absent,                 \* the query has no limit parameter
  Limits,                 \* limit parameters, Absent included
  listTasksDefaultLimit,
  listTasksMaxLimit,
  MaxSeq                  \* bound: sequences of the stream, so saves while listing

ASSUME ListingAssumption ==
  /\ IsFiniteSet(Stored) /\ Unreadable \subseteq Stored /\ Filters \subseteq SUBSET Stored
  /\ listTasksDefaultLimit \in Nat \ {0} /\ listTasksMaxLimit \in Nat \ {0}
  /\ Limits \ {Absent} \subseteq Nat /\ MaxSeq \in Nat

VARIABLES
  store,     \* the TASKS stream: the sequence of each task's message, 0 without one
  lastSeq,   \* the last sequence the stream gave out
  listSem,   \* listSemaphore: a channel of capacity 1
  lister,    \* lister[r]: a request and the listing it opened
  crashed    \* a goroutine of the server panicked

listingVars == <<store, lastSeq, listSem, lister, crashed>>

\* A handler is not called yet ("idle"), about to call Tasks ("tasks"), about to
\* create the consumer ("consumer"), reading the channel ("read"), or "answered".
NewLister == [pc |-> "idle", status |-> 0, ndjson |-> FALSE, filter |-> Stored, limit |-> 0,
               gone |-> FALSE, listed |-> <<>>, kept |-> {},
               sub |-> FALSE, cursor |-> 0, inbox |-> <<>>, cnt |-> 0, out |-> <<>>,
               done |-> FALSE, drained |-> FALSE, closer |-> "none"]

\* The tasks with a message in the stream.
InStore == {t \in Stored : store[t] > 0}

\* The stream holds any tasks in any order.
ListingInit ==
  /\ lastSeq \in 0..Cardinality(Stored)
  /\ store \in [Stored -> 0..lastSeq]
  /\ Cardinality(InStore) = lastSeq
  /\ \A t, u \in InStore : store[t] = store[u] => t = u
  /\ listSem = 0
  /\ lister = [r \in Lister |-> NewLister]
  /\ crashed = FALSE

\* The listing r is now l.
ListerBecomes(r, l) == lister' = [lister EXCEPT ![r] = l]

\* The handler of r returns having written status: listSem.release runs.
ListerAnswers(r, l, status) ==
  /\ ListerBecomes(r, [l EXCEPT !.pc = "answered", !.status = status])
  /\ listSem' = listSem - 1

\* The context of the listing: cancelled by the callback, by the minute that
\* passed, by the caller disconnecting or by the handler returning.
Done(l) == l.done \/ l.gone \/ l.pc = "answered"

----------------------------------------------------------------------------
\* A task is saved: its message moves to the end of the stream.
Save(t) ==
  /\ ~crashed /\ lastSeq < MaxSeq
  /\ store' = [store EXCEPT ![t] = lastSeq + 1]
  /\ lastSeq' = lastSeq + 1
  /\ UNCHANGED <<listSem, lister, crashed>>

\* A task is deleted; no listing under way must show it.
Delete(t) ==
  /\ ~crashed /\ t \in InStore
  /\ store' = [store EXCEPT ![t] = 0]
  /\ lister' = [r \in Lister |-> [lister[r] EXCEPT !.kept = @ \ {t}]]
  /\ UNCHANGED <<lastSeq, listSem, crashed>>

----------------------------------------------------------------------------
\* The limit a request is served with.
EffectiveLimit(p) ==
  LET limit == IF p = Absent THEN listTasksDefaultLimit ELSE p
  IN  IF limit > listTasksMaxLimit THEN listTasksMaxLimit ELSE limit

\* The handler up to its call of Tasks: 429 when a listing is in progress, 400
\* for a limit below 1.
ListTasks(r, p, ndjson, filter) ==
  /\ ~crashed /\ lister[r].pc = "idle"
  /\ IF listSem = 1
     THEN /\ ListerBecomes(r, [lister[r] EXCEPT !.pc = "answered", !.status = 429])
          /\ UNCHANGED listSem
     ELSE IF p /= Absent /\ p < 1
     THEN /\ ListerBecomes(r, [lister[r] EXCEPT !.pc = "answered", !.status = 400])
          /\ UNCHANGED listSem
     ELSE /\ ListerBecomes(r, [lister[r] EXCEPT !.pc = "tasks", !.ndjson = ndjson, !.filter = filter,
                                      !.limit = EffectiveLimit(p)])
          /\ listSem' = 1
  /\ UNCHANGED <<store, lastSeq, crashed>>

\* Tasks up to Subscribe: ErrNoTasks is an empty 200.
Tasks(r) ==
  /\ ~crashed /\ lister[r].pc = "tasks"
  /\ IF InStore = {}
     THEN ListerAnswers(r, lister[r], 200)
     ELSE /\ ListerBecomes(r, [lister[r] EXCEPT !.pc = "consumer", !.sub = TRUE])
          /\ UNCHANGED listSem
  /\ UNCHANGED <<store, lastSeq, crashed>>

\* The consumer exists, the closing goroutine runs, Tasks returns the channel.
NewConsumer(r) ==
  /\ ~crashed /\ lister[r].pc = "consumer"
  /\ ListerBecomes(r, [lister[r] EXCEPT !.pc = "read", !.closer = "waiting", !.kept = InStore])
  /\ UNCHANGED <<store, lastSeq, listSem, crashed>>

\* A request to the server fails.  When it is the consumer that could not be
\* created, the subscription stays behind.
TasksFails(r) ==
  /\ ~crashed /\ lister[r].pc \in {"tasks", "consumer"}
  /\ ListerAnswers(r, lister[r], 500)
  /\ UNCHANGED <<store, lastSeq, crashed>>

----------------------------------------------------------------------------
\* The server pushes the next message of the stream, with the number of
\* messages that follow it.
Push(r) ==
  LET ahead == {t \in Stored : store[t] > lister[r].cursor}
  IN  /\ ~crashed /\ lister[r].sub /\ lister[r].closer /= "none"
      /\ \E t \in ahead :
           /\ \A u \in ahead : store[t] <= store[u]
           /\ ListerBecomes(r, [lister[r] EXCEPT
                !.cursor = store[t],
                !.inbox = Append(@, [task |-> t, numPending |-> Cardinality(ahead) - 1])])
      /\ UNCHANGED <<store, lastSeq, listSem, crashed>>

\* Mutant of Send: only what is in the channel counts.
SendUncounted(l, msg) ==
  LET full == Len(l.out) = l.limit
      ends == full \/ msg.numPending = 0
  IN  [l EXCEPT !.inbox = IF ends THEN <<>> ELSE Tail(@),
                !.out = IF full THEN @ ELSE Append(@, msg.task),
                !.cnt = IF full THEN @ ELSE @ + 1,
                !.sub = @ /\ ~ends,
                !.done = @ \/ ends,
                !.drained = @ \/ (~full /\ msg.numPending = 0)]

\* Mutant of Send: the listing ends one message early.
SendEarly(l, msg) ==
  LET full == Len(l.out) = l.limit
      ends == full \/ msg.numPending <= 1 \/ l.cnt + 1 = l.limit
  IN  [l EXCEPT !.inbox = IF ends THEN <<>> ELSE Tail(@),
                !.out = IF full THEN @ ELSE Append(@, msg.task),
                !.cnt = IF full THEN @ ELSE @ + 1,
                !.sub = @ /\ ~ends,
                !.done = @ \/ ends,
                !.drained = @ \/ (~full /\ msg.numPending <= 1)]

\* The callback sends the task: it ends the listing on the last message and on
\* the one that fills it.
Send(l, msg) ==
  LET full == Len(l.out) = l.limit
      ends == full \/ msg.numPending = 0 \/ l.cnt + 1 = l.limit
  IN  [l EXCEPT !.inbox = IF ends THEN <<>> ELSE Tail(@),
                !.out = IF full THEN @ ELSE Append(@, msg.task),
                !.cnt = IF full THEN @ ELSE @ + 1,
                !.sub = @ /\ ~ends,
                !.done = @ \/ ends,
                !.drained = @ \/ (~full /\ msg.numPending = 0)]

\* The callback runs on the head of the subscription's queue.  A send on the
\* closed channel panics.
Callback(r) ==
  /\ ~crashed /\ lister[r].sub /\ lister[r].inbox /= <<>>
  /\ IF Head(lister[r].inbox).task \in Unreadable
     THEN /\ ListerBecomes(r, [lister[r] EXCEPT !.inbox = Tail(@)])
          /\ UNCHANGED crashed
     ELSE IF lister[r].closer = "closed"
     THEN crashed' = TRUE /\ UNCHANGED lister
     ELSE /\ ListerBecomes(r, Send(lister[r], Head(lister[r].inbox)))
          /\ UNCHANGED crashed
  /\ UNCHANGED <<store, lastSeq, listSem>>

\* Mutant of Expire: the context has no timeout.
ExpireNever(r) == crashed /\ UNCHANGED listingVars

\* A minute has passed.
Expire(r) ==
  /\ ~crashed /\ lister[r].closer = "waiting" /\ ~lister[r].done
  /\ ListerBecomes(r, [lister[r] EXCEPT !.done = TRUE])
  /\ UNCHANGED <<store, lastSeq, listSem, crashed>>

\* The goroutine of Tasks: it closes the channel, then unsubscribes.
CloseOut(r) ==
  /\ ~crashed /\ lister[r].closer = "waiting" /\ Done(lister[r])
  /\ ListerBecomes(r, [lister[r] EXCEPT !.closer = "closed"])
  /\ UNCHANGED <<store, lastSeq, listSem, crashed>>

Unsubscribe(r) ==
  /\ ~crashed /\ lister[r].closer = "closed"
  /\ ListerBecomes(r, [lister[r] EXCEPT !.closer = "ended", !.sub = FALSE, !.inbox = <<>>])
  /\ UNCHANGED <<store, lastSeq, listSem, crashed>>

----------------------------------------------------------------------------
\* The handler takes a task off the channel and keeps it if it matches.
ReadTask(r) ==
  LET l == lister[r]
  IN  /\ ~crashed /\ l.pc = "read" /\ l.out /= <<>>
      /\ ListerBecomes(r, [l EXCEPT !.out = Tail(@),
                             !.listed = IF Head(l.out) \in l.filter THEN Append(@, Head(l.out)) ELSE @])
      /\ UNCHANGED <<store, lastSeq, listSem, crashed>>

\* The channel is closed and drained: the response is complete.
ReadEnd(r) ==
  /\ ~crashed /\ lister[r].pc = "read"
  /\ lister[r].out = <<>> /\ lister[r].closer \in {"closed", "ended"}
  /\ ListerAnswers(r, lister[r], 200)
  /\ UNCHANGED <<store, lastSeq, crashed>>

\* Mutant of StreamEnd: the semaphore is not released.
StreamEndHolds(r) ==
  /\ ~crashed /\ lister[r].pc = "read" /\ lister[r].ndjson /\ lister[r].gone
  /\ ListerBecomes(r, [lister[r] EXCEPT !.pc = "answered", !.status = 200])
  /\ UNCHANGED <<store, lastSeq, listSem, crashed>>

\* A streamed response also ends when its caller is gone, noticed by the
\* context or by a write that fails.
StreamEnd(r) ==
  /\ ~crashed /\ lister[r].pc = "read" /\ lister[r].ndjson /\ lister[r].gone
  /\ ListerAnswers(r, lister[r], 200)
  /\ UNCHANGED <<store, lastSeq, crashed>>

\* The caller disconnects.
Disconnect(r) ==
  /\ ~crashed /\ lister[r].pc \in {"tasks", "consumer", "read"} /\ ~lister[r].gone
  /\ ListerBecomes(r, [lister[r] EXCEPT !.gone = TRUE])
  /\ UNCHANGED <<store, lastSeq, listSem, crashed>>

----------------------------------------------------------------------------
Listing(r) ==
  \/ Tasks(r) \/ NewConsumer(r) \/ Push(r) \/ Callback(r) \/ Expire(r) \/ CloseOut(r)
  \/ Unsubscribe(r) \/ ReadTask(r) \/ ReadEnd(r) \/ StreamEnd(r)

ListingNext ==
  \/ \E t \in Stored : Save(t) \/ Delete(t)
  \/ \E r \in Lister :
       \/ \E p \in Limits, ndjson \in BOOLEAN, filter \in Filters : ListTasks(r, p, ndjson, filter)
       \/ Listing(r)
       \/ TasksFails(r)
       \/ Disconnect(r)

ListingSpec == ListingInit /\ [][ListingNext]_listingVars

\* The goroutines run, the server answers, pushes and lets the minute pass;
\* callers, failures and writers may do nothing.
ListingFairness ==
  \A r \in Lister :
    /\ WF_listingVars(Tasks(r) \/ NewConsumer(r)) /\ WF_listingVars(Push(r))
    /\ WF_listingVars(Callback(r)) /\ WF_listingVars(Expire(r))
    /\ WF_listingVars(CloseOut(r)) /\ WF_listingVars(Unsubscribe(r))
    /\ WF_listingVars(ReadTask(r) \/ ReadEnd(r) \/ StreamEnd(r))

----------------------------------------------------------------------------
\* A listing never hands its reader more tasks than the limit, counting the
\* ones still in the channel, whatever is saved while it runs: Tasks counts
\* what the callback sent, not what is in the channel.
AtMostLimit ==
  \A r \in Lister : Len(lister[r].listed) + Len(lister[r].out) <= lister[r].limit

\* A listing that ran to the end of the stream, for a caller that stayed, shows
\* every matching task that was in the store when the consumer was created and
\* was not deleted since, even if it was saved (and so moved) meanwhile.
CompleteListing ==
  \A r \in Lister :
    lister[r].status = 200 /\ lister[r].drained /\ ~lister[r].gone =>
      (lister[r].kept \cap lister[r].filter) \ Unreadable \subseteq Range(lister[r].listed)

\* A handler that started answers, frees the semaphore and leaves neither a
\* subscription nor an open channel behind: the caller of Tasks never cancels,
\* it relies on the last message, the limit or the one minute timeout.
ListingEnds ==
  \A r \in Lister :
    lister[r].closer /= "none" ~> crashed \/ (lister[r].pc = "answered" /\ lister[r].closer = "ended")

\* The semaphore is freed on every way out of ListTasks, so that a listing that
\* ends badly does not answer 429 to everyone after it.
SemaphoreFreed == listSem = 1 ~> listSem = 0 \/ crashed

\* No listing takes the server down: the minute may pass or the caller may
\* "disconnect at any time" (httpserver/tasks.go), and recoveryMiddleware
\* "converts panics into HTTP 500 responses" (httpserver/middleware.go), but the
\* callback of Tasks runs in a goroutine of its own.
NeverPanics == ~crashed

\* A snapshot shows a task once: GET /v1/tasks is documented as a "Snapshot
\* list" (http-api.md).
ListedOnce == \A r \in Lister : IsInjective(lister[r].listed)

----------------------------------------------------------------------------
(***************************************************************************)
(* Conditions under which the last two hold.                               *)
(***************************************************************************)
\* The minute of no listing passes, and no caller leaves.
Unhurried == \A r \in Lister : ~Expire(r) /\ ~Disconnect(r)

\* The tasks a listing has been sent: shown, in the channel, or waiting for the
\* callback.
Sent(l) == Range(l.listed) \cup Range(l.out) \cup {l.inbox[i].task : i \in DOMAIN l.inbox}

\* No task is saved that a listing under way has been sent.
NoneMoved == \A t \in Stored, r \in Lister : Save(t) /\ lister[r].sub => t \notin Sent(lister[r])
============================================================================
