----------------------------- MODULE Processor -----------------------------
(***************************************************************************)
(* Worker processes (src/processor.go, with the state changes of           *)
(* src/client.go).  A process runs one loop, processMessages, which takes  *)
(* a token from the limiter, polls the queue and prepares the task, and    *)
(* one goroutine per task being handled, handle, which owns the token      *)
(* until it ends.                                                          *)
(*                                                                         *)
(* Every request to the server is a step of its own, so the steps of other *)
(* processes, crashes and the passing of time fall between any two.        *)
(***************************************************************************)
EXTENDS TaskStore, WorkQueue

CONSTANTS
  Proc,           \* worker processes
  Concurrency,    \* ClientConcurrency: the capacity of the limiter
  Slot,           \* names for the goroutines of one process
  Discard         \* the final states DiscardTaskStates names

ASSUME ProcessorAssumption ==
  /\ Concurrency \in Nat \ {0}
  /\ IsFiniteSet(Slot)
  /\ Discard \subseteq {"complete", "expired", "terminated"}

VARIABLES
  limiter,        \* limiter[p]: the tokens in the limiter channel
  loop,           \* loop[p]: processMessages and what it calls
  handler         \* handler[p][i]: the goroutine running handle

procVars == <<limiter, loop, handler>>

----------------------------------------------------------------------------
\* A thread is at a point of the code and holds a work item and a task record.
LoopPC == {"limiter", "poll", "load", "termUnknown", "ack", "deps", "nakBlocked",
           "termFailed", "activate", "save", "discard"}
HandlerPC == {"free", "run", "save", "discard", "finish"}

Loop == [pc : LoopPC, task : Task \cup {NoTask}, item : Nat, rec : Record,
         dep : Nat, ready : BOOLEAN]
Handler == [pc : HandlerPC, task : Task \cup {NoTask}, item : Nat, rec : Record]

Waiting == [pc |-> "limiter", task |-> NoTask, item |-> 0, rec |-> NoRecord,
            dep |-> 0, ready |-> TRUE]
Free == [pc |-> "free", task |-> NoTask, item |-> 0, rec |-> NoRecord]

Busy(p) == {i \in Slot : handler[p][i].pc # "free"}

\* A live thread still works on the item of t.
Held(t) ==
  \E p \in Proc :
    \/ loop[p].task = t /\ loop[p].item = items[t].seq
    \/ \E i \in Slot : handler[p][i].task = t /\ handler[p][i].item = items[t].seq

ProcessorInit ==
  /\ limiter = [p \in Proc |-> Concurrency]
  /\ loop = [p \in Proc |-> Waiting]
  /\ handler = [p \in Proc |-> [i \in Slot |-> Free]]

----------------------------------------------------------------------------
\* Sending on the limiter channel, which blocks when the channel is full.
ReturnToken(p) ==
  /\ limiter[p] < Concurrency
  /\ limiter' = [limiter EXCEPT ![p] = @ + 1]

\* Mutant of EndMessage: the early returns forget the token.
EndMessageKeepsToken(p) == loop' = [loop EXCEPT ![p] = Waiting] /\ UNCHANGED limiter

\* The loop is done with an item that it did not pass on to a handler.
EndMessage(p) ==
  /\ ReturnToken(p)
  /\ loop' = [loop EXCEPT ![p] = Waiting]

Goto(p, pc) == loop' = [loop EXCEPT ![p].pc = pc]

\* processMessages receives from the limiter channel.
TakeToken(p) ==
  /\ loop[p].pc = "limiter"
  /\ limiter[p] > 0
  /\ limiter' = [limiter EXCEPT ![p] = @ - 1]
  /\ Goto(p, "poll")
  /\ UNCHANGED <<handler, storeVars, queueVars>>

\* pollItem gets an item; it retries every other outcome of PollQueue.
PollItem(p, t) ==
  /\ loop[p].pc = "poll"
  /\ Deliver(t)
  /\ loop' = [loop EXCEPT ![p].pc = "load", ![p].task = t, ![p].item = items'[t].seq]
  /\ UNCHANGED <<limiter, handler, storeVars>>

\* The server delivers an item but the poll has given up on the answer.
PollReplyLost(t) ==
  /\ "lostReply" \in Faults
  /\ Deliver(t)
  /\ UNCHANGED <<procVars, storeVars>>

\* Mutant of AckStates: a completed task is taken up again.
AckStatesNotComplete == {"unreachable", "expired"}

\* The states in which processMessage only removes the item.
AckStates == {"unreachable", "complete", "expired"}

\* Mutant of ExceedsMaxTries: off by one.
ExceedsMaxTriesLate(t, r) == TaskMaxTries[t] > 0 /\ r.tries > TaskMaxTries[t]

ExceedsMaxTries(t, r) == TaskMaxTries[t] > 0 /\ r.tries >= TaskMaxTries[t]

\* processMessage up to its first request after LoadTaskByID.
LoadTask(p) ==
  LET t == loop[p].task
      r == tasks[t]
  IN
  /\ loop[p].pc = "load"
  /\ UNCHANGED <<handler, storeVars, queueVars>>
  /\ \/ /\ \/ "lostRequest" \in Faults
           \/ Exists(t) /\ r.state = "active" /\ t \notin overdue
        /\ EndMessage(p)
     \/ /\ ~Exists(t)
        /\ Goto(p, "termUnknown")
        /\ UNCHANGED limiter
     \/ /\ Exists(t) /\ r.state \in AckStates
        /\ Goto(p, "ack")
        /\ UNCHANGED limiter
     \/ /\ Exists(t) /\ r.state \notin AckStates
        /\ r.state = "active" => t \in overdue
        /\ LET expire == IsPastDeadline(t) \/ ExceedsMaxTries(t, r)
               deps   == r.state = "blocked" /\ HasDependencies(t)
           IN loop' = [loop EXCEPT
                ![p].rec = IF expire THEN [r EXCEPT !.state = "expired"] ELSE r,
                ![p].pc  = CASE expire -> "save"
                             [] ~expire /\ deps -> "deps"
                             [] OTHER -> "activate",
                ![p].dep = IF ~expire /\ deps THEN 1 ELSE 0]
        /\ UNCHANGED limiter

----------------------------------------------------------------------------

\* Mutant of LoadDependency: the last parent alone decides.
LoadDependencyLast(p) ==
  LET t == loop[p].task
      parent == Dependencies[t][loop[p].dep]
      last == loop[p].dep = Len(Dependencies[t])
  IN
  /\ loop[p].pc = "deps"
  /\ UNCHANGED <<limiter, handler, storeVars, queueVars>>
  /\ IF last
     THEN loop' = [loop EXCEPT ![p].dep = 0, ![p].pc =
                     IF tasks[parent].state = "complete" THEN "activate" ELSE "nakBlocked"]
     ELSE loop' = [loop EXCEPT ![p].dep = @ + 1]

\* Mutant of LoadDependency: a task that is not ready is given up.
LoadDependencyGivesUp(p) ==
  LET t == loop[p].task
      parent == Dependencies[t][loop[p].dep]
      ready == loop[p].ready /\ tasks[parent].state = "complete"
      last == loop[p].dep = Len(Dependencies[t])
  IN
  /\ loop[p].pc = "deps"
  /\ UNCHANGED <<limiter, handler, storeVars, queueVars>>
  /\ loop' = [loop EXCEPT ![p].pc = IF ~last THEN @ ELSE IF ready THEN "activate" ELSE "termFailed",
                          ![p].ready = ready, ![p].dep = @ + 1]

\* loadDependencies looks at the next parent; at the last one it is decided
\* whether the task is ready.
LoadDependency(p) ==
  LET t == loop[p].task
      parent == Dependencies[t][loop[p].dep]
      failed == \/ ~Exists(parent)
                \/ tasks[parent].state \in {"expired", "terminated", "queue_error", "unknown"}
      ready == loop[p].ready /\ tasks[parent].state = "complete"
      last == loop[p].dep = Len(Dependencies[t])
  IN
  /\ loop[p].pc = "deps"
  /\ UNCHANGED <<limiter, handler, storeVars, queueVars>>
  /\ \/ failed /\ Goto(p, "termFailed")
     \/ ~failed /\ ~last
        /\ loop' = [loop EXCEPT ![p].dep = @ + 1, ![p].ready = ready]
     \/ ~failed /\ last
        /\ loop' = [loop EXCEPT ![p].pc = IF ready THEN "activate" ELSE "nakBlocked",
                                ![p].ready = TRUE, ![p].dep = 0]
     \/ "lostRequest" \in Faults /\ Goto(p, "nakBlocked")

\* A parent can no longer complete: the item goes first, then the task is
\* marked unreachable.
TerminateFailed(p) ==
  LET t == loop[p].task IN
  /\ loop[p].pc = "termFailed"
  /\ RemoveItem(t, loop[p].item)
  /\ loop' = [loop EXCEPT ![p].pc = "save", ![p].rec.state = "unreachable"]
  /\ UNCHANGED <<limiter, handler, storeVars>>

\* The item of a task that cannot proceed yet is released, to come back later.
NakBlocked(p) ==
  /\ loop[p].pc = "nakBlocked"
  /\ ReleaseItem(loop[p].task, loop[p].item)
  /\ EndMessage(p)
  /\ UNCHANGED <<handler, storeVars>>

\* The item of an unknown or a finished task is removed.
RemoveUseless(p) ==
  /\ loop[p].pc \in {"termUnknown", "ack"}
  /\ RemoveItem(loop[p].task, loop[p].item)
  /\ EndMessage(p)
  /\ UNCHANGED <<handler, storeVars>>

----------------------------------------------------------------------------
\* saveOrDiscardTaskIfDesired, for the loop: the expired and the unreachable.
SaveTask(p) ==
  LET r == loop[p].rec IN
  /\ loop[p].pc = "save"
  /\ r.state \notin Discard
  /\ \E ok \in BOOLEAN : SaveTaskState(loop[p].task, r, ok)
  /\ EndMessage(p)
  /\ UNCHANGED <<handler, queueVars>>

\* DeleteTaskByID reads the last message of the task, whoever wrote it...
FindDiscarded(p) ==
  LET t == loop[p].task IN
  /\ loop[p].pc = "save"
  /\ loop[p].rec.state \in Discard
  /\ \/ /\ Exists(t)
        /\ loop' = [loop EXCEPT ![p].pc = "discard", ![p].rec.seq = tasks[t].seq]
        /\ UNCHANGED limiter
     \/ /\ ~Exists(t) \/ "lostRequest" \in Faults
        /\ EndMessage(p)
  /\ UNCHANGED <<handler, storeVars, queueVars>>

\* ... and deletes it.
DiscardTask(p) ==
  /\ loop[p].pc = "discard"
  /\ DeleteMessage(loop[p].task, loop[p].rec.seq)
  /\ EndMessage(p)
  /\ UNCHANGED <<handler, queueVars>>

\* Mutant of SetTaskActive: the handler starts although the save failed.
SetTaskActiveAnyway(p) ==
  LET t == loop[p].task
      r == [loop[p].rec EXCEPT !.state = "active"]
  IN
  /\ loop[p].pc = "activate"
  /\ UNCHANGED <<queueVars, limiter>>
  /\ \E ok \in BOOLEAN :
       /\ SaveTaskState(t, r, ok)
       /\ \E i \in Slot \ Busy(p) :
            handler' = [handler EXCEPT ![p][i] =
              [pc |-> "run", task |-> t, item |-> loop[p].item,
               rec |-> [(IF ok THEN tasks'[t] ELSE r) EXCEPT !.tries = @ + 1]]]
  /\ loop' = [loop EXCEPT ![p] = Waiting]

\* Mutant of SetTaskActive: the try is counted and saved when it starts.
SetTaskActiveCounting(p) ==
  LET t == loop[p].task
      r == [loop[p].rec EXCEPT !.state = "active", !.tries = @ + 1]
  IN
  /\ loop[p].pc = "activate"
  /\ UNCHANGED <<queueVars, limiter>>
  /\ \E ok \in {TRUE} :
       /\ SaveTaskState(t, r, ok)
       /\ \E i \in Slot \ Busy(p) :
            handler' = [handler EXCEPT ![p][i] =
              [pc |-> "run", task |-> t, item |-> loop[p].item,
               rec |-> [(IF ok THEN tasks'[t] ELSE r) EXCEPT !.tries = @]]]
  /\ loop' = [loop EXCEPT ![p] = Waiting]

\* Mutant of SetTaskActive: the try is not counted.
SetTaskActiveUncounted(p) ==
  LET t == loop[p].task
      r == [loop[p].rec EXCEPT !.state = "active"]
  IN
  /\ loop[p].pc = "activate"
  /\ UNCHANGED <<queueVars, limiter>>
  /\ \E ok \in {TRUE} :
       /\ SaveTaskState(t, r, ok)
       /\ \E i \in Slot \ Busy(p) :
            handler' = [handler EXCEPT ![p][i] =
              [pc |-> "run", task |-> t, item |-> loop[p].item,
               rec |-> [(IF ok THEN tasks'[t] ELSE r) EXCEPT !.tries = @]]]
  /\ loop' = [loop EXCEPT ![p] = Waiting]

\* setTaskActive; the handler only starts when the save succeeded.  handle
\* counts the try in its copy of the task, which is saved when it ends.
SetTaskActive(p) ==
  LET t == loop[p].task
      r == [loop[p].rec EXCEPT !.state = "active"]
  IN
  /\ loop[p].pc = "activate"
  /\ UNCHANGED queueVars
  /\ \/ /\ SaveTaskState(t, r, TRUE)
        /\ \E i \in Slot \ Busy(p) :
             handler' = [handler EXCEPT ![p][i] =
               [pc |-> "run", task |-> t, item |-> loop[p].item,
                rec |-> [tasks'[t] EXCEPT !.tries = @ + 1]]]
        /\ loop' = [loop EXCEPT ![p] = Waiting]
        /\ UNCHANGED limiter
     \/ /\ SaveTaskState(t, r, FALSE)
        /\ EndMessage(p)
        /\ UNCHANGED handler

----------------------------------------------------------------------------
\* handleTaskError's choice of state after a handler returned an error.
ErrorState(r) == IF QueueMaxTries = r.tries THEN "expired" ELSE "retry"

\* What a handler may return, and the state it gives the task.
Outcome(r) == {"complete", "terminated", ErrorState(r)}

HandlerReturns(p, i) ==
  /\ handler[p][i].pc = "run"
  /\ \E s \in Outcome(handler[p][i].rec) :
       handler' = [handler EXCEPT ![p][i].pc = "save", ![p][i].rec.state = s]
  /\ UNCHANGED <<limiter, loop, storeVars, queueVars>>

\* saveOrDiscardTaskIfDesired, for handle, which goes on whatever it returns.
SaveResult(p, i) ==
  LET h == handler[p][i] IN
  /\ h.pc = "save"
  /\ h.rec.state \notin Discard
  /\ \E ok \in BOOLEAN : SaveTaskState(h.task, h.rec, ok)
  /\ handler' = [handler EXCEPT ![p][i].pc = "finish"]
  /\ UNCHANGED <<limiter, loop, queueVars>>

FindResult(p, i) ==
  LET h == handler[p][i] IN
  /\ h.pc = "save"
  /\ h.rec.state \in Discard
  /\ \/ /\ Exists(h.task)
        /\ handler' = [handler EXCEPT ![p][i].pc = "discard",
                                      ![p][i].rec.seq = tasks[h.task].seq]
     \/ /\ ~Exists(h.task) \/ "lostRequest" \in Faults
        /\ handler' = [handler EXCEPT ![p][i].pc = "finish"]
  /\ UNCHANGED <<limiter, loop, storeVars, queueVars>>

DiscardResult(p, i) ==
  LET h == handler[p][i] IN
  /\ h.pc = "discard"
  /\ DeleteMessage(h.task, h.rec.seq)
  /\ handler' = [handler EXCEPT ![p][i].pc = "finish"]
  /\ UNCHANGED <<limiter, loop, queueVars>>

\* Mutant of FinishItem: a handler that ended the task for good is taken to have
\* failed.
FinishItemReleases(p, i) ==
  LET h == handler[p][i] IN
  /\ h.pc = "finish"
  /\ IF h.rec.state = "complete"
     THEN RemoveItem(h.task, h.item)
     ELSE ReleaseItem(h.task, h.item)
  /\ handler' = [handler EXCEPT ![p][i] = Free]
  /\ ReturnToken(p)
  /\ UNCHANGED <<loop, storeVars>>

\* AckItem, TerminateItem or NakItem, then the deferred return of the token.
FinishItem(p, i) ==
  LET h == handler[p][i] IN
  /\ h.pc = "finish"
  /\ IF h.rec.state \in {"complete", "terminated"}
     THEN RemoveItem(h.task, h.item)
     ELSE ReleaseItem(h.task, h.item)
  /\ handler' = [handler EXCEPT ![p][i] = Free]
  /\ ReturnToken(p)
  /\ UNCHANGED <<loop, storeVars>>

----------------------------------------------------------------------------
\* The process stops and is started again: newProcessor fills the limiter.
Crash(p) ==
  /\ "crash" \in Faults
  /\ loop[p] # Waiting \/ Busy(p) # {}
  /\ limiter' = [limiter EXCEPT ![p] = Concurrency]
  /\ loop' = [loop EXCEPT ![p] = Waiting]
  /\ handler' = [handler EXCEPT ![p] = [i \in Slot |-> Free]]
  /\ UNCHANGED <<storeVars, queueVars>>

LoopNext(p) ==
  \/ TakeToken(p)
  \/ \E t \in Task : PollItem(p, t)
  \/ LoadTask(p)
  \/ LoadDependency(p)
  \/ TerminateFailed(p)
  \/ NakBlocked(p)
  \/ RemoveUseless(p)
  \/ SaveTask(p)
  \/ FindDiscarded(p)
  \/ DiscardTask(p)
  \/ SetTaskActive(p)

HandlerNext(p, i) ==
  \/ HandlerReturns(p, i)
  \/ SaveResult(p, i)
  \/ FindResult(p, i)
  \/ DiscardResult(p, i)
  \/ FinishItem(p, i)

ProcessorTypeOK ==
  /\ limiter \in [Proc -> 0..Concurrency]
  /\ loop \in [Proc -> Loop]
  /\ handler \in [Proc -> [Slot -> Handler]]
=============================================================================
