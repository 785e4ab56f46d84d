--------------------------- MODULE TaskLifecycle ---------------------------
(***************************************************************************)
(* What the task store promises about one task, whatever workers, clients, *)
(* crashes and lost messages do: its record goes through the life cycle    *)
(* below, one whole attempt at a time.  No worker, queue or message is     *)
(* mentioned; AsyncJobs is shown to implement this specification.          *)
(***************************************************************************)
EXTENDS Integers

CONSTANTS
  Task,         \* the tasks
  First,        \* First[t]: the state t is created in
  MaxTries,     \* MaxTries[t]: the limit on tries, 0 when there is none
  QueueTries    \* the limit on tries of the queue, negative when there is none

VARIABLES
  state,        \* state[t]: the state of the stored record, "unknown" if none
  tries         \* tries[t]: the tries it records

vars == <<state, tries>>

Init ==
  /\ state = [t \in Task |-> "unknown"]
  /\ tries = [t \in Task |-> 0]

----------------------------------------------------------------------------
Become(t, s, n) ==
  /\ state' = [state EXCEPT ![t] = s]
  /\ tries' = [tries EXCEPT ![t] = n]

\* A task is created, or its creator enqueues it again before it was touched.
Create(t) ==
  /\ state[t] \in {"unknown", First[t]}
  /\ tries[t] = 0
  /\ Become(t, First[t], 0)

\* An attempt starts.  A task that has used up its tries, or whose outcome is
\* known, is not attempted; only a "terminated" one may be, see README.
Claim(t) ==
  /\ state[t] \in {"new", "blocked", "retry", "queue_error", "active", "terminated"}
  /\ MaxTries[t] > 0 => tries[t] < MaxTries[t]
  /\ Become(t, "active", tries[t])

\* The attempt ends, which counts exactly one try.
Finish(t) ==
  /\ state[t] = "active"
  /\ \E s \in {"complete", "terminated", "retry", "expired"} :
       /\ s = "retry" => tries[t] + 1 # QueueTries
       /\ s = "expired" => tries[t] + 1 = QueueTries
       /\ Become(t, s, tries[t] + 1)

\* The task is given up without an attempt.
GiveUp(t) ==
  \/ state[t] \in {"new", "blocked", "retry", "queue_error", "active", "terminated"}
     /\ Become(t, "expired", tries[t])
  \/ state[t] = "blocked" /\ Become(t, "unreachable", tries[t])

\* Someone asks for the task to be tried again, or enqueueing it fails.
Retry(t) == state[t] # "unknown" /\ Become(t, "retry", tries[t])

QueueError(t) ==
  /\ state[t] \in {"new", "blocked", "retry"}
  /\ Become(t, "queue_error", tries[t])

Remove(t) == Become(t, "unknown", 0)

Next == \E t \in Task :
  \/ Create(t) \/ Claim(t) \/ Finish(t) \/ GiveUp(t)
  \/ Retry(t) \/ QueueError(t) \/ Remove(t)

Spec == Init /\ [][Next]_vars
============================================================================
