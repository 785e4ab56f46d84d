-------------------------------- MODULE Jobs --------------------------------
(***************************************************************************)
(* The constants the modules of the task system share: the tasks and the   *)
(* faults the environment may inject.                                      *)
(***************************************************************************)
EXTENDS Integers, Sequences, FiniteSets

CONSTANTS
  Task,           \* the tasks that may be created
  NoTask,         \* what a thread that works on no task holds
  Dependencies,   \* Dependencies[t]: the tasks t waits for, in order
  TaskMaxTries,   \* Task.MaxTries, 0 when the task has no limit of its own
  HasDeadline,    \* the tasks created with a deadline
  Faults          \* what may happen to a process or a request

\* crash:       a process stops at any point and loses its memory
\* slow:        a worker is still busy with an item after MaxRunTime
\* lostRequest: a request fails, or the server refuses it, and has no effect
\* lostReply:   the server acts on a request but its caller sees an error
FaultKind == {"crash", "slow", "lostRequest", "lostReply"}

ASSUME JobsAssumption ==
  /\ NoTask \notin Task
  /\ Dependencies \in [Task -> Seq(Task)]
  /\ TaskMaxTries \in [Task -> Nat]
  /\ HasDeadline \subseteq Task
  /\ Faults \subseteq FaultKind
=============================================================================
