----------------------------- MODULE TaskStore -----------------------------
(***************************************************************************)
(* The task store: the JetStream stream CHORIA_AJ_TASKS, which keeps the   *)
(* last message per subject and hence the last saved record per task, and  *)
(* the operations src/storage.go performs on it.                           *)
(*                                                                         *)
(* A saved record carries the stream sequence of the message holding it.   *)
(* Every save names the sequence its writer last saw (the header           *)
(* Nats-Expected-Last-Subject-Sequence) and the stream refuses the message *)
(* when that is no longer the last one: a compare and swap.  Sequences are *)
(* only compared for one subject, so they are counted per task here.       *)
(***************************************************************************)
EXTENDS Jobs

VARIABLES
  tasks,          \* tasks[t]: the record the stream holds for task t
  lastSeq,        \* lastSeq[t]: the sequence of the last message saved for t
  overdue,        \* the tasks whose LastTriedAt is MaxRunTime or more ago
  pastDeadline    \* the tasks whose deadline has passed

storeVars == <<tasks, lastSeq, overdue, pastDeadline>>

----------------------------------------------------------------------------
TaskState == {"unknown", "new", "active", "retry", "expired", "terminated",
              "complete", "queue_error", "blocked", "unreachable"}

\* A record, as the stream stores it and as a thread holds it once loaded.
\* Sequence 0 is what the stream answers for a subject without a message.
Record == [seq : Nat, state : TaskState, tries : Nat]

NoRecord == [seq |-> 0, state |-> "unknown", tries |-> 0]

Exists(t) == tasks[t].seq # 0

\* NewTask: a task with dependencies starts out blocked, others are new.
HasDependencies(t) == Len(Dependencies[t]) > 0

NewTask(t) ==
  [seq |-> 0, state |-> IF HasDependencies(t) THEN "blocked" ELSE "new", tries |-> 0]

IsPastDeadline(t) == t \in pastDeadline

----------------------------------------------------------------------------
StoreInit ==
  /\ tasks = [t \in Task |-> NoRecord]
  /\ lastSeq = [t \in Task |-> 0]
  /\ overdue = {}
  /\ pastDeadline = {}

\* Mutant of Accept: the expected sequence is not sent.
AcceptUnfenced(t, r) ==
  /\ tasks' = [tasks EXCEPT ![t] = [r EXCEPT !.seq = lastSeq[t] + 1]]
  /\ lastSeq' = [lastSeq EXCEPT ![t] = @ + 1]
  /\ overdue' = overdue \ {t}
  /\ UNCHANGED pastDeadline

\* The stream accepts the record r for task t and becomes its last message.
Accept(t, r) ==
  /\ tasks[t].seq = r.seq
  /\ tasks' = [tasks EXCEPT ![t] = [r EXCEPT !.seq = lastSeq[t] + 1]]
  /\ lastSeq' = [lastSeq EXCEPT ![t] = @ + 1]
  /\ overdue' = overdue \ {t}
  /\ UNCHANGED pastDeadline

\* A save by a thread that holds record r.  ok says whether the caller gets
\* nil back: a stale sequence is refused, a request or its reply may be lost.
SaveTaskState(t, r, ok) ==
  \/ ok /\ Accept(t, r)
  \/ ~ok /\ "lostReply" \in Faults /\ Accept(t, r)
  \/ ~ok /\ tasks[t].seq # r.seq /\ UNCHANGED storeVars
  \/ ~ok /\ "lostRequest" \in Faults /\ UNCHANGED storeVars

\* The second half of DeleteTaskByID: a delete by sequence, which does nothing
\* when the message has been replaced since it was read.
DeleteMessage(t, seq) ==
  \/ /\ tasks[t].seq = seq
     /\ tasks' = [tasks EXCEPT ![t] = NoRecord]
     /\ UNCHANGED <<lastSeq, overdue, pastDeadline>>
  \/ /\ tasks[t].seq # seq \/ "lostRequest" \in Faults
     /\ UNCHANGED storeVars

----------------------------------------------------------------------------
\* MaxRunTime has passed since the LastTriedAt of an active task.
MaxRunTimePasses(t) ==
  /\ tasks[t].state = "active"
  /\ t \notin overdue
  /\ overdue' = overdue \cup {t}
  /\ UNCHANGED <<tasks, lastSeq, pastDeadline>>

\* The deadline of a task goes by.
DeadlinePasses(t) ==
  /\ t \in HasDeadline \ pastDeadline
  /\ pastDeadline' = pastDeadline \cup {t}
  /\ UNCHANGED <<tasks, lastSeq, overdue>>

StoreTypeOK ==
  /\ tasks \in [Task -> Record]
  /\ lastSeq \in [Task -> Nat]
  /\ overdue \subseteq Task
  /\ pastDeadline \subseteq HasDeadline
============================================================================
