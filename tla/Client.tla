------------------------------- MODULE Client -------------------------------
(***************************************************************************)
(* Programs that use a Client to put tasks on the queue (src/client.go,    *)
(* src/queue.go and the operations of src/storage.go they end in):         *)
(* EnqueueTask by the program that created the task, which may call it     *)
(* again with the same Task value; RetryTaskByID, DeleteTaskByID and       *)
(* PurgeQueue by any other.                                                *)
(***************************************************************************)
EXTENDS TaskStore, WorkQueue

CONSTANTS
  Client,         \* programs that call RetryTaskByID and DeleteTaskByID
  MaxEnqueues,    \* bound: how often a creator calls EnqueueTask for a task
  MaxCalls,       \* bound: calls made by all the clients together
  Operations      \* the calls clients make

ASSUME ClientAssumption ==
  /\ MaxEnqueues \in Nat
  /\ MaxCalls \in Nat
  /\ Operations \subseteq {"retry", "delete", "purge"}

VARIABLES
  creator,        \* creator[t]: the program that created t and its Task value
  client,         \* client[c]: a program retrying or deleting a task
  calls           \* the calls the clients have made

clientVars == <<creator, client, calls>>

----------------------------------------------------------------------------
EnqueuePC == {"idle", "save", "publish", "queueError"}

Creator == [pc : EnqueuePC \cup {"gone"}, rec : Record, calls : Nat]
Caller == [pc : EnqueuePC \cup {"delete"}, task : Task \cup {NoTask}, rec : Record]

NoCall == [pc |-> "idle", task |-> NoTask, rec |-> NoRecord]

ClientInit ==
  /\ creator = [t \in Task |-> [pc |-> "idle", rec |-> NewTask(t), calls |-> 0]]
  /\ client = [c \in Client |-> NoCall]
  /\ calls = 0

----------------------------------------------------------------------------
\* EnqueueTask accepts a new, blocked or retried Task value only.
EnqueueTask(t) ==
  /\ creator[t].pc = "idle"
  /\ creator[t].calls < MaxEnqueues
  /\ creator[t].rec.state \in {"new", "retry", "blocked"}
  /\ creator' = [creator EXCEPT ![t].pc = "save", ![t].calls = @ + 1]
  /\ UNCHANGED <<client, calls, storeVars, queueVars>>

\* The save that precedes the work item, or the one that records that the
\* work item could not be stored.  A successful one updates the sequence the
\* Task value carries.
SaveEnqueued(t) ==
  LET k == creator[t] IN
  /\ k.pc \in {"save", "queueError"}
  /\ \E ok \in BOOLEAN :
       /\ SaveTaskState(t, k.rec, ok)
       /\ creator' = [creator EXCEPT
            ![t].pc = IF ok /\ k.pc = "save" THEN "publish" ELSE "idle",
            ![t].rec.seq = IF ok THEN tasks'[t].seq ELSE @]
  /\ UNCHANGED <<client, calls, queueVars>>

\* The work item is published under the ID of the task to detect duplicates.
PublishEnqueued(t) ==
  /\ creator[t].pc = "publish"
  /\ \E ok \in BOOLEAN :
       /\ PublishItem(t, creator[t].rec.state # "retry", ok)
       /\ creator' = IF ok THEN [creator EXCEPT ![t].pc = "idle"]
                     ELSE [creator EXCEPT ![t].pc = "queueError", ![t].rec.state = "queue_error"]
  /\ UNCHANGED <<client, calls, storeVars>>

CreatorCrash(t) ==
  /\ "crash" \in Faults
  /\ creator[t].pc \in {"save", "publish", "queueError"}
  /\ creator' = [creator EXCEPT ![t].pc = "gone"]
  /\ UNCHANGED <<client, calls, storeVars, queueVars>>

----------------------------------------------------------------------------
Call(c, op) ==
  /\ client[c].pc = "idle"
  /\ op \in Operations
  /\ calls < MaxCalls
  /\ calls' = calls + 1

\* RetryTaskByID loads the task, drops its result and enqueues it again.
RetryTaskByID(c, t) ==
  /\ Call(c, "retry")
  /\ Exists(t)
  /\ client' = [client EXCEPT ![c] =
       [pc |-> "save", task |-> t, rec |-> [tasks[t] EXCEPT !.state = "retry"]]]
  /\ UNCHANGED <<creator, storeVars, queueVars>>

SaveRetried(c) ==
  LET k == client[c] IN
  /\ k.pc \in {"save", "queueError"}
  /\ \E ok \in BOOLEAN :
       /\ SaveTaskState(k.task, k.rec, ok)
       /\ client' = [client EXCEPT ![c] =
            IF ok /\ k.pc = "save"
            THEN [k EXCEPT !.pc = "publish", !.rec = tasks'[k.task]]
            ELSE NoCall]
  /\ UNCHANGED <<creator, calls, queueVars>>

\* A retried task is published without an ID, so it is never a duplicate.
PublishRetried(c) ==
  LET k == client[c] IN
  /\ k.pc = "publish"
  /\ \E ok \in BOOLEAN :
       /\ PublishItem(k.task, k.rec.state # "retry", ok)
       /\ client' = [client EXCEPT ![c] =
            IF ok THEN NoCall
            ELSE [k EXCEPT !.pc = "queueError", !.rec.state = "queue_error"]]
  /\ UNCHANGED <<creator, calls, storeVars>>

\* DeleteTaskByID: the last message is read, then deleted by its sequence.
DeleteTaskByID(c, t) ==
  /\ Call(c, "delete")
  /\ Exists(t)
  /\ client' = [client EXCEPT ![c] = [pc |-> "delete", task |-> t, rec |-> tasks[t]]]
  /\ UNCHANGED <<creator, storeVars, queueVars>>

DeleteFound(c) ==
  /\ client[c].pc = "delete"
  /\ DeleteMessage(client[c].task, client[c].rec.seq)
  /\ client' = [client EXCEPT ![c] = NoCall]
  /\ UNCHANGED <<creator, calls, queueVars>>

PurgeQueue ==
  /\ "purge" \in Operations
  /\ calls < MaxCalls
  /\ calls' = calls + 1
  /\ Purge
  /\ UNCHANGED <<creator, client, storeVars>>

ClientCrash(c) ==
  /\ "crash" \in Faults
  /\ client[c] # NoCall
  /\ client' = [client EXCEPT ![c] = NoCall]
  /\ UNCHANGED <<creator, calls, storeVars, queueVars>>

CreatorNext(t) ==
  EnqueueTask(t) \/ SaveEnqueued(t) \/ PublishEnqueued(t) \/ CreatorCrash(t)

ClientNext(c) ==
  \/ \E t \in Task : RetryTaskByID(c, t) \/ DeleteTaskByID(c, t)
  \/ SaveRetried(c) \/ PublishRetried(c) \/ DeleteFound(c) \/ ClientCrash(c)

ClientTypeOK ==
  /\ creator \in [Task -> Creator]
  /\ client \in [Client -> Caller]
  /\ calls \in 0..MaxCalls
=============================================================================
