-------------------------- MODULE AsyncJobsProofs --------------------------
(***************************************************************************)
(* Proofs about AsyncJobs, for any tasks, processes, limits and faults:    *)
(* the inductive invariant Fenced, the leases of the items, and what each  *)
(* step changes, on which WorkerProofs and HistoryProofs build.            *)
(***************************************************************************)
EXTENDS AsyncJobsHistory, TLAPS

----------------------------------------------------------------------------
(***************************************************************************)
(* What the operations on the store and the queue preserve.                *)
(***************************************************************************)
\* What any step may do to the store, as a thread sees it that holds a record:
\* a sequence it may hold still stands for the same record, or for none.
StoreMoves ==
  \A t \in Task :
    /\ lastSeq[t] <= lastSeq'[t]
    /\ StoreFence(t)'
    /\ \A n \in 1..lastSeq[t] : tasks'[t].seq = n => tasks'[t] = tasks[t]

\* The arithmetic of sequences, tries and limits.
LEMMA Numbers ==
  ASSUME NEW a \in Nat, NEW b \in Nat
  PROVE  /\ 0 <= b /\ a <= a
         /\ a \in 1..b => a # 0 /\ a <= b
         /\ a # 0 /\ a <= b => a \in 1..b
         /\ a \in 1..b /\ a # b => a + 1 \in 1..b
         /\ a < b => a <= b /\ a + 1 <= b /\ a + 1 \in 0..b
  OBVIOUS

\* An accepted record is the new last message of its task.
LEMMA AcceptStore ==
  ASSUME StoreTypeOK, \A t \in Task : StoreFence(t),
         NEW t \in Task, NEW r \in Record, r.state # "unknown", Accept(t, r)
  PROVE  /\ StoreTypeOK' /\ StoreMoves
         /\ lastSeq'[t] = lastSeq[t] + 1
         /\ tasks'[t] = [r EXCEPT !.seq = lastSeq[t] + 1]
         /\ tasks'[t].seq = lastSeq'[t]
  BY DEF StoreTypeOK, StoreFence, Accept, Record, StoreMoves

\* A save that is accepted or refused, and a save that reports success.
LEMMA SaveStore ==
  ASSUME StoreTypeOK, \A t \in Task : StoreFence(t),
         NEW t \in Task, NEW r \in Record, r.state # "unknown",
         NEW ok \in BOOLEAN, SaveTaskState(t, r, ok)
  PROVE  /\ StoreTypeOK' /\ StoreMoves
         /\ ok => Accept(t, r)
         /\ Accept(t, r) \/ UNCHANGED storeVars
<1>1. CASE Accept(t, r)
  BY <1>1, AcceptStore, Zenon
<1>2. CASE ~Accept(t, r)
  <2>1. UNCHANGED storeVars /\ ~ok
    BY <1>2 DEF SaveTaskState
  <2>. QED
    BY <2>1 DEF StoreMoves, StoreTypeOK, StoreFence, storeVars, Record
<1>. QED
  BY <1>1, <1>2

\* DeleteTaskByID's delete by sequence leaves a store whose records moved as StoreMoves
\* allows: the record is gone or untouched.
LEMMA DeleteStore ==
  ASSUME StoreTypeOK, \A t \in Task : StoreFence(t),
         NEW t \in Task, NEW seq \in Nat, DeleteMessage(t, seq)
  PROVE  /\ StoreTypeOK' /\ StoreMoves
  BY DEF DeleteMessage, StoreMoves, StoreTypeOK, StoreFence, storeVars, Record, NoRecord, TaskState

\* A step that writes no record moves none.
LEMMA SameStore ==
  ASSUME StoreTypeOK, \A t \in Task : StoreFence(t), tasks' = tasks, lastSeq' = lastSeq
  PROVE  StoreMoves
  BY DEF StoreMoves, StoreTypeOK, StoreFence, Record

\* The queue's operations keep its types.
LEMMA QueueStep ==
  ASSUME QueueTypeOK, NEW t \in Task
  PROVE  /\ Deliver(t) => QueueTypeOK'
         /\ LeaseExpires(t) => QueueTypeOK'
         /\ DuplicateWindowPasses(t) => QueueTypeOK'
         /\ \A seq \in Nat : RemoveItem(t, seq) => QueueTypeOK'
         /\ \A seq \in Nat : ReleaseItem(t, seq) => QueueTypeOK'
         /\ \A withId, ok \in BOOLEAN : PublishItem(t, withId, ok) => QueueTypeOK'
<1>. USE DEF QueueTypeOK
<1>0. NoItem \in Item
  BY DEF Item, NoItem
<1>1. Deliver(t) => QueueTypeOK'
  BY DEF Deliver, Item
<1>2. LeaseExpires(t) => QueueTypeOK'
  BY Zenon DEF LeaseExpires, Item
<1>3. DuplicateWindowPasses(t) => QueueTypeOK'
  BY DEF DuplicateWindowPasses
<1>4. \A seq \in Nat : RemoveItem(t, seq) => QueueTypeOK'
  BY <1>0 DEF RemoveItem, queueVars
<1>5. \A seq \in Nat : ReleaseItem(t, seq) => QueueTypeOK'
  BY Zenon DEF ReleaseItem, queueVars, Item
<1>6. \A withId, ok \in BOOLEAN : PublishItem(t, withId, ok) => QueueTypeOK'
  <2>1. \A withId \in BOOLEAN : StoreItem(t, withId) => QueueTypeOK'
    <3>1. [seq |-> lastItem[t] + 1, deliveries |-> 0, leased |-> FALSE] \in Item
      BY DEF Item
    <3>. QED
      BY <3>1 DEF StoreItem
  <2>2. UNCHANGED queueVars => QueueTypeOK'
    BY DEF queueVars
  <2>. QED
    BY <2>1, <2>2 DEF PublishItem
<1>. QED
  BY <1>1, <1>2, <1>3, <1>4, <1>5, <1>6

----------------------------------------------------------------------------
(***************************************************************************)
(* A thread that does not move stays fenced, whatever happens to the store.*)
(***************************************************************************)
\* A loop that stands still stays fenced while others write.
LEMMA LoopStable ==
  ASSUME Fenced, StoreTypeOK', StoreMoves, NEW p \in Proc, loop'[p] = loop[p]
  PROVE  LoopFence(p)'
  BY DEF Fenced, TypeOK, StoreTypeOK, ProcessorTypeOK, Loop, Record, StoreMoves, LoopFence

\* So does a handler that stands still,
LEMMA HandlerStable ==
  ASSUME Fenced, StoreTypeOK', StoreMoves, NEW p \in Proc, NEW i \in Slot,
         handler'[p][i] = handler[p][i]
  PROVE  HandlerFence(p, i)'
<1>1. HandlerFence(p, i) /\ handler[p][i] \in Handler /\ StoreTypeOK
  BY ZenonT(30) DEF Fenced, TypeOK, ProcessorTypeOK
<1>. DEFINE h == handler[p][i]
<1>2. (h.pc = "save" => h.rec.state \in Outcome(h.rec))'
  BY <1>1, ZenonT(30) DEF HandlerFence, Outcome, ErrorState
<1>3. (h.pc # "free" => h.task \in Task)'
  BY <1>1, ZenonT(30) DEF HandlerFence
<1>4. ASSUME h.pc \in {"run", "save"}
      PROVE  /\ (h.rec.seq \in 1..lastSeq[h.task])'
             /\ (h.rec.seq = tasks[h.task].seq =>
                  tasks[h.task].state = "active" /\ h.rec.tries = tasks[h.task].tries + 1)'
  <2>1. h.task \in Task /\ h.rec.seq \in 1..lastSeq[h.task]
    BY <1>1, <1>4, ZenonT(30) DEF HandlerFence
  <2>. QED
    BY <1>1, <1>4, <2>1, SMTT(30) DEF HandlerFence, StoreMoves, StoreTypeOK, Handler, Record
<1>. QED
  BY <1>2, <1>3, <1>4 DEF HandlerFence

\* the program that enqueues a task,
LEMMA CreatorStable ==
  ASSUME Fenced, StoreTypeOK', StoreMoves, NEW t \in Task, creator'[t] = creator[t]
  PROVE  CreatorFence(t)'
  BY DEF Fenced, TypeOK, StoreTypeOK, ClientTypeOK, Creator, Record, StoreMoves, StoreFence,
         CreatorFence, NewTask

\* and a client that retries or deletes one.
LEMMA ClientStable ==
  ASSUME Fenced, StoreTypeOK', StoreMoves, NEW c \in Client, client'[c] = client[c]
  PROVE  ClientFence(c)'
  BY DEF Fenced, TypeOK, StoreTypeOK, ClientTypeOK, Caller, Record, StoreMoves, ClientFence

----------------------------------------------------------------------------
(***************************************************************************)
(* When one thread moves, it is enough to show that this one stays fenced. *)
(***************************************************************************)
\* What StoreMoves says of every record includes its fence.
LEMMA StoreFences ==
  ASSUME StoreMoves
  PROVE  \A t \in Task : StoreFence(t)'
  BY DEF StoreMoves

\* A step of the poll loop of p keeps everything fenced if p's loop stays so.
LEMMA LoopStep ==
  ASSUME Fenced, StoreTypeOK', QueueTypeOK', StoreMoves, NEW p \in Proc,
         limiter' \in [Proc -> 0..Concurrency], loop' \in [Proc -> Loop],
         \A q \in Proc \ {p} : loop'[q] = loop[q],
         LoopFence(p)', handler' = handler, UNCHANGED clientVars
  PROVE  Fenced'
<1>1. TypeOK'
  BY DEF Fenced, TypeOK, ProcessorTypeOK, ClientTypeOK, clientVars
<1>2. \A t \in Task : StoreFence(t)' /\ CreatorFence(t)'
  BY StoreFences, CreatorStable DEF clientVars
<1>3. \A q \in Proc : LoopFence(q)'
  BY LoopStable
<1>4. \A q \in Proc : \A i \in Slot : HandlerFence(q, i)'
  BY HandlerStable
<1>5. \A c \in Client : ClientFence(c)'
  BY ClientStable DEF clientVars
<1>6. HandlersDistinct'
  BY DEF Fenced, HandlersDistinct
<1>. QED
  BY <1>1, <1>2, <1>3, <1>4, <1>5, <1>6 DEF Fenced

\* The same for a handler, provided it does not take up another record.
LEMMA HandlerStep ==
  ASSUME Fenced, StoreTypeOK', QueueTypeOK', StoreMoves, NEW p \in Proc, NEW i \in Slot,
         limiter' \in [Proc -> 0..Concurrency], handler' \in [Proc -> [Slot -> Handler]],
         \A q \in Proc : \A j \in Slot : <<q, j>> # <<p, i>> => handler'[q][j] = handler[q][j],
         HandlerFence(p, i)',
         handler'[p][i].pc \in {"run", "save"} =>
           /\ handler[p][i].pc \in {"run", "save"}
           /\ handler'[p][i].task = handler[p][i].task
           /\ handler'[p][i].rec.seq = handler[p][i].rec.seq,
         loop' = loop, UNCHANGED clientVars
  PROVE  Fenced'
<1>1. TypeOK'
  BY DEF Fenced, TypeOK, ProcessorTypeOK, ClientTypeOK, clientVars
<1>2. \A t \in Task : StoreFence(t)' /\ CreatorFence(t)'
  BY StoreFences, CreatorStable DEF clientVars
<1>3. \A q \in Proc : LoopFence(q)'
  BY LoopStable
<1>4. \A q \in Proc : \A j \in Slot : HandlerFence(q, j)'
  BY HandlerStable
<1>5. \A c \in Client : ClientFence(c)'
  BY ClientStable, ZenonT(30) DEF clientVars
<1>6. HandlersDistinct'
  <2>1. HandlersDistinct
    BY ZenonT(30) DEF Fenced
  <2>2. ASSUME NEW q \in Proc, NEW j \in Slot, handler'[q][j].pc \in {"run", "save"}
        PROVE  /\ handler[q][j].pc \in {"run", "save"}
               /\ handler'[q][j].task = handler[q][j].task
               /\ handler'[q][j].rec.seq = handler[q][j].rec.seq
    <3>1. CASE <<q, j>> = <<p, i>>
      <4>1. q = p /\ j = i
        BY <3>1
      <4>. QED
        BY <2>2, <4>1
    <3>2. CASE <<q, j>> # <<p, i>>
      BY <2>2, <3>2
    <3>. QED
      BY <3>1, <3>2, ZenonT(30)
  <2>. QED
    BY <2>1, <2>2 DEF HandlersDistinct
<1>. QED
  BY <1>1, <1>2, <1>3, <1>4, <1>5, <1>6, ZenonT(30) DEF Fenced

\* The same for EnqueueTask.
LEMMA CreatorStep ==
  ASSUME Fenced, StoreTypeOK', QueueTypeOK', StoreMoves, NEW t \in Task,
         creator' \in [Task -> Creator],
         \A u \in Task \ {t} : creator'[u] = creator[u],
         CreatorFence(t)', UNCHANGED <<client, calls, procVars>>
  PROVE  Fenced'
<1>1. TypeOK'
  BY DEF Fenced, TypeOK, ProcessorTypeOK, ClientTypeOK, procVars
<1>2. \A u \in Task : StoreFence(u)' /\ CreatorFence(u)'
  BY StoreFences, CreatorStable
<1>3. \A q \in Proc : LoopFence(q)'
  BY LoopStable DEF procVars
<1>4. \A q \in Proc : \A j \in Slot : HandlerFence(q, j)'
  BY HandlerStable DEF procVars
<1>5. \A c \in Client : ClientFence(c)'
  BY ClientStable, ZenonT(30)
<1>6. HandlersDistinct'
  BY DEF Fenced, HandlersDistinct, procVars
<1>. QED
  BY <1>1, <1>2, <1>3, <1>4, <1>5, <1>6, ZenonT(30) DEF Fenced

\* The same for a client's call.
LEMMA ClientStep ==
  ASSUME Fenced, StoreTypeOK', QueueTypeOK', StoreMoves, NEW c \in Client,
         client' \in [Client -> Caller], calls' \in 0..MaxCalls,
         \A d \in Client \ {c} : client'[d] = client[d],
         ClientFence(c)', UNCHANGED <<creator, procVars>>
  PROVE  Fenced'
<1>1. TypeOK'
  BY DEF Fenced, TypeOK, ProcessorTypeOK, ClientTypeOK, procVars
<1>2. \A u \in Task : StoreFence(u)' /\ CreatorFence(u)'
  BY StoreFences, CreatorStable
<1>3. \A q \in Proc : LoopFence(q)'
  BY LoopStable DEF procVars
<1>4. \A q \in Proc : \A j \in Slot : HandlerFence(q, j)'
  BY HandlerStable DEF procVars
<1>5. \A d \in Client : ClientFence(d)'
  BY ClientStable, ZenonT(30)
<1>6. HandlersDistinct'
  BY DEF Fenced, HandlersDistinct, procVars
<1>. QED
  BY <1>1, <1>2, <1>3, <1>4, <1>5, <1>6, ZenonT(30) DEF Fenced

\* Steps of the environment and of the queue, in which no thread moves.
LEMMA QuietStep ==
  ASSUME Fenced, StoreTypeOK', QueueTypeOK', tasks' = tasks, lastSeq' = lastSeq,
         UNCHANGED <<creator, client, procVars>>, calls' \in 0..MaxCalls
  PROVE  Fenced'
<1>0. StoreMoves
  BY SameStore DEF Fenced, TypeOK
<1>1. TypeOK'
  BY DEF Fenced, TypeOK, ProcessorTypeOK, ClientTypeOK, procVars
<1>2. \A u \in Task : StoreFence(u)' /\ CreatorFence(u)'
  BY <1>0, StoreFences, CreatorStable
<1>3. \A q \in Proc : LoopFence(q)'
  BY <1>0, LoopStable DEF procVars
<1>4. \A q \in Proc : \A j \in Slot : HandlerFence(q, j)'
  BY <1>0, HandlerStable DEF procVars
<1>5. \A d \in Client : ClientFence(d)'
  BY <1>0, ClientStable, ZenonT(30)
<1>6. HandlersDistinct'
  BY DEF Fenced, HandlersDistinct, procVars
<1>. QED
  BY <1>1, <1>2, <1>3, <1>4, <1>5, <1>6, ZenonT(30) DEF Fenced

----------------------------------------------------------------------------
(***************************************************************************)
(* The steps of the loop of a worker.                                      *)
(***************************************************************************)
\* The conjuncts of Fenced that almost every step needs.
LEMMA FencedTypes ==
  ASSUME Fenced
  PROVE  /\ StoreTypeOK /\ QueueTypeOK /\ ProcessorTypeOK /\ ClientTypeOK
         /\ \A t \in Task : StoreFence(t)
  BY DEF Fenced, TypeOK

\* processMessage returns without a handler: the loop is at its start again.
LEMMA EndMessageFenced ==
  ASSUME Fenced, NEW p \in Proc, EndMessage(p)
  PROVE  /\ limiter' \in [Proc -> 0..Concurrency]
         /\ loop' \in [Proc -> Loop]
         /\ \A q \in Proc \ {p} : loop'[q] = loop[q]
         /\ LoopFence(p)'
<1>1. Waiting \in Loop
  BY DEF Waiting, Loop, LoopPC, NoRecord, Record, TaskState
<1>2. limiter \in [Proc -> 0..Concurrency] /\ loop \in [Proc -> Loop]
  BY DEF Fenced, TypeOK, ProcessorTypeOK
<1>3. limiter' \in [Proc -> 0..Concurrency]
  BY <1>2, ProcessorAssumption DEF EndMessage, ReturnToken
<1>4. loop' \in [Proc -> Loop] /\ loop'[p] = Waiting /\ \A q \in Proc \ {p} : loop'[q] = loop[q]
  BY <1>1, <1>2, ZenonT(30) DEF EndMessage
<1>5. LoopFence(p)'
  BY <1>4 DEF LoopFence, Waiting
<1>. QED
  BY <1>3, <1>4, <1>5, ZenonT(30)

\* processMessages takes a token from the limiter.
LEMMA TakeTokenFenced ==
  ASSUME Fenced, NEW p \in Proc, TakeToken(p), UNCHANGED clientVars
  PROVE  Fenced'
<1>. USE FencedTypes
<1>1. limiter' \in [Proc -> 0..Concurrency]
  BY ProcessorAssumption DEF TakeToken, ProcessorTypeOK
<1>2. /\ loop' \in [Proc -> Loop] /\ loop'[p].pc = "poll"
      /\ \A q \in Proc \ {p} : loop'[q] = loop[q]
  BY ZenonT(30) DEF TakeToken, Goto, ProcessorTypeOK, Loop, LoopPC
<1>3. LoopFence(p)'
  BY <1>2 DEF LoopFence
<1>4. StoreTypeOK' /\ QueueTypeOK' /\ StoreMoves
  BY SameStore DEF TakeToken, storeVars, queueVars, StoreTypeOK, QueueTypeOK
<1>. QED
  BY <1>1, <1>2, <1>3, <1>4, LoopStep, ZenonT(30) DEF TakeToken

\* pollItem gets an item.
LEMMA PollItemFenced ==
  ASSUME Fenced, NEW p \in Proc, NEW t \in Task, PollItem(p, t), UNCHANGED clientVars
  PROVE  Fenced'
<1>. USE FencedTypes
<1>1. StoreTypeOK' /\ QueueTypeOK' /\ StoreMoves
  BY SameStore, QueueStep DEF PollItem, storeVars, StoreTypeOK
<1>2. items'[t].seq \in Nat
  BY <1>1 DEF QueueTypeOK, Item
<1>3. /\ loop' \in [Proc -> Loop]
      /\ loop'[p].pc = "load" /\ loop'[p].task = t
      /\ \A q \in Proc \ {p} : loop'[q] = loop[q]
  <2>. DEFINE l == [loop[p] EXCEPT !.pc = "load", !.task = t, !.item = items'[t].seq]
  <2>1. loop' = [loop EXCEPT ![p] = l]
    BY Zenon DEF PollItem
  <2>2. loop \in [Proc -> Loop] /\ l \in Loop /\ l.pc = "load" /\ l.task = t
    BY <1>2, ZenonT(30) DEF ProcessorTypeOK, Loop, LoopPC
  <2>. HIDE DEF l
  <2>. QED
    BY <2>1, <2>2
<1>4. LoopFence(p)'
  BY <1>3 DEF LoopFence
<1>. QED
  BY <1>1, <1>3, <1>4, LoopStep DEF PollItem, ProcessorTypeOK

\* A move of the loop that keeps what it holds, to a point where it may write
\* nothing.
LEMMA GotoFenced ==
  ASSUME Fenced, NEW p \in Proc, loop[p].pc \notin {"limiter", "poll"},
         NEW pc \in {"termUnknown", "ack", "nakBlocked"}, Goto(p, pc)
  PROVE  /\ loop' \in [Proc -> Loop]
         /\ \A q \in Proc \ {p} : loop'[q] = loop[q]
         /\ LoopFence(p)'
<1>1. LoopFence(p) /\ loop \in [Proc -> Loop]
  BY DEF Fenced, TypeOK, ProcessorTypeOK
<1>2. /\ loop' \in [Proc -> Loop]
      /\ \A q \in Proc \ {p} : loop'[q] = loop[q]
      /\ loop'[p].pc = pc /\ loop'[p].task = loop[p].task
  BY <1>1 DEF Goto, Loop, LoopPC
<1>. QED
  BY <1>1, <1>2 DEF LoopFence

\* processMessage decides what to do with the record it loaded.
LEMMA LoadTaskFenced ==
  ASSUME Fenced, NEW p \in Proc, LoadTask(p), UNCHANGED clientVars
  PROVE  Fenced'
<1>. USE FencedTypes
<1>. DEFINE t == loop[p].task
            r == tasks[t]
<1>0. loop[p].pc = "load" /\ UNCHANGED <<handler, storeVars, queueVars>>
  BY Zenon DEF LoadTask
<1>1. StoreTypeOK' /\ QueueTypeOK' /\ StoreMoves
  BY <1>0, SameStore, ZenonT(30) DEF storeVars, queueVars, StoreTypeOK, QueueTypeOK
<1>2. t \in Task /\ loop[p] \in Loop /\ loop[p].pc = "load" /\ loop \in [Proc -> Loop]
  BY <1>0, ZenonT(30) DEF Fenced, LoopFence, ProcessorTypeOK
<1>3. CASE EndMessage(p)
  BY <1>1, <1>3, EndMessageFenced, <1>0, LoopStep, ZenonT(30)
<1>4. CASE Goto(p, "termUnknown") /\ UNCHANGED limiter
  BY <1>1, <1>2, <1>4, GotoFenced, <1>0, LoopStep, ZenonT(30) DEF ProcessorTypeOK
<1>5. CASE Goto(p, "ack") /\ UNCHANGED limiter
  BY <1>1, <1>2, <1>5, GotoFenced, <1>0, LoopStep, ZenonT(30) DEF ProcessorTypeOK
<1>6. CASE /\ ~EndMessage(p)
           /\ ~(Goto(p, "termUnknown") /\ UNCHANGED limiter)
           /\ ~(Goto(p, "ack") /\ UNCHANGED limiter)
  <2>. DEFINE expire == IsPastDeadline(t) \/ ExceedsMaxTries(t, r)
              deps == r.state = "blocked" /\ HasDependencies(t)
              rec == IF expire THEN [r EXCEPT !.state = "expired"] ELSE r
              pc == CASE expire -> "save"
                      [] ~expire /\ deps -> "deps"
                      [] OTHER -> "activate"
              dep == IF ~expire /\ deps THEN 1 ELSE 0
              l == [loop[p] EXCEPT !.rec = rec, !.pc = pc, !.dep = dep]
  <2>1. /\ Exists(t) /\ r.state \notin AckStates
        /\ loop' = [loop EXCEPT ![p] = l]
        /\ UNCHANGED limiter
    BY <1>6, Zenon DEF LoadTask
  <2>2. r \in Record /\ r.state \in Takeable /\ r.seq \in 1..lastSeq[t]
    BY <1>2, <2>1 DEF Fenced, StoreFence, StoreTypeOK, Record, TaskState, AckStates, Takeable, Exists
  <2>3. rec \in Record /\ rec.seq = r.seq /\ rec.tries = r.tries
    BY <2>2 DEF Record, TaskState
  <2>4. pc \in {"save", "deps", "activate"} /\ dep \in Nat
    OBVIOUS
  <2>5. pc = "save" => rec.state = "expired"
    BY <2>2, ZenonT(30) DEF Record
  <2>6. pc \in {"deps", "activate"} => (TaskMaxTries[t] > 0 => rec.tries < TaskMaxTries[t])
    BY <1>2, <2>2, <2>3, JobsAssumption DEF ExceedsMaxTries, Record
  <2>7. pc = "deps" => r.state = "blocked" /\ dep \in 1..Len(Dependencies[t])
    BY <1>2, JobsAssumption DEF HasDependencies
  <2>. HIDE DEF rec, pc, dep
  <2>8. /\ l \in Loop /\ l.task = t /\ l.pc = pc /\ l.rec = rec /\ l.dep = dep
    BY <1>2, <2>3, <2>4, Zenon DEF Loop, LoopPC
  <2>. HIDE DEF l
  <2>9. /\ loop' \in [Proc -> Loop] /\ loop'[p] = l
        /\ \A q \in Proc \ {p} : loop'[q] = loop[q]
    BY <1>2, <2>1, <2>8, ZenonT(30)
  <2>10. LoopFence(p)'
    <3>1. tasks' = tasks /\ lastSeq' = lastSeq
      BY <1>0 DEF storeVars
    <3>. QED
      BY <1>2, <2>2, <2>3, <2>4, <2>5, <2>6, <2>7, <2>8, <2>9, <3>1, ZenonT(30) DEF LoopFence
  <2>. QED
    BY <1>1, <2>1, <2>9, <2>10, <1>0, LoopStep, ZenonT(30) DEF ProcessorTypeOK
<1>. QED
  BY <1>3, <1>4, <1>5, <1>6

\* loadDependencies looks at one parent.
LEMMA LoadDependencyFenced ==
  ASSUME Fenced, NEW p \in Proc, LoadDependency(p), UNCHANGED clientVars
  PROVE  Fenced'
<1>. USE FencedTypes
<1>. DEFINE t == loop[p].task
<1>0. loop[p].pc = "deps" /\ UNCHANGED <<limiter, handler, storeVars, queueVars>>
  BY Zenon DEF LoadDependency
<1>1. StoreTypeOK' /\ QueueTypeOK' /\ StoreMoves
  BY <1>0, SameStore DEF storeVars, queueVars, StoreTypeOK, QueueTypeOK
<1>2. /\ t \in Task /\ loop[p] \in Loop /\ loop[p].pc = "deps" /\ loop \in [Proc -> Loop]
      /\ LoopFence(p)
      /\ tasks' = tasks /\ lastSeq' = lastSeq
  BY <1>0, Zenon DEF Fenced, LoopFence, ProcessorTypeOK, storeVars
<1>3. CASE Goto(p, "nakBlocked")
  BY <1>1, <1>2, <1>3, GotoFenced, <1>0, LoopStep, ZenonT(30) DEF ProcessorTypeOK
<1>4. CASE Goto(p, "termFailed")
  <2>1. /\ loop' \in [Proc -> Loop]
        /\ \A q \in Proc \ {p} : loop'[q] = loop[q]
        /\ loop'[p].pc = "termFailed" /\ loop'[p].task = t /\ loop'[p].rec = loop[p].rec
    BY <1>2, <1>4, Zenon DEF Goto, Loop, LoopPC
  <2>2. LoopFence(p)'
    BY <1>2, <2>1, ZenonT(30) DEF LoopFence
  <2>. QED
    BY <1>1, <2>1, <2>2, <1>0, LoopStep DEF ProcessorTypeOK
<1>5. ASSUME NEW ready \in BOOLEAN,
             loop[p].dep # Len(Dependencies[t]),
             loop' = [loop EXCEPT ![p].dep = @ + 1, ![p].ready = ready]
      PROVE  Fenced'
  <2>0. loop[p].dep + 1 \in 1..Len(Dependencies[t])
    <3>1. Len(Dependencies[t]) \in Nat /\ loop[p].dep \in Nat
      BY <1>2, JobsAssumption DEF Loop
    <3>. QED
      BY <1>2, <1>5, <3>1, Numbers, Zenon DEF LoopFence
  <2>1. /\ loop' \in [Proc -> Loop]
        /\ \A q \in Proc \ {p} : loop'[q] = loop[q]
        /\ loop'[p].pc = "deps" /\ loop'[p].task = t /\ loop'[p].rec = loop[p].rec
        /\ loop'[p].dep = loop[p].dep + 1
    <3>. DEFINE n == loop[p].dep + 1
                l == [loop[p] EXCEPT !.dep = n, !.ready = ready]
    <3>1. loop' = [loop EXCEPT ![p] = l]
      BY <1>5, Zenon
    <3>2. l \in Loop
      <4>1. n \in Nat
        BY <2>0, JobsAssumption, <1>2 DEF Loop
      <4>. HIDE DEF n
      <4>. QED
        BY <1>2, <1>5, <4>1, Zenon DEF Loop
    <3>3. l.pc = "deps" /\ l.task = t /\ l.rec = loop[p].rec /\ l.dep = loop[p].dep + 1
      BY <1>2, Zenon DEF Loop
    <3>. HIDE DEF l
    <3>. QED
      BY <1>2, <3>1, <3>2, <3>3
  <2>2. LoopFence(p)'
    BY <1>2, <2>0, <2>1, ZenonT(30) DEF LoopFence
  <2>. QED
    BY <1>1, <2>1, <2>2, <1>0, LoopStep, ZenonT(30) DEF ProcessorTypeOK
<1>6. ASSUME NEW pc \in {"activate", "nakBlocked"},
             loop' = [loop EXCEPT ![p].pc = pc, ![p].ready = TRUE, ![p].dep = 0]
      PROVE  Fenced'
  <2>1. /\ loop' \in [Proc -> Loop]
        /\ \A q \in Proc \ {p} : loop'[q] = loop[q]
        /\ loop'[p].pc = pc /\ loop'[p].task = t /\ loop'[p].rec = loop[p].rec
    BY <1>2, <1>6, Zenon DEF Loop, LoopPC
  <2>2. LoopFence(p)'
    BY <1>2, <2>1, Zenon DEF LoopFence, Takeable
  <2>. QED
    BY <1>1, <2>1, <2>2, <1>0, LoopStep DEF ProcessorTypeOK
<1>. QED
  <2>. DEFINE parent == Dependencies[t][loop[p].dep]
              ready == loop[p].ready /\ tasks[parent].state = "complete"
  <2>1. ready \in BOOLEAN
    BY <1>2 DEF Loop
  <2>2. \/ Goto(p, "nakBlocked") \/ Goto(p, "termFailed")
        \/ /\ loop[p].dep # Len(Dependencies[t])
           /\ loop' = [loop EXCEPT ![p].dep = @ + 1, ![p].ready = ready]
        \/ loop' = [loop EXCEPT ![p].pc = IF ready THEN "activate" ELSE "nakBlocked",
                                ![p].ready = TRUE, ![p].dep = 0]
    BY Zenon DEF LoadDependency
  <2>3. (IF ready THEN "activate" ELSE "nakBlocked") \in {"activate", "nakBlocked"}
    OBVIOUS
  <2>. HIDE DEF ready
  <2>. QED
    BY <1>3, <1>4, <1>5, <1>6, <2>1, <2>2, <2>3, Zenon

\* processDependencies terminates the item of a task with a failed parent.
LEMMA TerminateFailedFenced ==
  ASSUME Fenced, NEW p \in Proc, TerminateFailed(p), UNCHANGED clientVars
  PROVE  Fenced'
<1>. USE FencedTypes
<1>1. /\ loop[p].task \in Task /\ loop[p] \in Loop /\ loop[p].pc = "termFailed"
      /\ loop \in [Proc -> Loop] /\ LoopFence(p) /\ loop[p].item \in Nat
      /\ tasks' = tasks /\ lastSeq' = lastSeq
  BY Zenon DEF TerminateFailed, Fenced, LoopFence, ProcessorTypeOK, storeVars, Loop
<1>2. StoreTypeOK' /\ QueueTypeOK' /\ StoreMoves
  BY <1>1, SameStore, QueueStep DEF TerminateFailed, storeVars, StoreTypeOK
<1>3. /\ loop' \in [Proc -> Loop]
      /\ \A q \in Proc \ {p} : loop'[q] = loop[q]
      /\ loop'[p].pc = "save" /\ loop'[p].task = loop[p].task
      /\ loop'[p].rec = [loop[p].rec EXCEPT !.state = "unreachable"]
  BY <1>1, Zenon DEF TerminateFailed, Loop, LoopPC, Record, TaskState
<1>4. LoopFence(p)'
  BY <1>1, <1>3, ZenonT(30) DEF LoopFence, Loop, Record, Takeable
<1>. QED
  BY <1>2, <1>3, <1>4, LoopStep DEF TerminateFailed, ProcessorTypeOK

\* A blocked item is put back, a useless one acknowledged or terminated.
LEMMA EndItemFenced ==
  ASSUME Fenced, NEW p \in Proc, NakBlocked(p) \/ RemoveUseless(p), UNCHANGED clientVars
  PROVE  Fenced'
<1>. USE FencedTypes
<1>1. loop[p].task \in Task /\ loop[p].item \in Nat
  BY ZenonT(30) DEF NakBlocked, RemoveUseless, Fenced, LoopFence, ProcessorTypeOK, Loop
<1>2. StoreTypeOK' /\ QueueTypeOK' /\ StoreMoves
  BY <1>1, SameStore, QueueStep, ZenonT(30) DEF NakBlocked, RemoveUseless, storeVars, StoreTypeOK
<1>. QED
  BY <1>2, EndMessageFenced, LoopStep, ZenonT(30) DEF NakBlocked, RemoveUseless

\* saveOrDiscardTaskIfDesired in the loop.
LEMMA SaveTaskFenced ==
  ASSUME Fenced, NEW p \in Proc, SaveTask(p), UNCHANGED clientVars
  PROVE  Fenced'
<1>. USE FencedTypes
<1>1. loop[p].task \in Task /\ loop[p].rec \in Record /\ loop[p].rec.state # "unknown"
  BY ZenonT(30) DEF SaveTask, Fenced, LoopFence, ProcessorTypeOK, Loop
<1>2. StoreTypeOK' /\ QueueTypeOK' /\ StoreMoves
  BY <1>1, SaveStore, Zenon DEF SaveTask, queueVars, QueueTypeOK
<1>. QED
  BY <1>2, EndMessageFenced, LoopStep, ZenonT(30) DEF SaveTask

\* The discard of an expired or unreachable task looks the task up.
LEMMA FindDiscardedFenced ==
  ASSUME Fenced, NEW p \in Proc, FindDiscarded(p), UNCHANGED clientVars
  PROVE  Fenced'
<1>. USE FencedTypes
<1>1. StoreTypeOK' /\ QueueTypeOK' /\ StoreMoves
  BY SameStore, SMTT(30) DEF FindDiscarded, storeVars, queueVars, StoreTypeOK, QueueTypeOK
<1>2. loop[p].task \in Task /\ loop \in [Proc -> Loop] /\ tasks[loop[p].task].seq \in Nat
  BY Zenon DEF FindDiscarded, Fenced, LoopFence, ProcessorTypeOK, StoreTypeOK, Record
<1>3. CASE EndMessage(p)
  BY <1>1, <1>3, EndMessageFenced, LoopStep, ZenonT(30) DEF FindDiscarded
<1>4. CASE ~EndMessage(p)
  <2>1. /\ loop' = [loop EXCEPT ![p].pc = "discard", ![p].rec.seq = tasks[loop[p].task].seq]
        /\ UNCHANGED limiter
    BY <1>4, ZenonT(30) DEF FindDiscarded
  <2>2. /\ loop' \in [Proc -> Loop]
        /\ \A q \in Proc \ {p} : loop'[q] = loop[q]
        /\ loop'[p].pc = "discard" /\ loop'[p].task = loop[p].task
    <3>. DEFINE rec == [loop[p].rec EXCEPT !.seq = tasks[loop[p].task].seq]
                l == [loop[p] EXCEPT !.pc = "discard", !.rec = rec]
    <3>1. loop' = [loop EXCEPT ![p] = l]
      BY <1>2, <2>1, Zenon DEF Loop
    <3>2. rec \in Record
      BY <1>2 DEF Loop, Record
    <3>. HIDE DEF rec
    <3>3. l \in Loop /\ l.pc = "discard" /\ l.task = loop[p].task
      BY <1>2, <3>2, Zenon DEF Loop, LoopPC
    <3>. HIDE DEF l
    <3>. QED
      BY <1>2, <3>1, <3>3, ZenonT(30)
  <2>3. LoopFence(p)'
    BY <1>2, <2>2, ZenonT(30) DEF LoopFence
  <2>. QED
    BY <1>1, <2>1, <2>2, <2>3, LoopStep, ZenonT(30) DEF FindDiscarded, ProcessorTypeOK
<1>. QED
  BY <1>3, <1>4, ZenonT(30)

\* It then deletes what it found.
LEMMA DiscardTaskFenced ==
  ASSUME Fenced, NEW p \in Proc, DiscardTask(p), UNCHANGED clientVars
  PROVE  Fenced'
<1>. USE FencedTypes
<1>1. loop[p].task \in Task /\ loop[p].rec.seq \in Nat
  BY Zenon DEF DiscardTask, Fenced, LoopFence, ProcessorTypeOK, Loop, Record
<1>2. StoreTypeOK' /\ QueueTypeOK' /\ StoreMoves
  BY <1>1, DeleteStore DEF DiscardTask, queueVars, QueueTypeOK
<1>. QED
  BY <1>2, EndMessageFenced, LoopStep, ZenonT(30) DEF DiscardTask

\* setTaskActive, and the handler it starts with the sequence of its save.
LEMMA SetTaskActiveFenced ==
  ASSUME Fenced, NEW p \in Proc, SetTaskActive(p), UNCHANGED clientVars
  PROVE  Fenced'
<1>. USE FencedTypes
<1>. DEFINE t == loop[p].task
            r == [loop[p].rec EXCEPT !.state = "active"]
<1>1. /\ t \in Task /\ loop[p].item \in Nat /\ loop \in [Proc -> Loop]
      /\ r \in Record /\ r.state = "active" /\ r.tries = loop[p].rec.tries
  <2>1. loop[p].pc = "activate" /\ loop \in [Proc -> Loop] /\ LoopFence(p)
    BY Zenon DEF SetTaskActive, Fenced, ProcessorTypeOK
  <2>2. t \in Task /\ loop[p].item \in Nat /\ loop[p].rec \in Record
    BY <2>1 DEF LoopFence, Loop
  <2>3. r \in Record /\ r.state = "active" /\ r.tries = loop[p].rec.tries
    BY <2>2 DEF Record, TaskState
  <2>. QED
    BY <2>1, <2>2, <2>3
<1>. HIDE DEF r
<1>2. QueueTypeOK'
  BY DEF SetTaskActive, queueVars, QueueTypeOK
<1>3. CASE SaveTaskState(t, r, FALSE) /\ EndMessage(p) /\ UNCHANGED handler
  <2>1. StoreTypeOK' /\ StoreMoves
    BY <1>1, <1>3, SaveStore, Zenon
  <2>. QED
    BY <1>2, <1>3, <2>1, EndMessageFenced, LoopStep
<1>4. CASE /\ SaveTaskState(t, r, TRUE)
           /\ \E i \in Slot \ Busy(p) :
                handler' = [handler EXCEPT ![p][i] =
                  [pc |-> "run", task |-> t, item |-> loop[p].item,
                   rec |-> [tasks'[t] EXCEPT !.tries = @ + 1]]]
           /\ loop' = [loop EXCEPT ![p] = Waiting]
           /\ UNCHANGED limiter
  <2>1. StoreTypeOK' /\ StoreMoves /\ Accept(t, r)
    BY <1>1, <1>4, SaveStore, Zenon
  <2>2. /\ lastSeq'[t] = lastSeq[t] + 1
        /\ tasks'[t] = [r EXCEPT !.seq = lastSeq[t] + 1]
        /\ tasks'[t].seq = lastSeq'[t]
    BY <1>1, <2>1, AcceptStore, ZenonT(30)
  <2>. DEFINE h == [pc |-> "run", task |-> t, item |-> loop[p].item,
                    rec |-> [tasks'[t] EXCEPT !.tries = @ + 1]]
  <2>3. /\ h \in Handler /\ h.pc = "run" /\ h.task = t
        /\ h.rec.seq = lastSeq'[t] /\ h.rec.tries = tasks'[t].tries + 1
        /\ tasks'[t].state = "active" /\ lastSeq'[t] \in Nat \ {0} /\ lastSeq[t] \in Nat
    <3>1. tasks'[t] \in Record /\ lastSeq'[t] \in Nat /\ lastSeq[t] \in Nat
      BY <1>1, <2>1 DEF StoreTypeOK
    <3>2. tasks'[t].state = "active" /\ lastSeq'[t] \in Nat \ {0}
      BY <1>1, <2>2, <3>1 DEF Record
    <3>. DEFINE n == tasks'[t].tries + 1
                rec == [tasks'[t] EXCEPT !.tries = n]
    <3>3. rec \in Record /\ rec.seq = lastSeq'[t] /\ rec.tries = n
      <4>1. n \in Nat
        BY <3>1 DEF Record
      <4>. HIDE DEF n
      <4>. QED
        BY <2>2, <3>1, <4>1, Zenon DEF Record
    <3>. HIDE DEF rec
    <3>4. h = [pc |-> "run", task |-> t, item |-> loop[p].item, rec |-> rec]
      BY DEF rec
    <3>. QED
      BY <1>1, <3>1, <3>2, <3>3, <3>4, ZenonT(30) DEF Handler, HandlerPC
  <2>. HIDE DEF h
  <2>4. PICK i \in Slot \ Busy(p) : handler' = [handler EXCEPT ![p][i] = h]
    BY <1>4, Zenon DEF h
  <2>5. /\ handler' \in [Proc -> [Slot -> Handler]] /\ handler'[p][i] = h
        /\ \A q \in Proc : \A j \in Slot : <<q, j>> # <<p, i>> => handler'[q][j] = handler[q][j]
    BY <2>3, <2>4, ZenonT(30) DEF ProcessorTypeOK
  <2>6. Waiting \in Loop
    BY DEF Waiting, Loop, LoopPC, NoRecord, Record, TaskState
  <2>7. /\ loop' \in [Proc -> Loop] /\ loop'[p] = Waiting
        /\ \A q \in Proc \ {p} : loop'[q] = loop[q]
    BY <1>1, <1>4, <2>6, Zenon
  <2>8. TypeOK'
    BY <1>2, <1>4, <2>1, <2>5, <2>7, ZenonT(30) DEF TypeOK, ProcessorTypeOK, ClientTypeOK, clientVars
  <2>9. \A u \in Task : StoreFence(u)' /\ CreatorFence(u)'
    BY <2>1, StoreFences, CreatorStable, ZenonT(30) DEF clientVars
  <2>10. LoopFence(p)'
    BY <2>7 DEF LoopFence, Waiting
  <2>11. \A q \in Proc : LoopFence(q)'
    BY <2>1, <2>7, <2>10, LoopStable, Zenon
  <2>12. HandlerFence(p, i)'
    BY <1>1, <2>3, <2>5 DEF HandlerFence
  <2>13. \A q \in Proc : \A j \in Slot : HandlerFence(q, j)'
    BY <2>1, <2>5, <2>12, HandlerStable, ZenonT(30)
  <2>14. \A c \in Client : ClientFence(c)'
    BY <2>1, ClientStable, ZenonT(30) DEF clientVars
  <2>15. HandlersDistinct'
    <3>1. ASSUME NEW q \in Proc, NEW j \in Slot, <<q, j>> # <<p, i>>,
                 handler[q][j].pc \in {"run", "save"}, handler[q][j].task = t
          PROVE  handler[q][j].rec.seq # lastSeq'[t]
      <4>1. HandlerFence(q, j)
        BY ZenonT(30) DEF Fenced
      <4>2. handler[q][j].rec.seq \in 1..lastSeq[t]
        BY <3>1, <4>1 DEF HandlerFence
      <4>. QED
        BY <2>2, <2>3, <4>2
    <3>2. HandlersDistinct
      BY ZenonT(30) DEF Fenced
    <3>. SUFFICES ASSUME NEW q1 \in Proc, NEW q2 \in Proc, NEW j1 \in Slot, NEW j2 \in Slot,
                         handler'[q1][j1].pc \in {"run", "save"},
                         handler'[q2][j2].pc \in {"run", "save"},
                         handler'[q1][j1].task = handler'[q2][j2].task,
                         handler'[q1][j1].rec.seq = handler'[q2][j2].rec.seq
                  PROVE  q1 = q2 /\ j1 = j2
      BY DEF HandlersDistinct
    <3>3. CASE <<q1, j1>> = <<p, i>>
      <4>1. handler'[q1][j1] = h
        BY <2>5, <3>3, ZenonT(30)
      <4>2. <<q2, j2>> = <<p, i>>
        <5>. SUFFICES ASSUME <<q2, j2>> # <<p, i>> PROVE FALSE
          OBVIOUS
        <5>1. handler'[q2][j2] = handler[q2][j2]
          BY <2>5, Zenon
        <5>2. /\ handler[q2][j2].pc \in {"run", "save"} /\ handler[q2][j2].task = t
              /\ handler[q2][j2].rec.seq = lastSeq'[t]
          BY <2>3, <4>1, <5>1, Zenon
        <5>. QED
          BY <3>1, <5>2, ZenonT(30)
      <4>. QED
        BY <3>3, <4>2, ZenonT(30)
    <3>4. CASE <<q2, j2>> = <<p, i>>
      <4>1. handler'[q2][j2] = h
        BY <2>5, <3>4, ZenonT(30)
      <4>2. <<q1, j1>> = <<p, i>>
        <5>. SUFFICES ASSUME <<q1, j1>> # <<p, i>> PROVE FALSE
          OBVIOUS
        <5>1. handler'[q1][j1] = handler[q1][j1]
          BY <2>5, Zenon
        <5>2. /\ handler[q1][j1].pc \in {"run", "save"} /\ handler[q1][j1].task = t
              /\ handler[q1][j1].rec.seq = lastSeq'[t]
          BY <2>3, <4>1, <5>1, Zenon
        <5>. QED
          BY <3>1, <5>2, ZenonT(30)
      <4>. QED
        BY <3>4, <4>2, ZenonT(30)
    <3>5. CASE <<q1, j1>> # <<p, i>> /\ <<q2, j2>> # <<p, i>>
      <4>1. handler'[q1][j1] = handler[q1][j1] /\ handler'[q2][j2] = handler[q2][j2]
        BY <2>5, <3>5, ZenonT(30)
      <4>. QED
        BY <3>2, <4>1 DEF HandlersDistinct
    <3>. QED
      BY <3>3, <3>4, <3>5, ZenonT(30)
  <2>. QED
    BY <2>8, <2>9, <2>11, <2>13, <2>14, <2>15, ZenonT(30) DEF Fenced
<1>. QED
  BY <1>3, <1>4, Zenon DEF SetTaskActive, r

----------------------------------------------------------------------------
(***************************************************************************)
(* The steps of a handler, and a crash of its process.                     *)
(***************************************************************************)
\* A handler moves to a point where it saves nothing any more.
LEMMA HandlerPastSave ==
  ASSUME Fenced, NEW p \in Proc, NEW i \in Slot, handler[p][i].pc # "free",
         NEW h \in Handler, h.pc \in {"discard", "finish"}, h.task = handler[p][i].task,
         handler' = [handler EXCEPT ![p][i] = h],
         UNCHANGED <<limiter, loop>>, UNCHANGED clientVars,
         StoreTypeOK', QueueTypeOK', StoreMoves
  PROVE  Fenced'
<1>1. /\ handler \in [Proc -> [Slot -> Handler]]
      /\ handler[p][i].task \in Task /\ limiter \in [Proc -> 0..Concurrency]
  BY Zenon DEF Fenced, TypeOK, ProcessorTypeOK, HandlerFence
<1>2. /\ handler' \in [Proc -> [Slot -> Handler]] /\ handler'[p][i] = h
      /\ \A q \in Proc : \A j \in Slot : <<q, j>> # <<p, i>> => handler'[q][j] = handler[q][j]
  BY <1>1, Zenon
<1>3. HandlerFence(p, i)'
  BY <1>1, <1>2, SMTT(30) DEF HandlerFence
<1>. QED
  BY <1>1, <1>2, <1>3, HandlerStep, ZenonT(30)

\* The handler returns and handle decides on the outcome.
LEMMA HandlerReturnsFenced ==
  ASSUME Fenced, NEW p \in Proc, NEW i \in Slot, HandlerReturns(p, i), UNCHANGED clientVars
  PROVE  Fenced'
<1>. USE FencedTypes
<1>1. StoreTypeOK' /\ QueueTypeOK' /\ StoreMoves
  BY SameStore, ZenonT(30) DEF HandlerReturns, storeVars, queueVars, StoreTypeOK, QueueTypeOK
<1>2. /\ handler \in [Proc -> [Slot -> Handler]] /\ handler[p][i] \in Handler
      /\ handler[p][i].pc = "run" /\ HandlerFence(p, i)
      /\ tasks' = tasks /\ lastSeq' = lastSeq
  BY DEF HandlerReturns, Fenced, ProcessorTypeOK, storeVars
<1>3. PICK s \in Outcome(handler[p][i].rec) :
        handler' = [handler EXCEPT ![p][i].pc = "save", ![p][i].rec.state = s]
  BY Zenon DEF HandlerReturns
<1>. DEFINE rec == [handler[p][i].rec EXCEPT !.state = s]
            h == [handler[p][i] EXCEPT !.pc = "save", !.rec = rec]
<1>4. handler' = [handler EXCEPT ![p][i] = h]
  BY <1>2, <1>3, Zenon DEF Handler
<1>5. s \in {"complete", "terminated", "retry", "expired"}
  BY DEF Outcome, ErrorState
<1>6. /\ rec \in Record /\ rec.state = s
      /\ rec.seq = handler[p][i].rec.seq /\ rec.tries = handler[p][i].rec.tries
  BY <1>2, <1>5 DEF Handler, Record, TaskState
<1>7. rec.state \in Outcome(rec)
  BY <1>6 DEF Outcome, ErrorState
<1>. HIDE DEF rec
<1>8. h \in Handler /\ h.pc = "save" /\ h.task = handler[p][i].task /\ h.rec = rec
  BY <1>2, <1>6, Zenon DEF Handler, HandlerPC
<1>. HIDE DEF h
<1>9. /\ handler' \in [Proc -> [Slot -> Handler]] /\ handler'[p][i] = h
      /\ \A q \in Proc : \A j \in Slot : <<q, j>> # <<p, i>> => handler'[q][j] = handler[q][j]
  BY <1>2, <1>4, <1>8
<1>10. HandlerFence(p, i)'
  <2>1. (handler[p][i].pc = "save" => handler[p][i].rec.state \in Outcome(handler[p][i].rec))'
    BY <1>7, <1>8, <1>9 DEF Outcome, ErrorState
  <2>. QED
    BY <1>2, <1>6, <1>8, <1>9, <2>1, Zenon DEF HandlerFence
<1>. QED
  BY <1>1, <1>2, <1>6, <1>8, <1>9, <1>10, HandlerStep, Zenon DEF HandlerReturns, ProcessorTypeOK

\* The outcome is saved, or the task looked up and discarded.
LEMMA SaveResultFenced ==
  ASSUME Fenced, NEW p \in Proc, NEW i \in Slot, UNCHANGED clientVars,
         SaveResult(p, i) \/ FindResult(p, i) \/ DiscardResult(p, i)
  PROVE  Fenced'
<1>. USE FencedTypes
<1>. DEFINE h == handler[p][i]
<1>1. /\ handler \in [Proc -> [Slot -> Handler]] /\ h \in Handler /\ h.pc # "free"
      /\ HandlerFence(p, i)
  BY ZenonT(30) DEF SaveResult, FindResult, DiscardResult, Fenced, ProcessorTypeOK
<1>2. h.task \in Task /\ h.rec \in Record /\ h.rec.seq \in Nat /\ tasks[h.task].seq \in Nat
  BY <1>1 DEF HandlerFence, Handler, Record, StoreTypeOK
<1>. DEFINE finish == [h EXCEPT !.pc = "finish"]
            rec == [h.rec EXCEPT !.seq = tasks[h.task].seq]
            discard == [h EXCEPT !.pc = "discard", !.rec = rec]
<1>3. /\ finish \in Handler /\ finish.pc = "finish" /\ finish.task = h.task
      /\ discard \in Handler /\ discard.pc = "discard" /\ discard.task = h.task
  <2>1. rec \in Record
    BY <1>2 DEF Record
  <2>. HIDE DEF rec
  <2>. QED
    BY <1>1, <2>1, Zenon DEF Handler, HandlerPC
<1>4. CASE SaveResult(p, i)
  <2>1. h.rec.state # "unknown"
    BY <1>1, <1>4, ZenonT(30) DEF SaveResult, HandlerFence, Outcome, ErrorState
  <2>2. StoreTypeOK' /\ QueueTypeOK' /\ StoreMoves
    BY <1>2, <1>4, <2>1, SaveStore, ZenonT(30) DEF SaveResult, queueVars, QueueTypeOK
  <2>3. handler' = [handler EXCEPT ![p][i] = finish] /\ UNCHANGED <<limiter, loop>>
    BY <1>4 DEF SaveResult
  <2>. HIDE DEF finish, discard
  <2>. QED
    BY <1>1, <1>3, <2>2, <2>3, HandlerPastSave, Zenon
<1>5. CASE FindResult(p, i)
  <2>1. StoreTypeOK' /\ QueueTypeOK' /\ StoreMoves
    BY <1>5, SameStore, Zenon DEF FindResult, storeVars, queueVars, StoreTypeOK, QueueTypeOK
  <2>2. handler' = [handler EXCEPT ![p][i] = finish] \/ handler' = [handler EXCEPT ![p][i] = discard]
    BY <1>1, <1>5, ZenonT(40) DEF FindResult, Handler
  <2>. HIDE DEF finish, discard
  <2>. QED
    <3>1. UNCHANGED <<limiter, loop>>
      BY <1>5 DEF FindResult
    <3>2. PICK v \in {finish, discard} : handler' = [handler EXCEPT ![p][i] = v]
      BY <2>2
    <3>3. v \in Handler /\ v.pc \in {"discard", "finish"} /\ v.task = h.task
      BY <1>3, <3>2, Zenon
    <3>. QED
      BY <1>1, <2>1, <3>1, <3>2, <3>3, HandlerPastSave, ZenonT(30)
<1>6. CASE DiscardResult(p, i)
  <2>1. StoreTypeOK' /\ QueueTypeOK' /\ StoreMoves
    BY <1>2, <1>6, DeleteStore DEF DiscardResult, queueVars, QueueTypeOK
  <2>2. handler' = [handler EXCEPT ![p][i] = finish] /\ UNCHANGED <<limiter, loop>>
    BY <1>6 DEF DiscardResult
  <2>. HIDE DEF finish, discard
  <2>. QED
    BY <1>1, <1>3, <2>1, <2>2, HandlerPastSave, Zenon
<1>. QED
  BY <1>4, <1>5, <1>6, Zenon

\* handle settles the item and returns the token.
LEMMA FinishItemFenced ==
  ASSUME Fenced, NEW p \in Proc, NEW i \in Slot, FinishItem(p, i), UNCHANGED clientVars
  PROVE  Fenced'
<1>. USE FencedTypes
<1>. DEFINE h == handler[p][i]
<1>1. h \in Handler /\ h.pc = "finish" /\ h.task \in Task /\ h.item \in Nat
  BY ZenonT(30) DEF FinishItem, Fenced, HandlerFence, ProcessorTypeOK, Handler
<1>2. QueueTypeOK'
  BY <1>1, QueueStep DEF FinishItem
<1>3. StoreTypeOK' /\ StoreMoves
  BY SameStore DEF FinishItem, storeVars, StoreTypeOK
<1>4. Free \in Handler /\ Free.pc = "free"
  BY DEF Free, Handler, HandlerPC, NoRecord, Record, TaskState
<1>5. /\ handler' \in [Proc -> [Slot -> Handler]] /\ handler'[p][i] = Free
      /\ \A q \in Proc : \A j \in Slot : <<q, j>> # <<p, i>> => handler'[q][j] = handler[q][j]
  BY <1>4, SMTT(30) DEF FinishItem, ProcessorTypeOK
<1>6. HandlerFence(p, i)'
  BY <1>4, <1>5, Zenon DEF HandlerFence
<1>7. limiter' \in [Proc -> 0..Concurrency] /\ loop' = loop
  BY ProcessorAssumption DEF FinishItem, ReturnToken, ProcessorTypeOK
<1>. QED
  BY <1>2, <1>3, <1>4, <1>5, <1>6, <1>7, HandlerStep, ZenonT(30)

\* A process crashes and starts again with nothing in hand.
LEMMA CrashFenced ==
  ASSUME Fenced, NEW p \in Proc, Crash(p), UNCHANGED clientVars
  PROVE  Fenced'
<1>. USE FencedTypes
<1>1. StoreTypeOK' /\ QueueTypeOK' /\ StoreMoves
  BY SameStore, ZenonT(30) DEF Crash, storeVars, queueVars, StoreTypeOK, QueueTypeOK
<1>2. Free \in Handler /\ Free.pc = "free" /\ Waiting \in Loop /\ Waiting.pc = "limiter"
  BY ZenonT(30) DEF Free, Handler, HandlerPC, NoRecord, Record, TaskState, Waiting, Loop, LoopPC
<1>3. /\ loop' \in [Proc -> Loop] /\ loop'[p] = Waiting
      /\ \A q \in Proc \ {p} : loop'[q] = loop[q]
  BY <1>2, ZenonT(30) DEF Crash, ProcessorTypeOK
<1>4. /\ handler' \in [Proc -> [Slot -> Handler]]
      /\ \A i \in Slot : handler'[p][i] = Free
      /\ \A q \in Proc \ {p} : handler'[q] = handler[q]
  BY <1>2, ZenonT(30) DEF Crash, ProcessorTypeOK
<1>5. TypeOK'
  BY <1>1, <1>3, <1>4, ProcessorAssumption
     DEF Crash, TypeOK, ProcessorTypeOK, ClientTypeOK, clientVars
<1>6. \A u \in Task : StoreFence(u)' /\ CreatorFence(u)'
  BY <1>1, StoreFences, CreatorStable, ZenonT(30) DEF clientVars
<1>7. LoopFence(p)'
  BY <1>2, <1>3 DEF LoopFence
<1>8. \A q \in Proc : LoopFence(q)'
  BY <1>1, <1>3, <1>7, LoopStable, ZenonT(30)
<1>9. \A i \in Slot : HandlerFence(p, i)'
  BY <1>2, <1>4, ZenonT(30) DEF HandlerFence
<1>10. \A q \in Proc : \A i \in Slot : HandlerFence(q, i)'
  BY <1>1, <1>4, <1>9, HandlerStable, ZenonT(30)
<1>11. \A c \in Client : ClientFence(c)'
  BY <1>1, ClientStable, ZenonT(30) DEF clientVars
<1>12. HandlersDistinct'
  <2>1. HandlersDistinct
    BY DEF Fenced
  <2>2. ASSUME NEW q \in Proc, NEW j \in Slot, handler'[q][j].pc \in {"run", "save"}
        PROVE  handler'[q][j] = handler[q][j]
    BY <1>2, <1>4, <2>2
  <2>. QED
    BY <2>1, <2>2, SMTT(30) DEF HandlersDistinct
<1>. QED
  BY <1>5, <1>6, <1>8, <1>10, <1>11, <1>12, Zenon DEF Fenced

----------------------------------------------------------------------------
(***************************************************************************)
(* The steps of creators and clients.                                      *)
(***************************************************************************)
LEMMA CreatorNextFenced ==
  ASSUME Fenced, NEW t \in Task, CreatorNext(t), UNCHANGED procVars
  PROVE  Fenced'
<1>. USE FencedTypes
<1>. DEFINE k == creator[t]
            first == NewTask(t).state
<1>1. k \in Creator /\ CreatorFence(t) /\ creator \in [Task -> Creator] /\ k.rec \in Record
  BY DEF Fenced, ClientTypeOK, Creator
<1>2. first \in {"new", "blocked"}
  BY DEF NewTask
<1>3. CASE EnqueueTask(t) \/ CreatorCrash(t)
  <2>1. StoreTypeOK' /\ QueueTypeOK' /\ StoreMoves /\ tasks' = tasks /\ lastSeq' = lastSeq
    BY <1>3, SameStore DEF EnqueueTask, CreatorCrash, storeVars, queueVars, StoreTypeOK, QueueTypeOK
  <2>2. /\ creator' \in [Task -> Creator]
        /\ \A u \in Task \ {t} : creator'[u] = creator[u]
        /\ creator'[t].rec = k.rec
        /\ \/ creator'[t].pc = "gone"
           \/ creator'[t].pc = "save" /\ k.rec.state \in {"new", "retry", "blocked"}
    <3>1. CASE EnqueueTask(t)
      BY <1>1, <3>1 DEF EnqueueTask, Creator, EnqueuePC
    <3>2. CASE CreatorCrash(t)
      BY <1>1, <3>2, SMTT(30) DEF CreatorCrash, Creator
    <3>. QED
      BY <1>3, <3>1, <3>2, Zenon
  <2>3. CreatorFence(t)'
    BY <1>1, <1>2, <2>1, <2>2, ZenonT(30) DEF CreatorFence, NewTask
  <2>. QED
    BY <1>3, <2>1, <2>2, <2>3, CreatorStep, ZenonT(30) DEF EnqueueTask, CreatorCrash
<1>4. CASE SaveEnqueued(t)
  <2>1. k.rec.state # "unknown" /\ k.pc \in {"save", "queueError"}
    BY <1>1, <1>2, <1>4 DEF SaveEnqueued, CreatorFence
  <2>2. PICK ok \in BOOLEAN :
          /\ SaveTaskState(t, k.rec, ok)
          /\ creator' = [creator EXCEPT
               ![t].pc = IF ok /\ k.pc = "save" THEN "publish" ELSE "idle",
               ![t].rec.seq = IF ok THEN tasks'[t].seq ELSE @]
    BY <1>4, Zenon DEF SaveEnqueued
  <2>3. StoreTypeOK' /\ QueueTypeOK' /\ StoreMoves
    BY <1>1, <1>4, <2>1, <2>2, SaveStore DEF SaveEnqueued, queueVars, QueueTypeOK
  <2>. DEFINE pc == IF ok /\ k.pc = "save" THEN "publish" ELSE "idle"
              rec == [k.rec EXCEPT !.seq = IF ok THEN tasks'[t].seq ELSE @]
              new == [k EXCEPT !.pc = pc, !.rec = rec]
  <2>4. creator' = [creator EXCEPT ![t] = new]
    BY <1>1, <2>2, Zenon DEF Creator, Record
  <2>5. tasks'[t].seq \in Nat
    BY <2>3 DEF StoreTypeOK, Record
  <2>6. /\ rec \in Record /\ rec.state = k.rec.state /\ rec.tries = k.rec.tries
        /\ rec.seq = IF ok THEN tasks'[t].seq ELSE k.rec.seq
    BY <1>1, <2>5, ZenonT(30) DEF Record
  <2>7. pc \in {"publish", "idle"} /\ (pc = "publish" => ok /\ k.pc = "save")
    OBVIOUS
  <2>. HIDE DEF pc, rec
  <2>8. new \in Creator /\ new.pc = pc /\ new.rec = rec
    BY <1>1, <2>6, <2>7, Zenon DEF Creator, EnqueuePC
  <2>. HIDE DEF new
  <2>9. /\ creator' \in [Task -> Creator] /\ creator'[t] = new
        /\ \A u \in Task \ {t} : creator'[u] = creator[u]
    BY <1>1, <2>4, <2>8, ZenonT(30)
  <2>10. CreatorFence(t)'
    <3>1. CASE ok
      <4>1. Accept(t, k.rec)
        BY <1>1, <2>1, <2>2, <3>1, SaveStore, Zenon
      <4>2. /\ tasks'[t] = [k.rec EXCEPT !.seq = lastSeq[t] + 1]
            /\ tasks'[t].seq = lastSeq'[t] /\ lastSeq'[t] = lastSeq[t] + 1
        BY <1>1, <2>1, <4>1, AcceptStore, ZenonT(30)
      <4>3. tasks'[t].tries = 0 /\ tasks'[t].state = k.rec.state /\ lastSeq[t] \in Nat
        BY <1>1, <4>2 DEF CreatorFence, Record, StoreTypeOK
      <4>. QED
        BY <1>1, <1>2, <2>1, <2>6, <2>7, <2>8, <2>9, <3>1, <4>2, <4>3 DEF CreatorFence, NewTask
    <3>2. CASE ~ok
      <4>1. pc = "idle" /\ rec = k.rec
        <5>1. pc = "idle"
          BY <2>7, <3>2, Zenon
        <5>2. rec.seq = k.rec.seq
          BY <2>6, <3>2, Zenon
        <5>. QED
          BY <1>1, <2>6, <5>1, <5>2 DEF Record
      <4>2. /\ k.rec.seq <= lastSeq'[t]
            /\ k.rec.seq = tasks'[t].seq =>
                 \/ tasks'[t] = tasks[t]
                 \/ tasks'[t].state = "unknown" /\ tasks'[t].tries = 0
        <5>1. k.rec.seq \in Nat /\ lastSeq[t] \in Nat /\ lastSeq'[t] \in Nat /\ k.rec.seq <= lastSeq[t]
          BY <1>1, <2>3, SMTT(30) DEF StoreTypeOK, CreatorFence, Record
        <5>2. /\ lastSeq[t] <= lastSeq'[t] /\ StoreFence(t)'
              /\ \A n \in 1..lastSeq[t] : tasks'[t].seq = n => tasks'[t] = tasks[t]
          BY <2>3, Zenon DEF StoreMoves
        <5>3. CASE k.rec.seq = 0
          BY <5>1, <5>2, <5>3 DEF StoreFence
        <5>4. CASE k.rec.seq # 0
          <6>1. k.rec.seq \in 1..lastSeq[t]
            BY <5>1, <5>4, Numbers, Zenon
          <6>2. tasks'[t].seq = k.rec.seq => tasks'[t] = tasks[t]
            BY <5>2, <6>1, ZenonT(30)
          <6>3. k.rec.seq <= lastSeq'[t]
            BY <5>1, <5>2
          <6>. QED
            BY <6>2, <6>3
        <5>. QED
          BY <5>3, <5>4, Zenon
      <4>. QED
        BY <1>1, <1>2, <2>8, <2>9, <4>1, <4>2, ZenonT(30) DEF CreatorFence, NewTask
    <3>. QED
      BY <3>1, <3>2, ZenonT(30)
  <2>. QED
    BY <1>4, <2>3, <2>9, <2>10, CreatorStep, ZenonT(30) DEF SaveEnqueued
<1>5. CASE PublishEnqueued(t)
  <2>1. StoreTypeOK' /\ StoreMoves /\ tasks' = tasks /\ lastSeq' = lastSeq
    BY <1>5, SameStore DEF PublishEnqueued, storeVars, StoreTypeOK
  <2>2. QueueTypeOK'
    <3>1. (k.rec.state # "retry") \in BOOLEAN
      OBVIOUS
    <3>. QED
      BY <1>5, <3>1, QueueStep, Zenon DEF PublishEnqueued
  <2>3. \/ creator' = [creator EXCEPT ![t].pc = "idle"]
        \/ creator' = [creator EXCEPT ![t].pc = "queueError", ![t].rec.state = "queue_error"]
    BY <1>5 DEF PublishEnqueued
  <2>4. k.pc = "publish"
    BY <1>5 DEF PublishEnqueued
  <2>5. CASE creator' = [creator EXCEPT ![t].pc = "idle"]
    <3>1. /\ creator' \in [Task -> Creator]
          /\ \A u \in Task \ {t} : creator'[u] = creator[u]
          /\ creator'[t].rec = k.rec /\ creator'[t].pc = "idle"
      BY <1>1, <2>5 DEF Creator, EnqueuePC
    <3>2. CreatorFence(t)'
      BY <1>1, <2>1, <2>4, <3>1, Zenon DEF CreatorFence, NewTask
    <3>. QED
      BY <1>5, <2>1, <2>2, <3>1, <3>2, CreatorStep, Zenon DEF PublishEnqueued
  <2>6. CASE creator' = [creator EXCEPT ![t].pc = "queueError", ![t].rec.state = "queue_error"]
    <3>. DEFINE rec == [k.rec EXCEPT !.state = "queue_error"]
                new == [k EXCEPT !.pc = "queueError", !.rec = rec]
    <3>1. creator' = [creator EXCEPT ![t] = new]
      BY <1>1, <2>6, Zenon DEF Creator
    <3>2. /\ rec \in Record /\ rec.state = "queue_error"
          /\ rec.seq = k.rec.seq /\ rec.tries = k.rec.tries
      BY <1>1 DEF Record, TaskState
    <3>. HIDE DEF rec
    <3>3. new \in Creator /\ new.pc = "queueError" /\ new.rec = rec
      BY <1>1, <3>2, Zenon DEF Creator, EnqueuePC
    <3>. HIDE DEF new
    <3>4. /\ creator' \in [Task -> Creator] /\ creator'[t] = new
          /\ \A u \in Task \ {t} : creator'[u] = creator[u]
      BY <1>1, <3>1, <3>3
    <3>5. CreatorFence(t)'
      BY <1>1, <2>1, <2>4, <3>2, <3>3, <3>4, Zenon DEF CreatorFence, NewTask
    <3>. QED
      BY <1>5, <2>1, <2>2, <3>4, <3>5, CreatorStep, ZenonT(30) DEF PublishEnqueued
  <2>. QED
    BY <2>3, <2>5, <2>6
<1>. QED
  BY <1>3, <1>4, <1>5, ZenonT(30) DEF CreatorNext

\* A client that starts a call, ends one or gives one up.
LEMMA ClientMoves ==
  ASSUME Fenced, NEW c \in Client, NEW k \in Caller, client' = [client EXCEPT ![c] = k],
         calls' \in 0..MaxCalls, ClientFence(c)', UNCHANGED creator, UNCHANGED procVars,
         StoreTypeOK', QueueTypeOK', StoreMoves
  PROVE  Fenced'
<1>1. client \in [Client -> Caller]
  BY DEF Fenced, TypeOK, ClientTypeOK
<1>2. client' \in [Client -> Caller] /\ \A d \in Client \ {c} : client'[d] = client[d]
  BY <1>1
<1>. QED
  BY <1>2, ClientStep, ZenonT(30)

\* A step of RetryTaskByID, DeleteTaskByID or PurgeQueue.
LEMMA ClientNextFenced ==
  ASSUME Fenced, NEW c \in Client, ClientNext(c), UNCHANGED procVars
  PROVE  Fenced'
<1>. USE FencedTypes
<1>. DEFINE k == client[c]
<1>1. k \in Caller /\ ClientFence(c) /\ client \in [Client -> Caller] /\ calls \in 0..MaxCalls
  BY Zenon DEF Fenced, ClientTypeOK
<1>2. /\ NoCall \in Caller
      /\ client' = [client EXCEPT ![c] = NoCall] => ClientFence(c)'
  <2>1. NoCall \in Caller /\ NoCall.pc = "idle"
    BY DEF NoCall, Caller, EnqueuePC, NoRecord, Record, TaskState
  <2>2. client' = [client EXCEPT ![c] = NoCall] => client'[c] = NoCall
    BY <1>1
  <2>. QED
    BY <2>1, <2>2, ZenonT(30) DEF ClientFence
<1>3. ASSUME NEW t \in Task, RetryTaskByID(c, t) \/ DeleteTaskByID(c, t)
      PROVE  Fenced'
  <2>1. /\ StoreTypeOK' /\ QueueTypeOK' /\ StoreMoves /\ tasks' = tasks /\ lastSeq' = lastSeq
        /\ UNCHANGED creator
    BY <1>3, SameStore
       DEF RetryTaskByID, DeleteTaskByID, storeVars, queueVars, StoreTypeOK, QueueTypeOK
  <2>2. calls' \in 0..MaxCalls /\ Exists(t)
    BY <1>1, <1>3, ClientAssumption DEF RetryTaskByID, DeleteTaskByID, Call
  <2>3. tasks[t] \in Record /\ tasks[t].seq \in 1..lastSeq[t]
    BY <2>2 DEF Fenced, StoreFence, StoreTypeOK, Record, Exists
  <2>4. CASE RetryTaskByID(c, t)
    <3>. DEFINE rec == [tasks[t] EXCEPT !.state = "retry"]
                new == [pc |-> "save", task |-> t, rec |-> rec]
    <3>1. /\ rec \in Record /\ rec.state = "retry"
          /\ rec.seq = tasks[t].seq /\ rec.tries = tasks[t].tries
      BY <2>3 DEF Record, TaskState
    <3>2. client' = [client EXCEPT ![c] = new]
      BY <2>4, ZenonT(30) DEF RetryTaskByID
    <3>. HIDE DEF rec
    <3>3. new \in Caller /\ new.pc = "save" /\ new.task = t /\ new.rec = rec
      BY <3>1, SMTT(30) DEF Caller, EnqueuePC
    <3>. HIDE DEF new
    <3>4. client'[c] = new
      BY <1>1, <3>2, ZenonT(30)
    <3>5. ClientFence(c)'
      BY <2>1, <2>3, <3>1, <3>3, <3>4, ZenonT(30) DEF ClientFence
    <3>. QED
      BY <2>1, <2>2, <3>2, <3>3, <3>5, ClientMoves, Zenon
  <2>5. CASE DeleteTaskByID(c, t)
    <3>. DEFINE new == [pc |-> "delete", task |-> t, rec |-> tasks[t]]
    <3>1. client' = [client EXCEPT ![c] = new]
      BY <2>5, Zenon DEF DeleteTaskByID
    <3>2. new \in Caller /\ new.pc = "delete" /\ new.task = t
      BY <2>3, Zenon DEF Caller
    <3>. HIDE DEF new
    <3>3. client'[c] = new
      BY <1>1, <3>1
    <3>4. ClientFence(c)'
      BY <3>2, <3>3, ZenonT(30) DEF ClientFence
    <3>. QED
      BY <2>1, <2>2, <3>1, <3>2, <3>4, ClientMoves, Zenon
  <2>. QED
    BY <1>3, <2>4, <2>5
<1>4. CASE SaveRetried(c)
  <2>1. /\ k.task \in Task /\ k.rec \in Record /\ k.pc \in {"save", "queueError"}
        /\ k.rec.state # "unknown"
    BY <1>1, <1>4 DEF SaveRetried, ClientFence, Caller
  <2>2. PICK ok \in BOOLEAN :
          /\ SaveTaskState(k.task, k.rec, ok)
          /\ client' = [client EXCEPT ![c] =
               IF ok /\ k.pc = "save"
               THEN [k EXCEPT !.pc = "publish", !.rec = tasks'[k.task]] ELSE NoCall]
    BY <1>4, Zenon DEF SaveRetried
  <2>3. StoreTypeOK' /\ QueueTypeOK' /\ StoreMoves /\ UNCHANGED <<creator, calls>>
    BY <1>4, <2>1, <2>2, SaveStore DEF SaveRetried, queueVars, QueueTypeOK
  <2>4. CASE ok /\ k.pc = "save"
    <3>. DEFINE new == [k EXCEPT !.pc = "publish", !.rec = tasks'[k.task]]
    <3>1. client' = [client EXCEPT ![c] = new]
      BY <2>2, <2>4
    <3>2. Accept(k.task, k.rec)
      BY <2>1, <2>2, <2>4, SaveStore, Zenon
    <3>3. /\ tasks'[k.task] = [k.rec EXCEPT !.seq = lastSeq[k.task] + 1]
          /\ tasks'[k.task].seq = lastSeq'[k.task] /\ lastSeq'[k.task] = lastSeq[k.task] + 1
      BY <2>1, <3>2, AcceptStore, ZenonT(30)
    <3>4. /\ tasks'[k.task] \in Record /\ tasks'[k.task].state = "retry"
          /\ lastSeq[k.task] \in Nat
      BY <1>1, <2>1, <2>3, <2>4, <3>3, ZenonT(30) DEF StoreTypeOK, ClientFence, Record
    <3>5. new \in Caller /\ new.pc = "publish" /\ new.task = k.task /\ new.rec = tasks'[k.task]
      BY <1>1, <3>4, Zenon DEF Caller, EnqueuePC
    <3>. HIDE DEF new
    <3>6. client'[c] = new
      BY <1>1, <3>1
    <3>7. ClientFence(c)'
      <4>1. tasks'[k.task].seq \in 1..lastSeq'[k.task]
        BY <3>3, <3>4
      <4>2. /\ client'[c].pc = "publish" /\ client'[c].task = k.task
            /\ client'[c].rec = tasks'[k.task]
        BY <3>5, <3>6
      <4>. QED
        BY <2>1, <3>4, <4>1, <4>2, Zenon DEF ClientFence
    <3>. QED
      BY <1>1, <2>3, <3>1, <3>5, <3>7, ClientMoves, Zenon
  <2>5. CASE ~(ok /\ k.pc = "save")
    <3>1. client' = [client EXCEPT ![c] = NoCall]
      BY <2>2, <2>5, Zenon
    <3>. QED
      BY <1>1, <1>2, <2>3, <3>1, ClientMoves, Zenon
  <2>. QED
    BY <2>4, <2>5
<1>5. CASE PublishRetried(c)
  <2>1. k.task \in Task /\ k.rec \in Record /\ k.pc = "publish"
    BY <1>1, <1>5 DEF PublishRetried, ClientFence, Caller
  <2>2. /\ StoreTypeOK' /\ StoreMoves /\ tasks' = tasks /\ lastSeq' = lastSeq
        /\ UNCHANGED <<creator, calls>>
    BY <1>5, SameStore DEF PublishRetried, storeVars, StoreTypeOK
  <2>3. QueueTypeOK'
    <3>1. (k.rec.state # "retry") \in BOOLEAN
      OBVIOUS
    <3>. QED
      BY <1>5, <2>1, <3>1, QueueStep, Zenon DEF PublishRetried
  <2>. DEFINE rec == [k.rec EXCEPT !.state = "queue_error"]
              new == [k EXCEPT !.pc = "queueError", !.rec = rec]
  <2>4. client' = [client EXCEPT ![c] = NoCall] \/ client' = [client EXCEPT ![c] = new]
    BY <1>1, <1>5, Zenon DEF PublishRetried, Caller
  <2>5. /\ rec \in Record /\ rec.state = "queue_error"
        /\ rec.seq = k.rec.seq /\ rec.tries = k.rec.tries
    BY <2>1 DEF Record, TaskState
  <2>. HIDE DEF rec
  <2>6. new \in Caller /\ new.pc = "queueError" /\ new.task = k.task /\ new.rec = rec
    BY <1>1, <2>5, Zenon DEF Caller, EnqueuePC
  <2>. HIDE DEF new
  <2>7. ASSUME client' = [client EXCEPT ![c] = new]
        PROVE  ClientFence(c)'
    <3>1. client'[c] = new
      BY <1>1, <2>7
    <3>. QED
      BY <1>1, <2>1, <2>2, <2>5, <2>6, <3>1, Zenon DEF ClientFence
  <2>. QED
    BY <1>1, <1>2, <2>2, <2>3, <2>4, <2>6, <2>7, ClientMoves, ZenonT(30)
<1>6. CASE DeleteFound(c)
  <2>1. k.task \in Task /\ k.rec.seq \in Nat
    BY <1>1, <1>6, Zenon DEF DeleteFound, ClientFence, Caller, Record
  <2>2. StoreTypeOK' /\ QueueTypeOK' /\ StoreMoves
    BY <1>6, <2>1, DeleteStore, ZenonT(30) DEF DeleteFound, queueVars, QueueTypeOK
  <2>. QED
    BY <1>1, <1>2, <1>6, <2>2, ClientMoves, Zenon DEF DeleteFound
<1>7. CASE ClientCrash(c)
  <2>1. StoreTypeOK' /\ QueueTypeOK' /\ StoreMoves
    BY <1>7, SameStore, ZenonT(30) DEF ClientCrash, storeVars, queueVars, StoreTypeOK, QueueTypeOK
  <2>. QED
    BY <1>1, <1>2, <1>7, <2>1, ClientMoves, Zenon DEF ClientCrash
<1>. QED
  BY <1>3, <1>4, <1>5, <1>6, <1>7, ZenonT(30) DEF ClientNext

----------------------------------------------------------------------------
(***************************************************************************)
(* The invariant.                                                          *)
(***************************************************************************)
\* Nothing is stored or in hand at first.
LEMMA InitFenced ==
  ASSUME Init
  PROVE  Fenced
<1>1. NoRecord \in Record /\ NoRecord.seq = 0 /\ NoRecord.state = "unknown" /\ NoRecord.tries = 0
  BY ZenonT(30) DEF NoRecord, Record, TaskState
<1>2. StoreTypeOK /\ \A t \in Task : StoreFence(t) /\ tasks[t] = NoRecord
  BY <1>1 DEF Init, StoreInit, StoreTypeOK, StoreFence
<1>3. NoItem \in Item
  BY DEF NoItem, Item
<1>4. QueueTypeOK
  BY <1>3, ZenonT(30) DEF Init, QueueInit, QueueTypeOK
<1>5. Free \in Handler /\ Free.pc = "free" /\ Waiting \in Loop /\ Waiting.pc = "limiter"
  BY ZenonT(30) DEF Free, Handler, HandlerPC, NoRecord, Record, TaskState, Waiting, Loop, LoopPC
<1>6. ProcessorTypeOK
  BY <1>5, ProcessorAssumption DEF Init, ProcessorInit, ProcessorTypeOK
<1>7. \A p \in Proc : loop[p] = Waiting /\ \A i \in Slot : handler[p][i] = Free
  BY Zenon DEF Init, ProcessorInit
<1>8. /\ \A p \in Proc : LoopFence(p)
      /\ \A p \in Proc : \A i \in Slot : HandlerFence(p, i)
      /\ HandlersDistinct
  BY <1>5, <1>7, Zenon DEF LoopFence, HandlerFence, HandlersDistinct
<1>9. \A t \in Task : /\ NewTask(t) \in Record /\ NewTask(t).seq = 0 /\ NewTask(t).tries = 0
                      /\ NewTask(t).state \in {"new", "blocked"}
  BY ZenonT(30) DEF NewTask, Record, TaskState
<1>10. \A t \in Task : /\ creator[t] \in Creator /\ creator[t].rec = NewTask(t)
                       /\ creator[t].pc = "idle"
  <2>. SUFFICES ASSUME NEW t \in Task
                PROVE  /\ creator[t] \in Creator /\ creator[t].rec = NewTask(t)
                       /\ creator[t].pc = "idle"
    OBVIOUS
  <2>1. creator[t] = [pc |-> "idle", rec |-> NewTask(t), calls |-> 0]
    BY DEF Init, ClientInit
  <2>. QED
    BY <1>9, <2>1 DEF Creator, EnqueuePC
<1>11. \A t \in Task : CreatorFence(t)
  <2>. SUFFICES ASSUME NEW t \in Task PROVE CreatorFence(t)
    OBVIOUS
  <2>1. lastSeq[t] = 0
    BY ZenonT(30) DEF Init, StoreInit
  <2>2. tasks[t].tries = 0 /\ tasks[t].state = "unknown"
    BY <1>2 DEF NoRecord
  <2>. DEFINE k == creator[t]
              new == NewTask(t)
  <2>3. /\ k.rec.seq = 0 /\ k.rec.tries = 0 /\ k.rec.state = new.state /\ k.pc = "idle"
    BY <1>9, <1>10, ZenonT(30)
  <2>. HIDE DEF k, new
  <2>4. /\ k.rec.seq <= lastSeq[t]
        /\ k.rec.tries = 0
        /\ k.pc \in {"save", "publish"} => k.rec.state = new.state
        /\ k.pc = "queueError" => k.rec.state = "queue_error"
        /\ k.rec.state \in {new.state, "queue_error"}
        /\ k.pc \in {"publish", "queueError"} => k.rec.seq > 0
        /\ k.rec.seq = tasks[t].seq =>
             /\ tasks[t].tries = 0
             /\ k.rec.state = new.state \/ k.pc = "queueError" => tasks[t].state \in {new.state, "unknown"}
    BY <2>1, <2>2, <2>3
  <2>. QED
    BY <2>4, Zenon DEF CreatorFence, k, new
<1>12. NoCall \in Caller /\ NoCall.pc = "idle"
  BY ZenonT(30) DEF NoCall, Caller, EnqueuePC, NoRecord, Record, TaskState
<1>13. \A c \in Client : client[c] = NoCall
  BY DEF Init, ClientInit
<1>14. ClientTypeOK
  <2>1. creator \in [Task -> Creator]
    <3>1. creator = [t \in Task |-> creator[t]]
      BY ZenonT(30) DEF Init, ClientInit
    <3>. QED
      BY <1>10, <3>1, ZenonT(30)
  <2>2. client \in [Client -> Caller] /\ calls \in 0..MaxCalls
    BY <1>12, ClientAssumption DEF Init, ClientInit
  <2>. QED
    BY <2>1, <2>2 DEF ClientTypeOK
<1>15. \A c \in Client : ClientFence(c)
  BY <1>12, <1>13, ZenonT(30) DEF ClientFence
<1>. QED
  BY <1>2, <1>4, <1>6, <1>8, <1>11, <1>14, <1>15, ZenonT(30) DEF Fenced, TypeOK

\* Every step of the system keeps every writer fenced.
LEMMA NextFenced ==
  ASSUME Fenced, [Next]_vars
  PROVE  Fenced'
<1>. USE FencedTypes
<1>1. ASSUME NEW p \in Proc, LoopNext(p), UNCHANGED clientVars
      PROVE  Fenced'
  BY <1>1, TakeTokenFenced, PollItemFenced, LoadTaskFenced, LoadDependencyFenced,
     TerminateFailedFenced, EndItemFenced, SaveTaskFenced, FindDiscardedFenced,
     DiscardTaskFenced, SetTaskActiveFenced, ZenonT(30) DEF LoopNext
<1>2. ASSUME NEW p \in Proc, NEW i \in Slot, HandlerNext(p, i), UNCHANGED clientVars
      PROVE  Fenced'
  BY <1>2, HandlerReturnsFenced, SaveResultFenced, FinishItemFenced, ZenonT(30) DEF HandlerNext
<1>3. ASSUME NEW t \in Task, PollReplyLost(t), UNCHANGED clientVars
      PROVE  Fenced'
  BY <1>3, QueueStep, QuietStep, ZenonT(30)
     DEF PollReplyLost, storeVars, clientVars, StoreTypeOK, ClientTypeOK
<1>4. ASSUME PurgeQueue, UNCHANGED procVars
      PROVE  Fenced'
  <2>1. NoItem \in Item
    BY ZenonT(30) DEF NoItem, Item
  <2>2. QueueTypeOK'
    BY <1>4, <2>1 DEF PurgeQueue, Purge, QueueTypeOK
  <2>3. calls' \in 0..MaxCalls
    <3>1. calls \in Nat /\ MaxCalls \in Nat
      BY ClientAssumption, SMTT(30) DEF ClientTypeOK
    <3>. QED
      BY <1>4, <3>1, Numbers, Zenon DEF PurgeQueue
  <2>. QED
    BY <1>4, <2>2, <2>3, QuietStep, ZenonT(30) DEF PurgeQueue, storeVars, StoreTypeOK
<1>5. ASSUME NEW t \in Task, LeaseTimeout(t) \/ ForgetMsgId(t)
      PROVE  Fenced'
  BY <1>5, QueueStep, QuietStep, ZenonT(30)
     DEF LeaseTimeout, ForgetMsgId, storeVars, clientVars, StoreTypeOK, ClientTypeOK
<1>6. ASSUME NEW t \in Task, RunTimeout(t) \/ Deadline(t)
      PROVE  Fenced'
  BY <1>6, QuietStep, ZenonT(30)
     DEF RunTimeout, Deadline, MaxRunTimePasses, DeadlinePasses, queueVars, clientVars,
         StoreTypeOK, QueueTypeOK, ClientTypeOK
<1>7. CASE UNCHANGED vars
  BY <1>7, QuietStep
     DEF vars, storeVars, queueVars, clientVars, StoreTypeOK, QueueTypeOK, ClientTypeOK
<1>. QED
  BY <1>1, <1>2, <1>3, <1>4, <1>5, <1>6, <1>7, CrashFenced, CreatorNextFenced, ClientNextFenced, ZenonT(30)
     DEF Next

\* Every writer is fenced: whoever holds a record whose sequence is the
\* store's knows what the store holds, for any number of workers and clients,
\* any limits and all faults together.
THEOREM FencedHolds == Spec => []Fenced
<1>1. Init => Fenced
  BY InitFenced
<1>2. Fenced /\ [Next]_vars => Fenced'
  BY NextFenced
<1>. QED
  BY <1>1, <1>2, PTL DEF Spec

\* All variables keep their types; in particular the loop of a worker never
\* loses the task it works on, and a limiter never holds more than Concurrency
\* tokens.
THEOREM TypeCorrect == Spec => []TypeOK
<1>1. Fenced => TypeOK
  BY ZenonT(30) DEF Fenced
<1>. QED
  BY <1>1, FencedHolds, PTL

\* Of all the handlers started for a task at most one can still record an
\* outcome, however often the item was delivered.
THEOREM SoleOwnerHolds == Spec => []SoleOwner
<1>1. Fenced => SoleOwner
  <2>. SUFFICES ASSUME Fenced PROVE SoleOwner
    BY ZenonT(30)
  <2>1. ASSUME NEW p \in Proc, NEW q \in Proc, NEW i \in Slot, NEW j \in Slot
        PROVE  LET h == handler[p][i]
                   g == handler[q][j]
               IN /\ h.pc \in {"run", "save"}
                  /\ g.pc \in {"run", "save"}
                  /\ h.task = g.task
                  /\ h.rec.seq = tasks[h.task].seq
                  /\ g.rec.seq = tasks[g.task].seq
                  => <<p, i>> = <<q, j>> /\ tasks[h.task].state = "active"
    <3>. DEFINE h == handler[p][i]
                g == handler[q][j]
    <3>1. HandlersDistinct /\ HandlerFence(p, i)
      BY ZenonT(30) DEF Fenced
    <3>2. ASSUME h.pc \in {"run", "save"}, g.pc \in {"run", "save"}, h.task = g.task,
                 h.rec.seq = tasks[h.task].seq, g.rec.seq = tasks[g.task].seq
          PROVE  <<p, i>> = <<q, j>> /\ tasks[h.task].state = "active"
      <4>1. h.rec.seq = g.rec.seq
        BY <3>2, ZenonT(30)
      <4>2. p = q /\ i = j
        BY <3>1, <3>2, <4>1, ZenonT(30) DEF HandlersDistinct
      <4>3. tasks[h.task].state = "active"
        BY <3>1, <3>2, Zenon DEF HandlerFence
      <4>. QED
        BY <4>2, <4>3
    <3>. QED
      BY <3>2, ZenonT(30)
  <2>. QED
    BY <2>1, Zenon DEF SoleOwner
<1>. QED
  BY <1>1, FencedHolds, PTL

----------------------------------------------------------------------------
(***************************************************************************)
(* Leases: what the steps of threads, queue and creators do to them.       *)
(***************************************************************************)
\* Where the loop may still pass its item on to a handler.
Pursuing == {"load", "deps", "activate"}

\* The loop of p goes on with the item it has, or lets go of it.
LoopKeeps(p) ==
  \/ loop'[p].pc \in {"limiter", "poll"}
  \/ /\ loop[p].pc \notin {"limiter", "poll"}
     /\ loop'[p].task = loop[p].task /\ loop'[p].item = loop[p].item
     /\ loop'[p].pc \in Pursuing => loop[p].pc \in Pursuing

\* So does a goroutine.
HandlerKeeps(p, i) ==
  \/ handler'[p][i].pc = "free"
  \/ /\ handler[p][i].pc # "free"
     /\ handler'[p][i].task = handler[p][i].task /\ handler'[p][i].item = handler[p][i].item

ThreadsKeep == \A p \in Proc : LoopKeeps(p) /\ \A i \in Slot : HandlerKeeps(p, i)

WorkedOn(t) == \E p \in Proc : LoopOn(p, t) \/ \E i \in Slot : HandlerOn(p, i, t)

\* An item is taken away, or changes while no thread works on it.
ItemsKeep ==
  /\ lastItem' = lastItem
  /\ \A t \in Task : \/ items'[t] = items[t]
                     \/ items'[t].seq = 0
                     \/ items'[t].seq = items[t].seq /\ ~WorkedOn(t)'

CallersKeep ==
  /\ \A t \in Task : creator'[t] = creator[t]
  /\ \A c \in Client : client'[c].pc \in {"idle", "delete"}

\* A step in which threads, items and callers keep what they have keeps the
\* leases exclusive.
LEMMA KeptExclusive ==
  ASSUME Exclusive, ThreadsKeep, ItemsKeep, CallersKeep
  PROVE  Exclusive'
<1>1. \A p \in Proc : \A t \in Task : LoopOn(p, t)' =>
        LoopOn(p, t) /\ loop'[p].item = loop[p].item
  BY ZenonT(30) DEF ThreadsKeep, LoopKeeps, LoopOn
<1>2. \A p \in Proc : \A i \in Slot : \A t \in Task : HandlerOn(p, i, t)' =>
        HandlerOn(p, i, t) /\ handler'[p][i].item = handler[p][i].item
  BY ZenonT(30) DEF ThreadsKeep, HandlerKeeps, HandlerOn
<1>3. OneWorker'
  <2>1. SUFFICES ASSUME NEW u \in Task, NEW q \in Proc, NEW r \in Proc
                 PROVE  /\ LoopOn(q, u)' /\ LoopOn(r, u)' => q = r
                        /\ \A j \in Slot : ~(LoopOn(q, u)' /\ HandlerOn(r, j, u)')
                        /\ \A i, j \in Slot : HandlerOn(q, i, u)' /\ HandlerOn(r, j, u)' => q = r /\ i = j
    BY Zenon DEF OneWorker
  <2>2. /\ LoopOn(q, u) /\ LoopOn(r, u) => q = r
        /\ \A j \in Slot : ~(LoopOn(q, u) /\ HandlerOn(r, j, u))
        /\ \A i, j \in Slot : HandlerOn(q, i, u) /\ HandlerOn(r, j, u) => q = r /\ i = j
    BY Zenon DEF Exclusive, OneWorker
  <2>3. /\ LoopOn(q, u)' => LoopOn(q, u)
        /\ LoopOn(r, u)' => LoopOn(r, u)
        /\ \A i \in Slot : HandlerOn(q, i, u)' => HandlerOn(q, i, u)
        /\ \A i \in Slot : HandlerOn(r, i, u)' => HandlerOn(r, i, u)
    BY <1>1, <1>2, Zenon
  <2>. QED
    BY <2>2, <2>3, Zenon
<1>4. ASSUME NEW t \in Task
      PROVE  LeaseFence(t)'
  <2>1. LeaseFence(t)
    BY ZenonT(30) DEF Exclusive
  <2>2. ASSUME NEW item, Leased(t, item), WorkedOn(t)'
        PROVE  Leased(t, item)'
    BY <2>2 DEF Leased, ItemsKeep, HasItem
  <2>3. \A p \in Proc : LoopOn(p, t)' => Leased(t, loop[p].item)'
    BY <1>1, <2>1, <2>2, ZenonT(30) DEF LeaseFence, WorkedOn
  <2>4. \A p \in Proc : \A i \in Slot : HandlerOn(p, i, t)' => Leased(t, handler[p][i].item)'
    BY <1>2, <2>1, <2>2, ZenonT(30) DEF LeaseFence, WorkedOn
  <2>5. HasItem(t)' => HasItem(t)
    BY ZenonT(30) DEF HasItem, ItemsKeep
  <2>. QED
    BY <2>1, <2>3, <2>4, <2>5, ZenonT(30) DEF LeaseFence, ItemsKeep, CallersKeep
<1>. QED
  BY <1>3, <1>4, ZenonT(30) DEF Exclusive, CallersKeep

\* An item is removed, or released by the last thread that worked on it.
LEMMA RemoveKeeps ==
  ASSUME QueueTypeOK, NEW t \in Task, NEW seq, RemoveItem(t, seq)
  PROVE  ItemsKeep
  BY DEF QueueTypeOK, Item, NoItem, RemoveItem, ItemsKeep, queueVars

LEMMA ReleaseKeeps ==
  ASSUME QueueTypeOK, NEW t \in Task, NEW seq, ReleaseItem(t, seq), ~WorkedOn(t)'
  PROVE  ItemsKeep
  BY ZenonT(30) DEF QueueTypeOK, Item, ReleaseItem, ItemsKeep, queueVars

\* A step that leaves the queue alone keeps its items.
LEMMA SameItems ==
  ASSUME UNCHANGED queueVars
  PROVE  ItemsKeep
  BY DEF ItemsKeep, queueVars

\* What a step of the loop, other than a poll, does to the item it has.
LEMMA LoopMoves ==
  ASSUME Fenced, NEW p \in Proc, LoopNext(p), \A t \in Task : ~PollItem(p, t)
  PROVE  LoopKeeps(p)
<1>0. loop \in [Proc -> Loop] /\ Waiting.pc = "limiter"
  BY ZenonT(30) DEF Fenced, TypeOK, ProcessorTypeOK, Waiting
<1>1. ASSUME EndMessage(p) PROVE LoopKeeps(p)
  BY <1>0, <1>1 DEF EndMessage, LoopKeeps
<1>2. ASSUME NEW pc, Goto(p, pc), loop[p].pc \notin {"limiter", "poll"}, pc \notin Pursuing
      PROVE  LoopKeeps(p)
  BY <1>0, <1>2, ZenonT(30) DEF Goto, LoopKeeps, Loop
<1>3. ASSUME loop[p].pc \notin {"limiter", "poll"}, NEW l, l.task = loop[p].task, l.item = loop[p].item,
             l.pc \in Pursuing => loop[p].pc \in Pursuing, loop' = [loop EXCEPT ![p] = l]
      PROVE  LoopKeeps(p)
  BY <1>0, <1>3 DEF LoopKeeps
<1>4. CASE TakeToken(p)
  BY <1>0, <1>4 DEF TakeToken, Goto, LoopKeeps, Loop
<1>5. CASE LoadTask(p)
  <2>. DEFINE t == loop[p].task
              r == tasks[t]
              expire == IsPastDeadline(t) \/ ExceedsMaxTries(t, r)
              deps == r.state = "blocked" /\ HasDependencies(t)
              rec == IF expire THEN [r EXCEPT !.state = "expired"] ELSE r
              pc == CASE expire -> "save"
                      [] ~expire /\ deps -> "deps"
                      [] OTHER -> "activate"
              dep == IF ~expire /\ deps THEN 1 ELSE 0
              l == [loop[p] EXCEPT !.rec = rec, !.pc = pc, !.dep = dep]
  <2>1. \/ EndMessage(p) \/ Goto(p, "termUnknown") \/ Goto(p, "ack")
        \/ loop' = [loop EXCEPT ![p] = l]
    BY <1>5, Zenon DEF LoadTask
  <2>2. loop[p].pc = "load"
    BY <1>5, Zenon DEF LoadTask
  <2>. HIDE DEF rec, pc, dep
  <2>3. l.task = loop[p].task /\ l.item = loop[p].item
    BY <1>0, ZenonT(30) DEF Loop
  <2>. HIDE DEF l
  <2>. QED
    BY <1>1, <1>2, <1>3, <2>1, <2>2, <2>3, ZenonT(30) DEF Pursuing
<1>6. CASE LoadDependency(p)
  <2>. DEFINE ready == loop[p].ready
                         /\ tasks[Dependencies[loop[p].task][loop[p].dep]].state = "complete"
              pc == IF ready THEN "activate" ELSE "nakBlocked"
              l == [loop[p] EXCEPT !.dep = @ + 1, !.ready = ready]
              m == [loop[p] EXCEPT !.pc = pc, !.ready = TRUE, !.dep = 0]
  <2>1. loop[p].pc = "deps"
    BY <1>6, Zenon DEF LoadDependency
  <2>2. \/ Goto(p, "nakBlocked") \/ Goto(p, "termFailed")
        \/ loop' = [loop EXCEPT ![p].dep = @ + 1, ![p].ready = ready]
        \/ loop' = [loop EXCEPT ![p].pc = pc, ![p].ready = TRUE, ![p].dep = 0]
    BY <1>6, Zenon DEF LoadDependency
  <2>. HIDE DEF ready, pc
  <2>3. \/ Goto(p, "nakBlocked") \/ Goto(p, "termFailed")
        \/ loop' = [loop EXCEPT ![p] = l] \/ loop' = [loop EXCEPT ![p] = m]
    BY <2>2, Zenon
  <2>4. l.task = loop[p].task /\ l.item = loop[p].item /\ m.task = loop[p].task
        /\ m.item = loop[p].item
    BY <1>0, ZenonT(30) DEF Loop
  <2>. HIDE DEF l, m
  <2>. QED
    BY <1>2, <1>3, <2>1, <2>3, <2>4, ZenonT(30) DEF Pursuing
<1>7. CASE TerminateFailed(p)
  <2>. DEFINE l == [loop[p] EXCEPT !.pc = "save", !.rec.state = "unreachable"]
  <2>1. loop' = [loop EXCEPT ![p] = l] /\ loop[p].pc = "termFailed"
    BY <1>7, Zenon DEF TerminateFailed
  <2>2. l.task = loop[p].task /\ l.item = loop[p].item /\ l.pc = "save"
    BY <1>0, ZenonT(30) DEF Loop
  <2>. HIDE DEF l
  <2>. QED
    BY <1>3, <2>1, <2>2, Zenon DEF Pursuing
<1>8. CASE NakBlocked(p) \/ RemoveUseless(p) \/ SaveTask(p) \/ DiscardTask(p)
  BY <1>1, <1>8 DEF NakBlocked, RemoveUseless, SaveTask, DiscardTask
<1>9. CASE FindDiscarded(p)
  <2>. DEFINE l == [loop[p] EXCEPT !.pc = "discard", !.rec.seq = tasks[loop[p].task].seq]
  <2>1. /\ loop[p].pc = "save"
        /\ EndMessage(p) \/ loop' = [loop EXCEPT ![p] = l]
    BY <1>9, Zenon DEF FindDiscarded
  <2>2. l.task = loop[p].task /\ l.item = loop[p].item /\ l.pc = "discard"
    BY <1>0 DEF Loop
  <2>. HIDE DEF l
  <2>. QED
    BY <1>1, <1>3, <2>1, <2>2 DEF Pursuing
<1>10. CASE SetTaskActive(p)
  BY <1>0, <1>1, <1>10, Zenon DEF SetTaskActive, LoopKeeps
<1>. QED
  BY <1>4, <1>5, <1>6, <1>7, <1>8, <1>9, <1>10, ZenonT(30) DEF LoopNext

\* The same for a goroutine; no other thread moves.
LEMMA HandlerMoves ==
  ASSUME Fenced, NEW p \in Proc, NEW i \in Slot, HandlerNext(p, i)
  PROVE  /\ HandlerKeeps(p, i) /\ loop' = loop
         /\ \A q \in Proc : \A j \in Slot : <<q, j>> # <<p, i>> => handler'[q][j] = handler[q][j]
<1>0. handler \in [Proc -> [Slot -> Handler]] /\ handler[p][i] \in Handler
  BY ZenonT(30) DEF Fenced, TypeOK, ProcessorTypeOK
<1>1. ASSUME handler[p][i].pc # "free", NEW h, handler' = [handler EXCEPT ![p][i] = h],
             \/ h.pc = "free"
             \/ h.task = handler[p][i].task /\ h.item = handler[p][i].item
      PROVE  /\ HandlerKeeps(p, i)
             /\ \A q \in Proc : \A j \in Slot : <<q, j>> # <<p, i>> => handler'[q][j] = handler[q][j]
  BY <1>0, <1>1 DEF HandlerKeeps
<1>2. CASE HandlerReturns(p, i)
  <2>1. PICK s : handler' = [handler EXCEPT ![p][i].pc = "save", ![p][i].rec.state = s]
    BY <1>2, Zenon DEF HandlerReturns
  <2>. DEFINE rec == [handler[p][i].rec EXCEPT !.state = s]
              h == [handler[p][i] EXCEPT !.pc = "save", !.rec = rec]
  <2>2. handler' = [handler EXCEPT ![p][i] = h]
    BY <1>0, <2>1, ZenonT(40) DEF Handler
  <2>. HIDE DEF rec
  <2>3. h.task = handler[p][i].task /\ h.item = handler[p][i].item
    BY <1>0 DEF Handler
  <2>. HIDE DEF h
  <2>. QED
    BY <1>1, <1>2, <2>2, <2>3, Zenon DEF HandlerReturns
<1>3. CASE SaveResult(p, i) \/ DiscardResult(p, i) \/ FindResult(p, i)
  <2>. DEFINE f == [handler[p][i] EXCEPT !.pc = "finish"]
              rec == [handler[p][i].rec EXCEPT !.seq = tasks[handler[p][i].task].seq]
              d == [handler[p][i] EXCEPT !.pc = "discard", !.rec = rec]
  <2>1. \/ handler' = [handler EXCEPT ![p][i] = f]
        \/ handler' = [handler EXCEPT ![p][i] = d]
    <3>1. CASE SaveResult(p, i)
      BY <3>1 DEF SaveResult
    <3>2. CASE DiscardResult(p, i)
      BY <3>2 DEF DiscardResult
    <3>3. CASE FindResult(p, i)
      BY <1>0, <3>3, ZenonT(40) DEF FindResult, Handler
    <3>. QED
      BY <1>3, <3>1, <3>2, <3>3, ZenonT(30)
  <2>. HIDE DEF rec
  <2>2. /\ f.task = handler[p][i].task /\ f.item = handler[p][i].item
        /\ d.task = handler[p][i].task /\ d.item = handler[p][i].item
    BY <1>0 DEF Handler
  <2>3. loop' = loop /\ handler[p][i].pc # "free"
    BY <1>3, Zenon DEF SaveResult, DiscardResult, FindResult
  <2>. HIDE DEF f, d
  <2>. QED
    BY <1>1, <2>1, <2>2, <2>3, ZenonT(30)
<1>4. CASE FinishItem(p, i)
  <2>1. Free.pc = "free" /\ handler' = [handler EXCEPT ![p][i] = Free] /\ loop' = loop
        /\ handler[p][i].pc # "free"
    BY <1>4 DEF FinishItem, Free
  <2>. QED
    BY <1>1, <2>1, Zenon
<1>5. loop' = loop
  BY Zenon DEF HandlerNext, HandlerReturns, SaveResult, DiscardResult, FindResult, FinishItem
<1>. QED
  BY <1>2, <1>3, <1>4, <1>5, ZenonT(30) DEF HandlerNext

\* Threads that do not move keep their items.
LEMMA SameThreads ==
  ASSUME UNCHANGED <<loop, handler>>
  PROVE  ThreadsKeep
  BY DEF ThreadsKeep, LoopKeeps, HandlerKeeps

\* A poll leases an item that no thread works on.
LEMMA PollItemExclusive ==
  ASSUME Fenced, Exclusive, NEW p \in Proc, NEW t \in Task, PollItem(p, t), UNCHANGED clientVars
  PROVE  Exclusive'
<1>. DEFINE l == [loop[p] EXCEPT !.pc = "load", !.task = t, !.item = items'[t].seq]
<1>0. /\ loop \in [Proc -> Loop] /\ items \in [Task -> Item]
      /\ HasItem(t) /\ ~items[t].leased /\ LeaseFence(t) /\ lastItem' = lastItem
      /\ handler' = handler /\ creator' = creator /\ client' = client
  BY DEF Fenced, TypeOK, ProcessorTypeOK, QueueTypeOK, PollItem, Deliver, Deliverable, Exclusive, clientVars
<1>1. loop' = [loop EXCEPT ![p] = l]
  BY Zenon DEF PollItem
<1>2. l.pc = "load" /\ l.task = t /\ l.item = items'[t].seq
  BY <1>0 DEF Loop
<1>3. /\ items'[t].seq = items[t].seq /\ items'[t].leased
      /\ \A u \in Task : u # t => items'[u] = items[u]
  BY <1>0, SMTT(30) DEF PollItem, Deliver, Item
<1>. HIDE DEF l
<1>4. ~WorkedOn(t)
  BY <1>0, ZenonT(30) DEF WorkedOn, LeaseFence, Leased
<1>5. /\ \A u \in Task : LoopOn(p, u)' <=> u = t
      /\ \A q \in Proc : q # p => loop'[q] = loop[q]
  BY <1>0, <1>1, <1>2, ZenonT(30) DEF LoopOn
<1>6. OneWorker'
  <2>1. /\ \A u \in Task : \A q \in Proc : \A i \in Slot : HandlerOn(q, i, u)' <=> HandlerOn(q, i, u)
        /\ \A u \in Task : \A q \in Proc : q # p => (LoopOn(q, u)' <=> LoopOn(q, u))
    BY <1>0, <1>5, ZenonT(30) DEF LoopOn, HandlerOn
  <2>2. OneWorker
    BY Zenon DEF Exclusive
  <2>3. SUFFICES ASSUME NEW u \in Task, NEW q \in Proc, NEW r \in Proc
                 PROVE  /\ LoopOn(q, u)' /\ LoopOn(r, u)' => q = r
                        /\ \A j \in Slot : ~(LoopOn(q, u)' /\ HandlerOn(r, j, u)')
                        /\ \A i, j \in Slot : HandlerOn(q, i, u)' /\ HandlerOn(r, j, u)' => q = r /\ i = j
    BY Zenon DEF OneWorker
  <2>4. CASE u = t
    BY <1>4, <1>5, <2>1, <2>4, ZenonT(30) DEF WorkedOn
  <2>5. CASE u # t
    <3>1. ~LoopOn(p, u)'
      BY <1>5, <2>5, Zenon
    <3>2. /\ LoopOn(q, u) /\ LoopOn(r, u) => q = r
          /\ \A j \in Slot : ~(LoopOn(q, u) /\ HandlerOn(r, j, u))
          /\ \A i, j \in Slot : HandlerOn(q, i, u) /\ HandlerOn(r, j, u) => q = r /\ i = j
      BY <2>2, Zenon DEF OneWorker
    <3>3. /\ LoopOn(q, u)' => LoopOn(q, u)
          /\ LoopOn(r, u)' => LoopOn(r, u)
          /\ \A i \in Slot : HandlerOn(q, i, u)' => HandlerOn(q, i, u)
          /\ \A i \in Slot : HandlerOn(r, i, u)' => HandlerOn(r, i, u)
      BY <2>1, <3>1, Zenon
    <3>. QED
      BY <3>2, <3>3, Zenon
  <2>. QED
    BY <2>4, <2>5, Zenon
<1>7. ASSUME NEW u \in Task PROVE LeaseFence(u)'
  <2>1. CASE u = t
    <3>1. \A q \in Proc : LoopOn(q, t)' => Leased(t, loop[q].item)'
      BY <1>0, <1>1, <1>2, <1>3, <1>4, <1>5, ZenonT(30) DEF LoopOn, Leased, LeaseFence, HasItem, WorkedOn
    <3>2. \A q \in Proc : \A i \in Slot : ~HandlerOn(q, i, t)'
      BY <1>0, <1>4, ZenonT(30) DEF WorkedOn, HandlerOn
    <3>. QED
      BY <1>0, <1>3, <2>1, <3>1, <3>2, ZenonT(30) DEF LeaseFence, HasItem
  <2>2. CASE u # t
    <3>1. LeaseFence(u)
      BY Zenon DEF Exclusive
    <3>2. /\ HasItem(u)' <=> HasItem(u)
          /\ \A item : Leased(u, item)' <=> Leased(u, item)
          /\ lastItem'[u] = lastItem[u] /\ creator'[u] = creator[u]
      BY <1>0, <1>3, <2>2, ZenonT(30) DEF Leased, HasItem
    <3>3. \A q \in Proc : LoopOn(q, u)' => LoopOn(q, u) /\ loop'[q].item = loop[q].item
      BY <1>5, <2>2, ZenonT(30) DEF LoopOn
    <3>4. \A q \in Proc : \A i \in Slot :
            HandlerOn(q, i, u)' => HandlerOn(q, i, u) /\ handler'[q][i].item = handler[q][i].item
      BY <1>0, ZenonT(30) DEF HandlerOn
    <3>. QED
      BY <3>1, <3>2, <3>3, <3>4, ZenonT(30) DEF LeaseFence
  <2>. QED
    BY <2>1, <2>2, ZenonT(30)
<1>. QED
  BY <1>0, <1>6, <1>7, ZenonT(30) DEF Exclusive

\* The loop hands its item over to a goroutine.
LEMMA SetTaskActiveExclusive ==
  ASSUME Fenced, Exclusive, NEW p \in Proc, SetTaskActive(p), UNCHANGED clientVars
  PROVE  Exclusive'
<1>. DEFINE t == loop[p].task
<1>0. /\ loop \in [Proc -> Loop] /\ handler \in [Proc -> [Slot -> Handler]] /\ t \in Task
      /\ LoopOn(p, t) /\ LeaseFence(t) /\ UNCHANGED queueVars /\ UNCHANGED <<creator, client>>
      /\ loop' = [loop EXCEPT ![p] = Waiting] /\ Waiting.pc = "limiter"
  BY Zenon DEF Fenced, TypeOK, ProcessorTypeOK, SetTaskActive, LoopFence, LoopOn, Exclusive, EndMessage,
     clientVars, Waiting
<1>1. CASE handler' = handler
  <2>1. ThreadsKeep
    BY <1>0, <1>1, SMTT(30) DEF ThreadsKeep, LoopKeeps, HandlerKeeps
  <2>. QED
    BY <1>0, <2>1, SameItems, KeptExclusive, Zenon DEF CallersKeep, Exclusive
<1>2. CASE handler' # handler
  <2>1. PICK i, r : i \in Slot /\ handler' = [handler EXCEPT ![p][i] =
                             [pc |-> "run", task |-> t, item |-> loop[p].item, rec |-> r]]
    BY <1>2, Zenon DEF SetTaskActive
  <2>2. /\ handler'[p][i].pc = "run" /\ handler'[p][i].task = t
        /\ handler'[p][i].item = loop[p].item
        /\ \A q \in Proc : \A j \in Slot : <<q, j>> # <<p, i>> => handler'[q][j] = handler[q][j]
        /\ loop'[p].pc = "limiter" /\ \A q \in Proc : q # p => loop'[q] = loop[q]
    BY <1>0, <2>1, ZenonT(30)
  <2>3. /\ \A u \in Task : \A q \in Proc : LoopOn(q, u)' => LoopOn(q, u) /\ q # p
                             /\ loop'[q].item = loop[q].item
        /\ \A u \in Task : \A q \in Proc : \A j \in Slot : HandlerOn(q, j, u)' =>
             \/ HandlerOn(q, j, u) /\ handler'[q][j].item = handler[q][j].item
             \/ q = p /\ j = i /\ u = t
    BY <2>2, ZenonT(30) DEF LoopOn, HandlerOn
  <2>4. \A q \in Proc : \A j \in Slot : ~HandlerOn(q, j, t)
    BY <1>0, ZenonT(30) DEF Exclusive, OneWorker
  <2>5. \A q \in Proc : LoopOn(q, t) => q = p
    BY <1>0, ZenonT(30) DEF Exclusive, OneWorker
  <2>6. OneWorker'
    <3>. HIDE DEF t
    <3>1. OneWorker
      BY Zenon DEF Exclusive
    <3>2. SUFFICES ASSUME NEW u \in Task, NEW q \in Proc, NEW s \in Proc
                   PROVE  /\ LoopOn(q, u)' /\ LoopOn(s, u)' => q = s
                          /\ \A j \in Slot : ~(LoopOn(q, u)' /\ HandlerOn(s, j, u)')
                          /\ \A k, j \in Slot : HandlerOn(q, k, u)' /\ HandlerOn(s, j, u)' => q = s /\ k = j
      BY Zenon DEF OneWorker
    <3>3. /\ LoopOn(q, u) /\ LoopOn(s, u) => q = s
          /\ \A j \in Slot : ~(LoopOn(q, u) /\ HandlerOn(s, j, u))
          /\ \A k, j \in Slot : HandlerOn(q, k, u) /\ HandlerOn(s, j, u) => q = s /\ k = j
      BY <3>1, Zenon DEF OneWorker
    <3>4. /\ LoopOn(q, u)' => LoopOn(q, u) /\ q # p
          /\ LoopOn(s, u)' => LoopOn(s, u) /\ s # p
          /\ \A j \in Slot : HandlerOn(q, j, u)' => HandlerOn(q, j, u) \/ (q = p /\ j = i /\ u = t)
          /\ \A j \in Slot : HandlerOn(s, j, u)' => HandlerOn(s, j, u) \/ (s = p /\ j = i /\ u = t)
      <4>1. ASSUME NEW w \in Proc PROVE LoopOn(w, u)' => LoopOn(w, u) /\ w # p
        BY <2>3, Zenon
      <4>2. ASSUME NEW w \in Proc, NEW j \in Slot, HandlerOn(w, j, u)'
            PROVE  HandlerOn(w, j, u) \/ (w = p /\ j = i /\ u = t)
        BY <2>3, <4>2
      <4>. QED
        BY <4>1, <4>2, Zenon
    <3>5. u = t => /\ \A j \in Slot : ~HandlerOn(q, j, u) /\ ~HandlerOn(s, j, u)
                   /\ LoopOn(q, u) => q = p
      BY <2>4, <2>5, Zenon
    <3>6. ASSUME NEW j \in Slot, LoopOn(q, u)', HandlerOn(s, j, u)' PROVE FALSE
      BY <3>3, <3>4, <3>5, <3>6, Zenon
    <3>7. ASSUME NEW k \in Slot, NEW j \in Slot, HandlerOn(q, k, u)', HandlerOn(s, j, u)'
          PROVE  q = s /\ k = j
      BY <3>3, <3>4, <3>5, <3>7, Zenon
    <3>. QED
      BY <3>3, <3>4, <3>6, <3>7, Zenon
  <2>7. ASSUME NEW u \in Task PROVE LeaseFence(u)'
    <3>1. \A item : Leased(u, item) => Leased(u, item)'
      BY <1>0, ZenonT(30) DEF Leased, HasItem, queueVars
    <3>2. LeaseFence(u)
      BY Zenon DEF Exclusive
    <3>3. \A q \in Proc : LoopOn(q, u)' => Leased(u, loop[q].item)'
      BY <2>3, <3>1, <3>2, ZenonT(30) DEF LeaseFence
    <3>4. \A q \in Proc : \A j \in Slot : HandlerOn(q, j, u)' => Leased(u, handler[q][j].item)'
      BY <1>0, <2>2, <2>3, <3>1, <3>2, ZenonT(30) DEF LeaseFence
    <3>. QED
      BY <1>0, <3>2, <3>3, <3>4, ZenonT(30) DEF LeaseFence, HasItem, queueVars
  <2>. QED
    BY <1>0, <2>6, <2>7, ZenonT(30) DEF Exclusive
<1>. QED
  BY <1>1, <1>2, ZenonT(30)

\* The other steps of the loop.
LEMMA LoopNextExclusive ==
  ASSUME Fenced, Exclusive, NEW p \in Proc, LoopNext(p), UNCHANGED clientVars
  PROVE  Exclusive'
<1>0. /\ loop \in [Proc -> Loop] /\ limiter \in [Proc -> 0..Concurrency] /\ QueueTypeOK
      /\ UNCHANGED <<creator, client>> /\ LoopFence(p)
  BY DEF Fenced, TypeOK, ProcessorTypeOK, clientVars
<1>1. CASE \E t \in Task : PollItem(p, t)
  BY <1>1, PollItemExclusive
<1>2. CASE SetTaskActive(p)
  BY <1>2, SetTaskActiveExclusive
<1>3. CASE ~(\E t \in Task : PollItem(p, t)) /\ ~SetTaskActive(p)
  <2>1. LoopKeeps(p)
    BY <1>3, LoopMoves
  <2>2. handler' = handler /\ \A q \in Proc : q # p => loop'[q] = loop[q]
    BY <1>0, <1>3, Zenon DEF LoopNext, TakeToken, LoadTask, LoadDependency, TerminateFailed, NakBlocked,
       RemoveUseless, SaveTask, FindDiscarded, DiscardTask, EndMessage, Goto
  <2>3. ThreadsKeep
    BY <2>1, <2>2 DEF ThreadsKeep, LoopKeeps, HandlerKeeps
  <2>4. ItemsKeep
    <3>1. CASE UNCHANGED queueVars
      BY <3>1, SameItems
    <3>2. CASE TerminateFailed(p) \/ RemoveUseless(p)
      <4>1. loop[p].task \in Task /\ RemoveItem(loop[p].task, loop[p].item)
        BY <1>0, <3>2 DEF TerminateFailed, RemoveUseless, LoopFence
      <4>. QED
        BY <1>0, <4>1, RemoveKeeps, ZenonT(30)
    <3>3. CASE NakBlocked(p)
      <4>1. PICK t \in Task : t = loop[p].task
        BY <1>0, <3>3, ZenonT(30) DEF NakBlocked, LoopFence
      <4>2. /\ ReleaseItem(t, loop[p].item) /\ LoopOn(p, t) /\ loop'[p].pc = "limiter"
        BY <1>0, <3>3, <4>1 DEF NakBlocked, LoopOn, EndMessage, Waiting
      <4>3. ~WorkedOn(t)'
        <5>1. \A q \in Proc : ~LoopOn(q, t)'
          BY <2>2, <4>2, ZenonT(30) DEF LoopOn, Exclusive, OneWorker
        <5>2. \A q \in Proc : \A i \in Slot : ~HandlerOn(q, i, t)'
          <6>1. \A q \in Proc : \A i \in Slot : ~HandlerOn(q, i, t)
            BY <4>2, ZenonT(30) DEF Exclusive, OneWorker
          <6>. QED
            BY <2>2, <6>1, ZenonT(30) DEF HandlerOn
        <5>. QED
          BY <5>1, <5>2, ZenonT(30) DEF WorkedOn
      <4>. QED
        BY <1>0, <4>2, <4>3, ReleaseKeeps, ZenonT(30)
    <3>. QED
      BY <1>3, <3>1, <3>2, <3>3, ZenonT(30) DEF LoopNext, TakeToken, LoadTask, LoadDependency,
         SaveTask, FindDiscarded, DiscardTask
  <2>. QED
    BY <1>0, <2>3, <2>4, KeptExclusive DEF CallersKeep, Exclusive
<1>. QED
  BY <1>1, <1>2, <1>3

LEMMA HandlerNextExclusive ==
  ASSUME Fenced, Exclusive, NEW p \in Proc, NEW i \in Slot, HandlerNext(p, i), UNCHANGED clientVars
  PROVE  Exclusive'
<1>0. /\ handler \in [Proc -> [Slot -> Handler]] /\ QueueTypeOK
      /\ UNCHANGED <<creator, client>> /\ HandlerFence(p, i)
  BY DEF Fenced, TypeOK, ProcessorTypeOK, clientVars
<1>1. /\ HandlerKeeps(p, i) /\ loop' = loop
      /\ \A q \in Proc : \A j \in Slot : <<q, j>> # <<p, i>> => handler'[q][j] = handler[q][j]
  BY HandlerMoves, Zenon
<1>2. ThreadsKeep
  BY <1>1, ZenonT(30) DEF ThreadsKeep, LoopKeeps, HandlerKeeps
<1>3. ItemsKeep
  <2>1. CASE UNCHANGED queueVars
    BY <2>1, SameItems
  <2>2. CASE FinishItem(p, i)
    <3>1. PICK t \in Task : t = handler[p][i].task
      BY <1>0, <2>2, ZenonT(30) DEF FinishItem, HandlerFence
    <3>2. HandlerOn(p, i, t) /\ handler'[p][i].pc = "free"
      BY <1>0, <2>2, <3>1 DEF FinishItem, HandlerOn, Free
    <3>3. ~WorkedOn(t)'
      <4>1. \A q \in Proc : ~LoopOn(q, t)'
        BY <1>1, <3>2, ZenonT(30) DEF LoopOn, Exclusive, OneWorker
      <4>2. \A q \in Proc : \A j \in Slot : ~HandlerOn(q, j, t)'
        <5>1. ASSUME NEW q \in Proc, NEW j \in Slot, HandlerOn(q, j, t) PROVE q = p /\ j = i
          BY <3>2, <5>1, ZenonT(30) DEF Exclusive, OneWorker
        <5>2. ~HandlerOn(p, i, t)'
          BY <3>2, Zenon DEF HandlerOn
        <5>. QED
          BY <1>1, <5>1, <5>2, ZenonT(30) DEF HandlerOn
      <4>. QED
        BY <4>1, <4>2, ZenonT(30) DEF WorkedOn
    <3>4. RemoveItem(t, handler[p][i].item) \/ ReleaseItem(t, handler[p][i].item)
      BY <2>2, <3>1, Zenon DEF FinishItem
    <3>. QED
      BY <1>0, <3>3, <3>4, RemoveKeeps, ReleaseKeeps, ZenonT(30)
  <2>. QED
    BY <2>1, <2>2, Zenon DEF HandlerNext, HandlerReturns, SaveResult, FindResult, DiscardResult
<1>. QED
  BY <1>0, <1>2, <1>3, KeptExclusive, ZenonT(30) DEF CallersKeep, Exclusive

\* The creator of a task publishes its item once, before any worker has it.
LEMMA CreatorNextExclusive ==
  ASSUME Undisturbed, Fenced, Exclusive, NEW t \in Task, CreatorNext(t), UNCHANGED procVars
  PROVE  Exclusive'
<1>0. /\ creator \in [Task -> Creator] /\ QueueTypeOK /\ creator[t].calls \in Nat
      /\ UNCHANGED <<loop, handler>> /\ LeaseFence(t) /\ MaxEnqueues \in Nat /\ MaxEnqueues <= 1
      /\ lastItem[t] \in Nat
  BY ClientAssumption, ZenonT(30) DEF Fenced, TypeOK, ClientTypeOK, Creator, procVars, Exclusive, Undisturbed,
     QueueTypeOK
<1>1. /\ client' = client
      /\ \A u \in Task : u # t => creator'[u] = creator[u] /\ items'[u] = items[u]
                                  /\ lastItem'[u] = lastItem[u]
  <2>1. CASE PublishEnqueued(t)
    BY <1>0, <2>1 DEF PublishEnqueued, PublishItem, StoreItem, QueueTypeOK, queueVars
  <2>2. CASE EnqueueTask(t) \/ SaveEnqueued(t) \/ CreatorCrash(t)
    BY <1>0, <2>2, ZenonT(30) DEF EnqueueTask, SaveEnqueued, CreatorCrash, queueVars
  <2>. QED
    BY <2>1, <2>2, ZenonT(30) DEF CreatorNext
<1>2. ASSUME UNCHANGED <<items, lastItem>>, NEW pc, NEW n, creator'[t].pc = pc,
             creator'[t].calls = n,
             pc \in {"save", "publish"} \/ n = 0 => lastItem[t] = 0,
             pc # "idle" => n > 0
      PROVE  LeaseFence(t)'
  BY <1>0, <1>2, ZenonT(30) DEF LeaseFence, Leased, HasItem, LoopOn, HandlerOn
<1>3. LeaseFence(t)'
  <2>1. CASE EnqueueTask(t)
    <3>1. creator'[t].pc = "save" /\ creator'[t].calls = creator[t].calls + 1
          /\ creator[t].calls = 0 /\ UNCHANGED <<items, lastItem>>
      BY <1>0, <2>1 DEF EnqueueTask, Creator, queueVars
    <3>. QED
      <4>1. lastItem[t] = 0
        BY <1>0, <3>1, Zenon DEF LeaseFence
      <4>2. creator'[t].calls > 0
        BY <3>1
      <4>. QED
        BY <1>2, <3>1, <4>1, <4>2, Zenon
  <2>2. CASE SaveEnqueued(t)
    <3>1. PICK ok \in BOOLEAN : creator' = [creator EXCEPT
            ![t].pc = IF ok /\ creator[t].pc = "save" THEN "publish" ELSE "idle",
            ![t].rec.seq = IF ok THEN tasks'[t].seq ELSE @]
      BY <2>2, Zenon DEF SaveEnqueued
    <3>2. creator'[t].pc = (IF ok /\ creator[t].pc = "save" THEN "publish" ELSE "idle")
          /\ creator'[t].calls = creator[t].calls
      BY <1>0, <3>1 DEF Creator
    <3>3. creator[t].calls > 0 /\ UNCHANGED <<items, lastItem>>
      BY <1>0, <2>2, ZenonT(30) DEF SaveEnqueued, LeaseFence, queueVars
    <3>. QED
      BY <1>0, <1>2, <3>2, <3>3, Zenon DEF LeaseFence
  <2>3. CASE PublishEnqueued(t)
    <3>1. lastItem[t] = 0 /\ ~HasItem(t) /\ creator[t].calls > 0
      BY <1>0, <2>3, SMTT(30) DEF PublishEnqueued, LeaseFence
    <3>2. ~WorkedOn(t)'
      BY <1>0, <3>1 DEF WorkedOn, LoopOn, HandlerOn, LeaseFence, Leased
    <3>3. HasItem(t)' => lastItem'[t] > 0
      BY <1>0, <2>3, <3>1, SMTT(30) DEF PublishEnqueued, PublishItem, StoreItem, HasItem, QueueTypeOK, queueVars
    <3>4. creator'[t].pc \in {"idle", "queueError"} /\ creator'[t].calls = creator[t].calls
      BY <1>0, <2>3 DEF PublishEnqueued, Creator
    <3>. QED
      <4>1. creator'[t].calls > 0 /\ creator'[t].calls # 0
        <5>. DEFINE n == creator[t].calls
        <5>1. n \in Nat /\ n > 0 /\ creator'[t].calls = n
          BY <1>0, <3>1, <3>4, Zenon
        <5>. HIDE DEF n
        <5>. QED
          BY <5>1
      <4>. QED
        BY <3>2, <3>3, <3>4, <4>1, ZenonT(30) DEF LeaseFence, WorkedOn
  <2>4. CASE CreatorCrash(t)
    <3>1. creator'[t].pc = "gone" /\ creator'[t].calls = creator[t].calls
          /\ creator[t].calls > 0 /\ UNCHANGED <<items, lastItem>>
      BY <1>0, <2>4, ZenonT(30) DEF CreatorCrash, Creator, LeaseFence, queueVars
    <3>. QED
      BY <1>0, <1>2, <3>1, ZenonT(30) DEF LeaseFence
  <2>. QED
    BY <2>1, <2>2, <2>3, <2>4, ZenonT(30) DEF CreatorNext
<1>4. ASSUME NEW u \in Task, u # t PROVE LeaseFence(u)'
  <2>1. LeaseFence(u)
    BY DEF Exclusive
  <2>2. /\ HasItem(u)' <=> HasItem(u)
        /\ \A p \in Proc : LoopOn(p, u)' <=> LoopOn(p, u)
        /\ \A p \in Proc : \A i \in Slot : HandlerOn(p, i, u)' <=> HandlerOn(p, i, u)
    BY <1>0, <1>1, <1>4, Zenon DEF HasItem, LoopOn, HandlerOn
  <2>. QED
    <3>1. creator'[u] = creator[u] /\ lastItem'[u] = lastItem[u]
      BY <1>1, <1>4, Zenon
    <3>2. \A item : Leased(u, item)' <=> Leased(u, item)
      BY <1>1, <1>4, <2>2, <3>1, Zenon DEF Leased
    <3>3. /\ \A p \in Proc : loop'[p].item = loop[p].item
          /\ \A p \in Proc : \A i \in Slot : handler'[p][i].item = handler[p][i].item
      BY <1>0, Zenon
    <3>. QED
      BY <2>1, <2>2, <3>1, <3>2, <3>3, ZenonT(30) DEF LeaseFence
<1>5. OneWorker'
  <2>1. /\ \A u \in Task : \A p \in Proc : LoopOn(p, u)' <=> LoopOn(p, u)
        /\ \A u \in Task : \A p \in Proc : \A i \in Slot : HandlerOn(p, i, u)' <=> HandlerOn(p, i, u)
    BY <1>0, Zenon DEF LoopOn, HandlerOn
  <2>2. OneWorker
    BY DEF Exclusive
  <2>. QED
    BY <2>1, <2>2, ZenonT(30) DEF OneWorker
<1>. QED
  BY <1>1, <1>3, <1>4, <1>5, ZenonT(30) DEF Exclusive

\* The steps of clients, of the server and of time.
LEMMA OtherExclusive ==
  ASSUME Undisturbed, Fenced, Exclusive,
         \/ \E p \in Proc : Crash(p) /\ UNCHANGED clientVars
         \/ \E t \in Task : PollReplyLost(t) /\ UNCHANGED clientVars
         \/ \E c \in Client : ClientNext(c) /\ UNCHANGED procVars
         \/ PurgeQueue /\ UNCHANGED procVars
         \/ \E t \in Task : LeaseTimeout(t) \/ RunTimeout(t) \/ Deadline(t) \/ ForgetMsgId(t)
         \/ UNCHANGED vars
  PROVE  Exclusive'
<1>0. /\ QueueTypeOK /\ loop \in [Proc -> Loop] /\ handler \in [Proc -> [Slot -> Handler]]
      /\ client \in [Client -> Caller]
      /\ \A c \in Client : client[c].pc \in {"idle", "delete"}
      /\ \A t \in Task : LeaseFence(t)
  BY DEF Fenced, TypeOK, ProcessorTypeOK, ClientTypeOK, Exclusive
<1>1. ASSUME NEW p \in Proc, Crash(p), UNCHANGED clientVars PROVE Exclusive'
  <2>1. ThreadsKeep
    BY <1>0, <1>1, ZenonT(30) DEF Crash, ThreadsKeep, LoopKeeps, HandlerKeeps, Waiting, Free
  <2>2. CallersKeep /\ UNCHANGED queueVars
    BY <1>0, <1>1, ZenonT(30) DEF Crash, CallersKeep, clientVars
  <2>. QED
    BY <2>1, <2>2, SameItems, KeptExclusive, ZenonT(30)
<1>2. ASSUME NEW t \in Task, PollReplyLost(t), UNCHANGED clientVars PROVE Exclusive'
  <2>1. ~WorkedOn(t)' /\ UNCHANGED <<loop, handler>>
    BY <1>0, <1>2, SMTT(30) DEF PollReplyLost, Deliver, Deliverable, WorkedOn, LoopOn, HandlerOn, LeaseFence,
       Leased, procVars
  <2>2. ItemsKeep
    BY <1>0, <1>2, <2>1, ZenonT(30) DEF PollReplyLost, Deliver, ItemsKeep, QueueTypeOK, Item
  <2>3. CallersKeep
    BY <1>0, <1>2 DEF CallersKeep, clientVars
  <2>. QED
    BY <2>1, <2>2, <2>3, SameThreads, KeptExclusive, ZenonT(30)
<1>3. ASSUME NEW c \in Client, ClientNext(c), UNCHANGED procVars PROVE Exclusive'
  <2>1. DeleteFound(c) \/ ClientCrash(c) \/ \E t \in Task : DeleteTaskByID(c, t)
    BY <1>0, <1>3, Zenon DEF ClientNext, RetryTaskByID, Call, SaveRetried, PublishRetried, Undisturbed
  <2>2. UNCHANGED queueVars /\ creator' = creator
    BY <2>1, ZenonT(30) DEF DeleteFound, ClientCrash, DeleteTaskByID
  <2>3. \A d \in Client : client'[d].pc \in {"idle", "delete"}
    <3>1. CASE DeleteFound(c)
      BY <1>0, <3>1, ZenonT(30) DEF DeleteFound, NoCall
    <3>2. CASE ClientCrash(c)
      BY <1>0, <3>2, ZenonT(30) DEF ClientCrash, NoCall
    <3>3. CASE \E t \in Task : DeleteTaskByID(c, t)
      BY <1>0, <3>3 DEF DeleteTaskByID
    <3>. QED
      BY <2>1, <3>1, <3>2, <3>3, ZenonT(30)
  <2>. QED
    BY <1>3, <2>2, <2>3, SameThreads, SameItems, KeptExclusive, ZenonT(30) DEF CallersKeep, procVars
<1>4. ASSUME PurgeQueue, UNCHANGED procVars PROVE Exclusive'
  <2>1. ItemsKeep /\ CallersKeep
    BY <1>0, <1>4, ZenonT(30) DEF PurgeQueue, Purge, NoItem, ItemsKeep, CallersKeep
  <2>. QED
    BY <1>4, <2>1, SameThreads, KeptExclusive, ZenonT(30) DEF procVars
<1>5. ASSUME NEW t \in Task, LeaseTimeout(t) PROVE Exclusive'
  <2>1. UNCHANGED <<loop, handler>> /\ CallersKeep /\ LeaseExpires(t)
    BY <1>0, <1>5, ZenonT(30) DEF LeaseTimeout, CallersKeep, procVars, clientVars
  <2>2. ~Held(t)
    BY <1>5 DEF LeaseTimeout, Undisturbed
  <2>3. HasItem(t) => ~WorkedOn(t)'
    BY <1>0, <2>1, <2>2, ZenonT(30) DEF WorkedOn, LoopOn, HandlerOn, LeaseFence, Leased, Held
  <2>4. ItemsKeep
    BY <1>0, <2>1, <2>3, SMTT(30) DEF LeaseExpires, ItemsKeep, HasItem, QueueTypeOK, Item
  <2>. QED
    BY <2>1, <2>4, SameThreads, KeptExclusive, ZenonT(30)
<1>6. ASSUME \/ UNCHANGED vars
             \/ \E t \in Task : RunTimeout(t) \/ Deadline(t) \/ ForgetMsgId(t)
      PROVE  Exclusive'
  <2>1. UNCHANGED <<loop, handler, creator, client, items, lastItem>>
    BY <1>6 DEF vars, RunTimeout, Deadline, ForgetMsgId, DuplicateWindowPasses, queueVars, procVars,
       clientVars
  <2>2. ItemsKeep /\ CallersKeep
    BY <1>0, <2>1, ZenonT(30) DEF ItemsKeep, CallersKeep
  <2>. QED
    BY <2>1, <2>2, SameThreads, KeptExclusive, ZenonT(30)
<1>. QED
  BY <1>1, <1>2, <1>3, <1>4, <1>5, <1>6, ZenonT(30)

LEMMA InitExclusive == Init => Exclusive
<1>. SUFFICES ASSUME Init PROVE Exclusive
  BY SMTT(30)
<1>1. /\ \A p \in Proc : loop[p].pc = "limiter"
      /\ \A p \in Proc : \A i \in Slot : handler[p][i].pc = "free"
      /\ \A c \in Client : client[c].pc = "idle"
      /\ \A t \in Task : items[t].seq = 0 /\ lastItem[t] = 0 /\ creator[t].pc = "idle"
  BY Zenon DEF Init, ProcessorInit, ClientInit, QueueInit, Waiting, Free, NoCall, NoItem
<1>. QED
  BY <1>1, ZenonT(30) DEF Exclusive, OneWorker, LeaseFence, HasItem, LoopOn, HandlerOn

LEMMA NextExclusive ==
  ASSUME Undisturbed, Fenced, Exclusive, [Next]_vars
  PROVE  Exclusive'
  BY LoopNextExclusive, HandlerNextExclusive, CreatorNextExclusive, OtherExclusive, SMTT(30) DEF Next

\* A task is in the hands of one thread at a time, from the delivery of its
\* item to the answer, for any number of workers: through crashes, lost
\* requests and replies, deletions, discards and purges of the queue.  It takes
\* a worker slower than its lease, or a second item, to break it.
THEOREM OneWorkerHolds ==
  ASSUME Undisturbed
  PROVE  Spec => []OneWorker
<1>1. Fenced /\ Exclusive /\ [Next]_vars => Exclusive'
  BY NextExclusive, ZenonT(30)
<1>2. Exclusive => OneWorker
  BY SMTT(30) DEF Exclusive
<1>. QED
  BY <1>1, <1>2, InitExclusive, FencedHolds, PTL DEF Spec

----------------------------------------------------------------------------
(***************************************************************************)
(* Who changes what: the threads behind a change of a record, of a loop,   *)
(* of a goroutine that ends and of an item.                                *)
(***************************************************************************)
\* What a step does to the items of the queue.
LEMMA QueueSteps ==
  ASSUME Fenced, [Next]_vars
  PROVE  \/ UNCHANGED <<items, lastItem>>
         \/ \E t \in Task : \/ Deliver(t) \/ LeaseExpires(t)
                            \/ \E seq \in Nat : RemoveItem(t, seq) \/ ReleaseItem(t, seq)
                            \/ /\ \E withId \in BOOLEAN : StoreItem(t, withId)
                               /\ PublishEnqueued(t) \/ \E c \in Client : PublishRetried(c)
         \/ Purge /\ PurgeQueue
<1>1. ASSUME NEW p \in Proc, LoopNext(p), ~UNCHANGED <<items, lastItem>>
      PROVE  \E t \in Task : \/ Deliver(t)
                            \/ \E seq \in Nat : RemoveItem(t, seq) \/ ReleaseItem(t, seq)
  <2>1. loop[p].item \in Nat /\ (loop[p].pc \notin {"limiter", "poll"} => loop[p].task \in Task)
    BY ZenonT(30) DEF Fenced, TypeOK, ProcessorTypeOK, Loop, LoopFence
  <2>. QED
    BY <1>1, <2>1, ZenonT(30) DEF LoopNext, TakeToken, PollItem, LoadTask, LoadDependency, TerminateFailed,
       NakBlocked, RemoveUseless, SaveTask, FindDiscarded, DiscardTask, SetTaskActive, queueVars
<1>2. ASSUME NEW p \in Proc, NEW i \in Slot, HandlerNext(p, i), ~UNCHANGED <<items, lastItem>>
      PROVE  \E t \in Task : \E seq \in Nat : RemoveItem(t, seq) \/ ReleaseItem(t, seq)
  <2>1. handler[p][i].item \in Nat /\ (handler[p][i].pc # "free" => handler[p][i].task \in Task)
    BY Zenon DEF Fenced, TypeOK, ProcessorTypeOK, Handler, HandlerFence
  <2>. QED
    BY <1>2, <2>1, Zenon DEF HandlerNext, HandlerReturns, SaveResult, FindResult, DiscardResult, FinishItem,
       queueVars
<1>3. ASSUME NEW t \in Task, NEW withId \in BOOLEAN, NEW ok \in BOOLEAN, PublishItem(t, withId, ok)
      PROVE  UNCHANGED <<items, lastItem>> \/ StoreItem(t, withId)
  BY <1>3 DEF PublishItem, queueVars
<1>4. ASSUME NEW t \in Task, CreatorNext(t), ~UNCHANGED <<items, lastItem>>
      PROVE  PublishEnqueued(t) /\ \E withId \in BOOLEAN : StoreItem(t, withId)
  BY <1>3, <1>4, Zenon DEF CreatorNext, EnqueueTask, SaveEnqueued, PublishEnqueued, CreatorCrash, queueVars
<1>5. ASSUME NEW c \in Client, ClientNext(c), ~UNCHANGED <<items, lastItem>>
      PROVE  PublishRetried(c) /\ \E t \in Task : \E withId \in BOOLEAN : StoreItem(t, withId)
  <2>1. client[c].pc # "idle" => client[c].task \in Task
    BY ZenonT(30) DEF Fenced, ClientFence
  <2>. QED
    BY <1>3, <1>5, <2>1, ZenonT(30) DEF ClientNext, RetryTaskByID, DeleteTaskByID, SaveRetried, PublishRetried,
       DeleteFound, ClientCrash, queueVars
<1>6. ASSUME \/ \E p \in Proc : Crash(p)
             \/ \E t \in Task : RunTimeout(t) \/ Deadline(t) \/ ForgetMsgId(t)
             \/ UNCHANGED vars
      PROVE  UNCHANGED <<items, lastItem>>
  BY <1>6, Zenon DEF Crash, RunTimeout, Deadline, ForgetMsgId, DuplicateWindowPasses, vars, queueVars
<1>7. ASSUME NEW t \in Task, PollReplyLost(t) \/ LeaseTimeout(t)
      PROVE  Deliver(t) \/ LeaseExpires(t)
  BY <1>7 DEF PollReplyLost, LeaseTimeout
<1>8. PurgeQueue => Purge
  BY DEF PurgeQueue
<1>. QED
  BY <1>1, <1>2, <1>4, <1>5, <1>6, <1>7, <1>8, ZenonT(30) DEF Next

\* A save by a thread that works on t stores the record it holds.
Writes(t, r) == Accept(t, r) /\ tasks'[t].state = r.state

LEMMA AcceptWrites ==
  ASSUME StoreTypeOK, NEW t \in Task, NEW r \in Record, Accept(t, r)
  PROVE  Writes(t, r) /\ \A u \in Task : u # t => tasks'[u] = tasks[u]
  BY DEF Writes, Accept, StoreTypeOK, Record

\* The writers of a record.
LEMMA Writers ==
  ASSUME Fenced, [Next]_vars, NEW t \in Task, tasks'[t] # tasks[t]
  PROVE  \/ \E p \in Proc : \/ SaveTask(p) /\ LoopOn(p, t) /\ tasks'[t].state \in {"expired", "unreachable"}
                            \/ SetTaskActive(p) /\ LoopOn(p, t) /\ tasks'[t].state = "active"
         \/ \E p \in Proc : \E i \in Slot :
              /\ SaveResult(p, i) /\ HandlerOn(p, i, t) /\ Accept(t, handler[p][i].rec)
              /\ tasks'[t].state = handler[p][i].rec.state
         \/ SaveEnqueued(t) /\ Accept(t, creator[t].rec) /\ tasks'[t].state = creator[t].rec.state
         \/ \E c \in Client : SaveRetried(c)
         \/ /\ tasks'[t].state = "unknown"
            /\ \/ \E p \in Proc : DiscardTask(p) \/ \E i \in Slot : DiscardResult(p, i)
               \/ \E c \in Client : DeleteFound(c)
<1>0. /\ StoreTypeOK /\ loop \in [Proc -> Loop] /\ handler \in [Proc -> [Slot -> Handler]]
      /\ \A p \in Proc : LoopFence(p) /\ loop[p].rec \in Record
      /\ \A p \in Proc : \A i \in Slot : HandlerFence(p, i) /\ handler[p][i].rec \in Record
      /\ \A u \in Task : creator[u].rec \in Record
  BY Zenon DEF Fenced, TypeOK, ProcessorTypeOK, ClientTypeOK, Loop, Handler, Creator
<1>1. ASSUME NEW u \in Task, NEW r \in Record, NEW ok \in BOOLEAN, SaveTaskState(u, r, ok)
      PROVE  u = t /\ Accept(t, r) /\ tasks'[t].state = r.state
  <2>1. Accept(u, r)
    BY <1>1, ZenonT(30) DEF SaveTaskState, storeVars
  <2>. QED
    BY <1>0, <2>1, AcceptWrites, Zenon DEF Writes
<1>2. ASSUME NEW u, NEW n, DeleteMessage(u, n) PROVE tasks'[t].state = "unknown"
  <2>1. tasks' = [tasks EXCEPT ![u] = NoRecord]
    BY <1>2, Zenon DEF DeleteMessage, storeVars
  <2>2. tasks'[t] = NoRecord
    BY <1>0, <2>1, Zenon DEF StoreTypeOK
  <2>. QED
    BY <2>2 DEF NoRecord
<1>3. ASSUME NEW p \in Proc, LoopNext(p)
      PROVE  \/ SaveTask(p) /\ LoopOn(p, t) /\ tasks'[t].state \in {"expired", "unreachable"}
             \/ SetTaskActive(p) /\ LoopOn(p, t) /\ tasks'[t].state = "active"
             \/ DiscardTask(p) /\ tasks'[t].state = "unknown"
  <2>1. CASE SaveTask(p)
    <3>1. loop[p].task \in Task /\ loop[p].rec.state \in {"expired", "unreachable"}
      BY <1>0, <2>1, Zenon DEF SaveTask, LoopFence
    <3>2. PICK ok \in BOOLEAN : SaveTaskState(loop[p].task, loop[p].rec, ok)
      BY <2>1, Zenon DEF SaveTask
    <3>3. loop[p].task = t /\ tasks'[t].state = loop[p].rec.state
      BY <1>0, <1>1, <3>1, <3>2, Zenon
    <3>. QED
      BY <2>1, <3>1, <3>3, Zenon DEF LoopOn, SaveTask
  <2>2. CASE SetTaskActive(p)
    <3>. DEFINE r == [loop[p].rec EXCEPT !.state = "active"]
    <3>1. loop[p].task \in Task
      BY <1>0, <2>2, ZenonT(30) DEF SetTaskActive, LoopFence
    <3>2. r \in Record /\ r.state = "active"
      BY <1>0, Zenon DEF Record, TaskState
    <3>3. PICK ok \in BOOLEAN : SaveTaskState(loop[p].task, r, ok)
      BY <2>2, Zenon DEF SetTaskActive
    <3>. HIDE DEF r
    <3>4. loop[p].task = t /\ tasks'[t].state = "active"
      BY <1>1, <3>1, <3>2, <3>3, ZenonT(30)
    <3>. QED
      BY <2>2, <3>4, ZenonT(30) DEF LoopOn, SetTaskActive
  <2>3. CASE DiscardTask(p)
    BY <1>2, <2>3, Zenon DEF DiscardTask
  <2>. QED
    BY <1>3, <2>1, <2>2, <2>3, ZenonT(30) DEF LoopNext, TakeToken, PollItem, LoadTask, LoadDependency,
       TerminateFailed, NakBlocked, RemoveUseless, FindDiscarded, storeVars
<1>4. ASSUME NEW p \in Proc, NEW i \in Slot, HandlerNext(p, i)
      PROVE  \/ /\ SaveResult(p, i) /\ HandlerOn(p, i, t) /\ Accept(t, handler[p][i].rec)
                /\ tasks'[t].state = handler[p][i].rec.state
             \/ DiscardResult(p, i) /\ tasks'[t].state = "unknown"
  <2>1. CASE SaveResult(p, i)
    <3>1. handler[p][i].task \in Task
      BY <1>0, <2>1, ZenonT(30) DEF SaveResult, HandlerFence
    <3>2. PICK ok \in BOOLEAN : SaveTaskState(handler[p][i].task, handler[p][i].rec, ok)
      BY <2>1 DEF SaveResult
    <3>3. handler[p][i].task = t /\ Accept(t, handler[p][i].rec) /\ tasks'[t].state = handler[p][i].rec.state
      BY <1>0, <1>1, <3>1, <3>2, ZenonT(30)
    <3>. QED
      BY <2>1, <3>3, ZenonT(30) DEF HandlerOn, SaveResult
  <2>2. CASE DiscardResult(p, i)
    BY <1>2, <2>2 DEF DiscardResult
  <2>. QED
    BY <1>4, <2>1, <2>2, ZenonT(30) DEF HandlerNext, HandlerReturns, FindResult, FinishItem, storeVars
<1>5. ASSUME NEW u \in Task, CreatorNext(u)
      PROVE  SaveEnqueued(t) /\ Accept(t, creator[t].rec) /\ tasks'[t].state = creator[t].rec.state
  <2>1. SaveEnqueued(u)
    BY <1>5 DEF CreatorNext, EnqueueTask, PublishEnqueued, CreatorCrash, storeVars
  <2>2. PICK ok \in BOOLEAN : SaveTaskState(u, creator[u].rec, ok)
    BY <2>1 DEF SaveEnqueued
  <2>. QED
    BY <1>0, <1>1, <2>1, <2>2, ZenonT(30)
<1>6. ASSUME NEW c \in Client, ClientNext(c)
      PROVE  SaveRetried(c) \/ (DeleteFound(c) /\ tasks'[t].state = "unknown")
  BY <1>2, <1>6 DEF ClientNext, RetryTaskByID, DeleteTaskByID, PublishRetried, DeleteFound,
     ClientCrash, storeVars
<1>7. ASSUME \/ \E p \in Proc : Crash(p)
             \/ PurgeQueue
             \/ \E u \in Task : PollReplyLost(u) \/ LeaseTimeout(u) \/ RunTimeout(u)
                                \/ Deadline(u) \/ ForgetMsgId(u)
             \/ UNCHANGED vars
      PROVE  FALSE
  BY <1>7, Zenon DEF Crash, PurgeQueue, PollReplyLost, LeaseTimeout, RunTimeout, Deadline, ForgetMsgId,
     MaxRunTimePasses, DeadlinePasses, vars, storeVars
<1>. QED
  BY <1>3, <1>4, <1>5, <1>6, <1>7, ZenonT(30) DEF Next

\* A loop takes up t only with a poll.
LEMMA LoopTakesUp ==
  ASSUME Fenced, [Next]_vars, NEW q \in Proc, NEW t \in Task, LoopOn(q, t)', ~LoopOn(q, t)
  PROVE  PollItem(q, t)
<1>0. loop \in [Proc -> Loop]
  BY DEF Fenced, TypeOK, ProcessorTypeOK
<1>1. ASSUME NEW p \in Proc, LoopNext(p) PROVE PollItem(q, t)
  <2>1. \A r \in Proc : r # p => loop'[r] = loop[r]
    BY <1>0, <1>1, Zenon DEF LoopNext, TakeToken, PollItem, LoadTask, LoadDependency, TerminateFailed,
       NakBlocked, RemoveUseless, SaveTask, FindDiscarded, DiscardTask, SetTaskActive, EndMessage, Goto
  <2>2. p = q
    BY <2>1, Zenon DEF LoopOn
  <2>3. CASE \A u \in Task : ~PollItem(p, u)
    BY <1>1, <2>2, <2>3, LoopMoves, ZenonT(30) DEF LoopKeeps, LoopOn
  <2>4. ASSUME NEW u \in Task, PollItem(p, u) PROVE u = t
    <3>. DEFINE l == [loop[p] EXCEPT !.pc = "load", !.task = u, !.item = items'[u].seq]
    <3>1. loop' = [loop EXCEPT ![p] = l]
      BY <2>4, Zenon DEF PollItem
    <3>2. l.task = u
      BY <1>0, SMTT(30) DEF Loop
    <3>. HIDE DEF l
    <3>. QED
      BY <1>0, <2>2, <3>1, <3>2, ZenonT(30) DEF LoopOn
  <2>. QED
    BY <2>2, <2>3, <2>4, ZenonT(30)
<1>2. ASSUME NEW p \in Proc, Crash(p) PROVE loop'[q] \in {loop[q], Waiting}
  BY <1>0, <1>2, ZenonT(30) DEF Crash
<1>3. CASE loop'[q] \in {loop[q], Waiting}
  BY <1>3, SMTT(30) DEF LoopOn, Waiting
<1>4. ASSUME NEW p \in Proc, NEW i \in Slot, HandlerNext(p, i) PROVE loop' = loop
  BY <1>4, HandlerMoves, ZenonT(30)
<1>5. (\E p \in Proc : LoopNext(p) \/ Crash(p)) \/ loop' = loop
  BY <1>4, Zenon DEF Next, PollReplyLost, LeaseTimeout, RunTimeout, Deadline, ForgetMsgId, vars, procVars
<1>. QED
  BY <1>1, <1>2, <1>3, <1>5, ZenonT(30)

\* The sequences of the items of a task only grow.
LEMMA ItemsGrow ==
  ASSUME Fenced, [Next]_vars, NEW t \in Task
  PROVE  lastItem'[t] \in Nat /\ lastItem'[t] >= lastItem[t]
<1>0. lastItem \in [Task -> Nat]
  BY ZenonT(30) DEF Fenced, TypeOK, QueueTypeOK
<1>1. ASSUME NEW u \in Task, NEW withId, StoreItem(u, withId)
      PROVE  lastItem'[t] \in Nat /\ lastItem'[t] >= lastItem[t]
  BY <1>0, <1>1 DEF StoreItem
<1>2. CASE lastItem' = lastItem
  BY <1>0, <1>2, SMTT(30)
<1>. QED
  BY <1>1, <1>2, QueueSteps, ZenonT(30) DEF Deliver, LeaseExpires, RemoveItem, ReleaseItem, Purge, queueVars

\* Where a goroutine goes in a step, and with which sequence.
LEMMA HandlerPoints ==
  ASSUME Fenced, NEW p \in Proc, NEW i \in Slot, HandlerNext(p, i)
  PROVE  LET h == handler[p][i]
             g == handler'[p][i]
         IN \/ HandlerReturns(p, i) /\ g.pc = "save" /\ g.rec.seq = h.rec.seq
            \/ SaveResult(p, i) /\ g.pc = "finish" /\ g.rec = h.rec
            \/ DiscardResult(p, i) /\ g.pc = "finish" /\ g.rec = h.rec
            \/ FindResult(p, i) /\ g.pc = "discard" /\ g.rec.seq = tasks[h.task].seq
            \/ FindResult(p, i) /\ g.pc = "finish" /\ (~Exists(h.task) \/ "lostRequest" \in Faults)
            \/ FinishItem(p, i) /\ g.pc = "free"
<1>0. handler \in [Proc -> [Slot -> Handler]] /\ handler[p][i] \in Handler
      /\ handler[p][i].rec \in Record
  BY DEF Fenced, TypeOK, ProcessorTypeOK, Handler
<1>1. CASE HandlerReturns(p, i)
  <2>1. PICK s : handler' = [handler EXCEPT ![p][i].pc = "save", ![p][i].rec.state = s]
    BY <1>1, Zenon DEF HandlerReturns
  <2>. DEFINE rec == [handler[p][i].rec EXCEPT !.state = s]
              h == [handler[p][i] EXCEPT !.pc = "save", !.rec = rec]
  <2>2. handler' = [handler EXCEPT ![p][i] = h]
    BY <1>0, <2>1, ZenonT(40) DEF Handler
  <2>3. rec.seq = handler[p][i].rec.seq
    BY <1>0 DEF Record
  <2>. HIDE DEF rec
  <2>4. h.pc = "save" /\ h.rec = rec
    BY <1>0, ZenonT(30) DEF Handler
  <2>. HIDE DEF h
  <2>5. handler'[p][i] = h
    BY <1>0, <2>2
  <2>. QED
    BY <1>1, <2>3, <2>4, <2>5, Zenon
<1>2. CASE SaveResult(p, i) \/ DiscardResult(p, i)
  <2>1. handler' = [handler EXCEPT ![p][i].pc = "finish"]
    BY <1>2 DEF SaveResult, DiscardResult
  <2>2. handler'[p][i].pc = "finish" /\ handler'[p][i].rec = handler[p][i].rec
    BY <1>0, <2>1, ZenonT(30) DEF Handler
  <2>. QED
    BY <1>2, <2>2, Zenon
<1>3. CASE FindResult(p, i)
  <2>1. CASE handler' = [handler EXCEPT ![p][i].pc = "finish"]
             /\ (~Exists(handler[p][i].task) \/ "lostRequest" \in Faults)
    <3>1. handler'[p][i].pc = "finish"
      BY <1>0, <2>1 DEF Handler
    <3>. QED
      BY <1>3, <2>1, <3>1, ZenonT(30)
  <2>2. CASE handler' = [handler EXCEPT ![p][i].pc = "discard",
                                        ![p][i].rec.seq = tasks[handler[p][i].task].seq]
    <3>. DEFINE seq == tasks[handler[p][i].task].seq
                rec == [handler[p][i].rec EXCEPT !.seq = seq]
                h == [handler[p][i] EXCEPT !.pc = "discard", !.rec = rec]
    <3>. HIDE DEF seq
    <3>1. handler' = [handler EXCEPT ![p][i].pc = "discard", ![p][i].rec.seq = seq]
      BY <2>2 DEF seq
    <3>2. handler' = [handler EXCEPT ![p][i] = h]
      BY <1>0, <3>1, ZenonT(40) DEF Handler
    <3>3. rec.seq = seq
      BY <1>0 DEF Record
    <3>. HIDE DEF rec
    <3>4. h.pc = "discard" /\ h.rec = rec
      BY <1>0, ZenonT(30) DEF Handler
    <3>. HIDE DEF h
    <3>5. handler'[p][i] = h
      BY <1>0, <3>2
    <3>. QED
      BY <1>3, <3>3, <3>4, <3>5, ZenonT(30) DEF seq
  <2>. QED
    BY <1>3, <2>1, <2>2, Zenon DEF FindResult
<1>4. CASE FinishItem(p, i)
  <2>1. handler'[p][i].pc = "free"
    BY <1>0, <1>4, ZenonT(30) DEF FinishItem, Free
  <2>. QED
    BY <1>4, <2>1, Zenon
<1>. QED
  BY <1>1, <1>2, <1>3, <1>4, ZenonT(30) DEF HandlerNext

\* A loop moves by its own steps or is started anew.
LEMMA LoopSteps ==
  ASSUME Fenced, [Next]_vars, NEW p \in Proc
  PROVE  loop'[p] = loop[p] \/ loop'[p] = Waiting \/ LoopNext(p)
<1>0. loop \in [Proc -> Loop]
  BY DEF Fenced, TypeOK, ProcessorTypeOK
<1>1. ASSUME NEW q \in Proc, LoopNext(q), q # p PROVE loop'[p] = loop[p]
  BY <1>0, <1>1, ZenonT(30) DEF LoopNext, TakeToken, PollItem, LoadTask, LoadDependency, TerminateFailed,
       NakBlocked, RemoveUseless, SaveTask, FindDiscarded, DiscardTask, SetTaskActive, EndMessage, Goto
<1>2. ASSUME NEW q \in Proc, NEW i \in Slot, HandlerNext(q, i) PROVE loop' = loop
  BY <1>2, HandlerMoves, ZenonT(30)
<1>3. ASSUME NEW q \in Proc, Crash(q) PROVE loop'[p] = loop[p] \/ loop'[p] = Waiting
  BY <1>0, <1>3 DEF Crash
<1>4. ASSUME \/ UNCHANGED procVars \/ UNCHANGED vars
             \/ \E t \in Task : PollReplyLost(t) \/ LeaseTimeout(t) \/ RunTimeout(t) \/ Deadline(t)
                                \/ ForgetMsgId(t)
      PROVE  loop' = loop
  BY <1>4, Zenon DEF PollReplyLost, LeaseTimeout, RunTimeout, Deadline, ForgetMsgId, procVars, vars
<1>. QED
  BY <1>1, <1>2, <1>3, <1>4, ZenonT(30) DEF Next

\* A goroutine that has a task to run or to save kept it or was just started
\* by setTaskActive.
LEMMA HandlerTakesUp ==
  ASSUME Fenced, [Next]_vars, NEW p \in Proc, NEW i \in Slot, handler'[p][i].pc \in {"run", "save"}
  PROVE  \/ /\ handler[p][i].pc \in {"run", "save"} /\ handler'[p][i].task = handler[p][i].task
            /\ handler'[p][i].rec.seq = handler[p][i].rec.seq
         \/ /\ SetTaskActive(p) /\ handler[p][i].pc = "free"
            /\ handler'[p][i].pc = "run" /\ handler'[p][i].task = loop[p].task
<1>0. handler \in [Proc -> [Slot -> Handler]]
  BY Zenon DEF Fenced, TypeOK, ProcessorTypeOK
<1>1. CASE handler'[p][i] = handler[p][i]
  BY <1>1, Zenon
<1>2. ASSUME NEW q \in Proc, LoopNext(q), handler'[p][i] # handler[p][i]
      PROVE  /\ SetTaskActive(p) /\ handler[p][i].pc = "free"
             /\ handler'[p][i].pc = "run" /\ handler'[p][i].task = loop[p].task
  <2>1. SetTaskActive(q) /\ handler' # handler
    BY <1>2, Zenon DEF LoopNext, TakeToken, PollItem, LoadTask, LoadDependency, TerminateFailed,
       NakBlocked, RemoveUseless, SaveTask, FindDiscarded, DiscardTask
  <2>2. PICK j, r : j \in Slot \ Busy(q) /\ handler' = [handler EXCEPT ![q][j] =
               [pc |-> "run", task |-> loop[q].task, item |-> loop[q].item, rec |-> r]]
    BY <2>1, Zenon DEF SetTaskActive
  <2>3. q = p /\ j = i
    BY <1>0, <1>2, <2>2, ZenonT(30)
  <2>. QED
    BY <1>0, <2>1, <2>2, <2>3, ZenonT(30) DEF Busy
<1>3. ASSUME NEW q \in Proc, NEW j \in Slot, HandlerNext(q, j), handler'[p][i] # handler[p][i]
      PROVE  /\ handler[p][i].pc \in {"run", "save"} /\ handler'[p][i].task = handler[p][i].task
             /\ handler'[p][i].rec.seq = handler[p][i].rec.seq
  <2>1. q = p /\ j = i
    BY <1>3, HandlerMoves, Zenon
  <2>2. handler'[p][i].pc = "save" /\ HandlerReturns(p, i) /\ handler'[p][i].rec.seq = handler[p][i].rec.seq
    BY <1>3, <2>1, HandlerPoints, ZenonT(30)
  <2>. QED
    BY <1>3, <2>1, <2>2, HandlerMoves, ZenonT(30) DEF HandlerKeeps, HandlerReturns
<1>4. ASSUME NEW q \in Proc, Crash(q), handler'[p][i] # handler[p][i] PROVE FALSE
  <2>1. handler'[p][i] = Free
    BY <1>0, <1>4, ZenonT(30) DEF Crash
  <2>. QED
    BY <2>1, SMTT(30) DEF Free
<1>5. ASSUME \/ UNCHANGED procVars \/ UNCHANGED vars
             \/ \E t \in Task : PollReplyLost(t) \/ LeaseTimeout(t) \/ RunTimeout(t) \/ Deadline(t)
                                \/ ForgetMsgId(t)
      PROVE  handler' = handler
  BY <1>5, Zenon DEF PollReplyLost, LeaseTimeout, RunTimeout, Deadline, ForgetMsgId, procVars, vars
<1>. QED
  BY <1>1, <1>2, <1>3, <1>4, <1>5, ZenonT(30) DEF Next

\* A creator's value changes by the creator's own steps.
LEMMA CreatorSteps ==
  ASSUME Fenced, [Next]_vars, NEW t \in Task
  PROVE  creator'[t] = creator[t] \/ CreatorNext(t)
<1>0. creator \in [Task -> Creator]
  BY DEF Fenced, TypeOK, ClientTypeOK
<1>1. ASSUME NEW u \in Task, CreatorNext(u), u # t PROVE creator'[t] = creator[t]
  BY <1>0, <1>1, ZenonT(30) DEF CreatorNext, EnqueueTask, SaveEnqueued, PublishEnqueued, CreatorCrash
<1>2. ASSUME NEW c \in Client, ClientNext(c) PROVE creator' = creator
  BY <1>2, Zenon DEF ClientNext, RetryTaskByID, DeleteTaskByID, SaveRetried, PublishRetried,
     DeleteFound, ClientCrash
<1>3. ASSUME \/ UNCHANGED clientVars \/ UNCHANGED vars \/ PurgeQueue
             \/ \E u \in Task : LeaseTimeout(u) \/ RunTimeout(u) \/ Deadline(u) \/ ForgetMsgId(u)
      PROVE  creator' = creator
  BY <1>3, Zenon DEF PurgeQueue, LeaseTimeout, RunTimeout, Deadline, ForgetMsgId, clientVars, vars
<1>. QED
  BY <1>1, <1>2, <1>3, ZenonT(30) DEF Next

\* Where a creator goes in a step.
LEMMA CreatorPoints ==
  ASSUME Fenced, [Next]_vars, NEW t \in Task
  PROVE  LET k == creator[t]
             l == creator'[t]
         IN \/ l = k
            \/ k.pc = "idle" /\ k.calls < MaxEnqueues /\ l.pc = "save" /\ l.calls = k.calls + 1
            \/ /\ l.calls = k.calls /\ k.pc # "idle"
               /\ l.pc \in {"idle", "gone"} \/ (k.pc = "save" /\ l.pc = "publish")
                  \/ (k.pc = "publish" /\ l.pc = "queueError")
<1>0. creator \in [Task -> Creator] /\ creator[t] \in Creator
  BY Zenon DEF Fenced, TypeOK, ClientTypeOK
<1>1. CASE EnqueueTask(t)
  <2>1. /\ creator[t].calls < MaxEnqueues /\ creator[t].pc = "idle"
        /\ creator' = [creator EXCEPT ![t].pc = "save", ![t].calls = @ + 1]
    BY <1>1, Zenon DEF EnqueueTask
  <2>2. creator'[t].pc = "save" /\ creator'[t].calls = creator[t].calls + 1
    BY <1>0, <2>1, Zenon DEF Creator
  <2>. QED
    BY <2>1, <2>2, Zenon
<1>2. CASE SaveEnqueued(t)
  <2>0. PICK ok \in BOOLEAN : creator' = [creator EXCEPT
          ![t].pc = IF ok /\ creator[t].pc = "save" THEN "publish" ELSE "idle",
          ![t].rec.seq = IF ok THEN tasks'[t].seq ELSE @]
    BY <1>2, Zenon DEF SaveEnqueued
  <2>. DEFINE pc == IF ok /\ creator[t].pc = "save" THEN "publish" ELSE "idle"
              k == [creator[t] EXCEPT !.pc = pc, !.rec.seq = IF ok THEN tasks'[t].seq ELSE @]
  <2>1. creator[t].pc \in {"save", "queueError"}
    BY <1>2, Zenon DEF SaveEnqueued
  <2>2. pc \in {"idle", "publish"} /\ (pc = "publish" => creator[t].pc = "save")
    BY Zenon
  <2>3. creator' = [creator EXCEPT ![t] = k]
    BY <2>0, Zenon
  <2>. HIDE DEF pc
  <2>4. k.pc = pc /\ k.calls = creator[t].calls
    BY <1>0 DEF Creator
  <2>. HIDE DEF k
  <2>5. creator'[t] = k
    BY <1>0, <2>3, ZenonT(30)
  <2>6. creator'[t].pc = pc /\ creator'[t].calls = creator[t].calls
    BY <2>4, <2>5, Zenon
  <2>. QED
    BY <2>1, <2>2, <2>6, ZenonT(30)
<1>3. CASE PublishEnqueued(t)
  <2>1. /\ creator[t].pc = "publish"
        /\ \/ creator' = [creator EXCEPT ![t].pc = "idle"]
           \/ creator' = [creator EXCEPT ![t].pc = "queueError", ![t].rec.state = "queue_error"]
    BY <1>3, Zenon DEF PublishEnqueued
  <2>. DEFINE k == [creator[t] EXCEPT !.pc = "queueError", !.rec.state = "queue_error"]
  <2>2. creator' = [creator EXCEPT ![t].pc = "idle"] \/ creator' = [creator EXCEPT ![t] = k]
    BY <2>1, Zenon
  <2>3. k.pc = "queueError" /\ k.calls = creator[t].calls
    BY <1>0, ZenonT(30) DEF Creator
  <2>. HIDE DEF k
  <2>4. CASE creator' = [creator EXCEPT ![t].pc = "idle"]
    <3>1. creator'[t].pc = "idle" /\ creator'[t].calls = creator[t].calls
      BY <1>0, <2>4, ZenonT(30) DEF Creator
    <3>. QED
      BY <2>1, <3>1, Zenon
  <2>5. CASE creator' = [creator EXCEPT ![t] = k]
    <3>1. creator'[t] = k
      BY <1>0, <2>5, Zenon
    <3>. QED
      BY <2>1, <2>3, <3>1, Zenon
  <2>. QED
    BY <2>2, <2>4, <2>5, Zenon
<1>4. CASE CreatorCrash(t)
  <2>1. creator[t].pc \in {"save", "publish", "queueError"} /\ creator' = [creator EXCEPT ![t].pc = "gone"]
    BY <1>4, Zenon DEF CreatorCrash
  <2>. QED
    BY <1>0, <2>1, ZenonT(30) DEF Creator
<1>. QED
  BY <1>1, <1>2, <1>3, <1>4, CreatorSteps, ZenonT(30) DEF CreatorNext

----------------------------------------------------------------------------
(***************************************************************************)
(* The history variables add nothing to what a step may do.                *)
(***************************************************************************)
Counts == runs' = [t \in Task |-> runs[t] + (IF Starts(t) THEN 1 ELSE 0)]

\* A behaviour with history variables is a behaviour of the system.
LEMMA HistoryIsSpec == HistorySpec => Spec
<1>1. HistoryInit => Init
  BY DEF HistoryInit
<1>2. [HistoryNext]_historyVars => [Next]_vars
  BY DEF HistoryNext, historyVars
<1>. QED
  BY <1>1, <1>2, PTL DEF HistorySpec, Spec

============================================================================
