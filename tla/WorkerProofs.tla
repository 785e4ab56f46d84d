---------------------------- MODULE WorkerProofs ----------------------------
(***************************************************************************)
(* What the worker processes together do, as far as it can be counted: the *)
(* tokens of their limiters, the handlers that run, the deliveries and     *)
(* tries of a task.                                                        *)
(***************************************************************************)
EXTENDS AsyncJobsProofs, FiniteSetTheorems

(***************************************************************************)
(* The tokens of the limiter of a worker process are conserved.            *)
(***************************************************************************)
\* The token the loop holds.
Holds(p) == IF loop[p].pc = "limiter" THEN 0 ELSE 1

Tokens(p) == limiter[p] + Cardinality(Busy(p)) + Holds(p)

\* A process has finitely many busy handlers.
LEMMA BusyFinite ==
  ASSUME NEW p \in Proc
  PROVE  IsFiniteSet(Busy(p)) /\ Cardinality(Busy(p)) \in Nat
<1>1. Busy(p) \in SUBSET Slot
  BY DEF Busy
<1>. QED
  BY <1>1, FS_Subset, FS_CardinalityType, ProcessorAssumption, ZenonT(30)

\* A process that takes no step keeps its tokens where they are.
LEMMA IdleTokens ==
  ASSUME NEW p \in Proc, limiter'[p] = limiter[p], loop'[p].pc = loop[p].pc,
         \A i \in Slot : handler'[p][i].pc = "free" <=> handler[p][i].pc = "free"
  PROVE  Tokens(p)' = Tokens(p)
<1>1. Busy(p)' = Busy(p)
  BY DEF Busy
<1>. QED
  BY <1>1, ZenonT(30) DEF Tokens, Holds

\* The loop moves, or ends a message and sends its token back.
LEMMA LoopTokens ==
  ASSUME NEW p \in Proc, ProcessorTypeOK, handler' = handler, loop' \in [Proc -> Loop],
         \/ limiter' = limiter /\ loop[p].pc # "limiter" /\ loop'[p].pc # "limiter"
         \/ ReturnToken(p) /\ loop[p].pc # "limiter" /\ loop'[p].pc = "limiter"
         \/ TakeToken(p) /\ loop'[p].pc # "limiter"
  PROVE  Tokens(p)' = Tokens(p)
<1>1. Busy(p)' = Busy(p)
  BY DEF Busy
<1>2. limiter[p] \in Nat /\ limiter \in [Proc -> 0..Concurrency] /\ Concurrency \in Nat
  BY ProcessorAssumption DEF ProcessorTypeOK
<1>3. Cardinality(Busy(p)) \in Nat
  BY BusyFinite
<1>4. limiter'[p] + Holds(p)' = limiter[p] + Holds(p)
  BY <1>2 DEF ReturnToken, TakeToken, Holds
<1>5. limiter'[p] \in Nat /\ Holds(p) \in Nat /\ Holds(p)' \in Nat
  BY <1>2 DEF ReturnToken, TakeToken, Holds
<1>. QED
  BY <1>1, <1>2, <1>3, <1>4, <1>5 DEF Tokens

\* A goroutine is started with the token of the loop.
LEMMA StartTokens ==
  ASSUME NEW p \in Proc, ProcessorTypeOK, NEW i \in Slot \ Busy(p), NEW h, h.pc = "run",
         limiter' = limiter, loop[p].pc # "limiter", loop'[p].pc = "limiter",
         handler' = [handler EXCEPT ![p][i] = h]
  PROVE  Tokens(p)' = Tokens(p)
<1>1. handler'[p] = [handler[p] EXCEPT ![i] = h] /\ handler[p] \in [Slot -> Handler]
  BY DEF ProcessorTypeOK
<1>2. Busy(p)' = Busy(p) \cup {i}
  BY <1>1 DEF Busy
<1>3. Cardinality(Busy(p)') = Cardinality(Busy(p)) + 1
  BY <1>2, BusyFinite, FS_AddElement, Zenon
<1>4. limiter[p] \in Nat /\ Cardinality(Busy(p)) \in Nat
  BY BusyFinite DEF ProcessorTypeOK
<1>. QED
  BY <1>3, <1>4 DEF Tokens, Holds

\* A goroutine ends and sends its token back.
LEMMA EndTokens ==
  ASSUME NEW p \in Proc, ProcessorTypeOK, NEW i \in Busy(p), ReturnToken(p),
         loop' = loop, handler' = [handler EXCEPT ![p][i] = Free]
  PROVE  Tokens(p)' = Tokens(p)
<1>0. i \in Slot /\ Free.pc = "free"
  BY DEF Busy, Free
<1>1. handler'[p] = [handler[p] EXCEPT ![i] = Free] /\ handler[p] \in [Slot -> Handler]
  BY DEF ProcessorTypeOK
<1>2. Busy(p)' = Busy(p) \ {i}
  BY <1>0, <1>1, ZenonT(30) DEF Busy
<1>3. Cardinality(Busy(p)') = Cardinality(Busy(p)) - 1
  BY <1>2, BusyFinite, FS_RemoveElement, Zenon
<1>4. limiter[p] \in Nat /\ Cardinality(Busy(p)) \in Nat /\ limiter'[p] = limiter[p] + 1
  BY BusyFinite DEF ProcessorTypeOK, ReturnToken
<1>. QED
  BY <1>3, <1>4 DEF Tokens, Holds

\* A process that starts has all its tokens in the limiter.
LEMMA FreshTokens ==
  ASSUME NEW p \in Proc, limiter[p] = Concurrency, loop[p] = Waiting,
         \A i \in Slot : handler[p][i] = Free
  PROVE  Tokens(p) = Concurrency
<1>1. Busy(p) = {}
  BY DEF Busy, Free
<1>2. Holds(p) = 0
  BY DEF Holds, Waiting
<1>. QED
  BY <1>1, <1>2, FS_EmptySet, ProcessorAssumption DEF Tokens

\* Only process p moves.
OthersIdle(p) ==
  \A q \in Proc \ {p} : limiter'[q] = limiter[q] /\ loop'[q] = loop[q] /\ handler'[q] = handler[q]

\* A step of processMessages keeps the tokens of its process.
LEMMA LoopNextTokens ==
  ASSUME NEW p \in Proc, Fenced, Fenced', LoopNext(p)
  PROVE  Tokens(p)' = Tokens(p) /\ OthersIdle(p)
<1>0. ProcessorTypeOK /\ ProcessorTypeOK' /\ loop[p] \in Loop /\ Waiting.pc = "limiter"
  BY DEF Fenced, TypeOK, ProcessorTypeOK, Waiting
<1>1. CASE TakeToken(p)
  <2>1. loop'[p].pc # "limiter" /\ OthersIdle(p) /\ handler' = handler
    BY <1>0, <1>1, ZenonT(30) DEF TakeToken, Goto, OthersIdle, ProcessorTypeOK, Loop
  <2>. QED
    BY <1>0, <1>1, <2>1, LoopTokens, ZenonT(30) DEF ProcessorTypeOK
<1>2. ASSUME loop[p].pc # "limiter", EndMessage(p), handler' = handler
      PROVE  Tokens(p)' = Tokens(p) /\ OthersIdle(p)
  <2>1. ReturnToken(p) /\ loop'[p].pc = "limiter" /\ OthersIdle(p)
    BY <1>0, <1>2, ZenonT(30) DEF EndMessage, ReturnToken, OthersIdle, ProcessorTypeOK
  <2>. QED
    BY <1>0, <1>2, <2>1, LoopTokens, ZenonT(30) DEF ProcessorTypeOK
<1>3. ASSUME loop[p].pc # "limiter", limiter' = limiter, handler' = handler,
             NEW l, l.pc # "limiter", loop' = [loop EXCEPT ![p] = l]
      PROVE  Tokens(p)' = Tokens(p) /\ OthersIdle(p)
  <2>1. loop'[p].pc # "limiter" /\ OthersIdle(p)
    BY <1>0, <1>3, ZenonT(30) DEF OthersIdle, ProcessorTypeOK
  <2>. QED
    BY <1>0, <1>3, <2>1, LoopTokens, ZenonT(30) DEF ProcessorTypeOK
<1>4. ASSUME NEW pc \in LoopPC \ {"limiter"}, Goto(p, pc), loop[p].pc # "limiter",
             limiter' = limiter, handler' = handler
      PROVE  Tokens(p)' = Tokens(p) /\ OthersIdle(p)
  <2>1. loop' = [loop EXCEPT ![p] = [loop[p] EXCEPT !.pc = pc]]
    BY <1>4 DEF Goto
  <2>2. [loop[p] EXCEPT !.pc = pc].pc # "limiter"
    BY <1>0, ZenonT(30) DEF Loop
  <2>. QED
    BY <1>3, <1>4, <2>1, <2>2, Zenon
<1>5. CASE \E t \in Task : PollItem(p, t)
  <2>1. PICK t \in Task : PollItem(p, t)
    BY <1>5
  <2>. DEFINE l == [loop[p] EXCEPT !.pc = "load", !.task = t, !.item = items'[t].seq]
  <2>2. loop' = [loop EXCEPT ![p] = l] /\ l.pc # "limiter" /\ loop[p].pc # "limiter"
        /\ limiter' = limiter /\ handler' = handler
    BY <1>0, <2>1, Zenon DEF PollItem, Loop
  <2>. HIDE DEF l
  <2>. QED
    BY <1>3, <2>2, Zenon
<1>6. CASE LoadTask(p)
  <2>1. loop[p].pc # "limiter" /\ handler' = handler
    BY <1>6, Zenon DEF LoadTask
  <2>2. "termUnknown" \in LoopPC \ {"limiter"} /\ "ack" \in LoopPC \ {"limiter"}
    BY DEF LoopPC
  <2>3. CASE \/ EndMessage(p)
             \/ limiter' = limiter /\ (Goto(p, "termUnknown") \/ Goto(p, "ack"))
    BY <1>2, <1>4, <2>1, <2>2, <2>3, ZenonT(30)
  <2>4. CASE ~ \/ EndMessage(p)
               \/ limiter' = limiter /\ (Goto(p, "termUnknown") \/ Goto(p, "ack"))
    <3>. DEFINE t == loop[p].task
                r == tasks[t]
                expire == IsPastDeadline(t) \/ ExceedsMaxTries(t, r)
                deps == r.state = "blocked" /\ HasDependencies(t)
                rec == IF expire THEN [r EXCEPT !.state = "expired"] ELSE r
                pc == CASE expire -> "save"
                        [] ~expire /\ deps -> "deps"
                        [] OTHER -> "activate"
                dep == IF ~expire /\ deps THEN 1 ELSE 0
                l == [loop[p] EXCEPT !.rec = rec, !.pc = pc, !.dep = dep]
    <3>1. loop' = [loop EXCEPT ![p] = l] /\ limiter' = limiter
      BY <1>6, <2>4, Zenon DEF LoadTask
    <3>2. pc # "limiter"
      OBVIOUS
    <3>. HIDE DEF rec, pc, dep
    <3>3. l.pc # "limiter"
      BY <1>0, <3>2, ZenonT(30) DEF Loop
    <3>. HIDE DEF l
    <3>. QED
      BY <1>3, <2>1, <3>1, <3>3, Zenon
  <2>. QED
    BY <2>3, <2>4, ZenonT(30)
<1>7. CASE LoadDependency(p)
  <2>1. loop[p].pc = "deps" /\ handler' = handler /\ limiter' = limiter
    BY <1>7, Zenon DEF LoadDependency
  <2>. DEFINE ready == loop[p].ready
                         /\ tasks[Dependencies[loop[p].task][loop[p].dep]].state = "complete"
              pc == IF ready THEN "activate" ELSE "nakBlocked"
  <2>2. \/ Goto(p, "nakBlocked") \/ Goto(p, "termFailed")
        \/ loop' = [loop EXCEPT ![p].dep = @ + 1, ![p].ready = ready]
        \/ loop' = [loop EXCEPT ![p].pc = pc, ![p].ready = TRUE, ![p].dep = 0]
    BY <1>7, Zenon DEF LoadDependency
  <2>6. pc \in {"activate", "nakBlocked"}
    OBVIOUS
  <2>. HIDE DEF ready, pc
  <2>3. "termFailed" \in LoopPC \ {"limiter"} /\ "nakBlocked" \in LoopPC \ {"limiter"}
    BY DEF LoopPC
  <2>4. CASE loop' = [loop EXCEPT ![p].dep = @ + 1, ![p].ready = ready]
    <3>. DEFINE l == [loop[p] EXCEPT !.dep = @ + 1, !.ready = ready]
    <3>1. loop' = [loop EXCEPT ![p] = l] /\ l.pc # "limiter"
      BY <1>0, <2>1, <2>4, Zenon DEF Loop
    <3>. HIDE DEF l
    <3>. QED
      BY <1>3, <2>1, <3>1, Zenon
  <2>5. CASE loop' = [loop EXCEPT ![p].pc = pc, ![p].ready = TRUE, ![p].dep = 0]
    <3>. DEFINE l == [loop[p] EXCEPT !.pc = pc, !.ready = TRUE, !.dep = 0]
    <3>1. loop' = [loop EXCEPT ![p] = l] /\ l.pc # "limiter"
      BY <1>0, <2>1, <2>5, <2>6, Zenon DEF Loop
    <3>. HIDE DEF l
    <3>. QED
      BY <1>3, <2>1, <3>1, Zenon
  <2>. QED
    BY <1>4, <2>1, <2>2, <2>3, <2>4, <2>5, ZenonT(30)
<1>8. CASE TerminateFailed(p)
  <2>. DEFINE l == [loop[p] EXCEPT !.pc = "save", !.rec.state = "unreachable"]
  <2>1. loop' = [loop EXCEPT ![p] = l] /\ l.pc # "limiter" /\ loop[p].pc # "limiter"
        /\ limiter' = limiter /\ handler' = handler
    BY <1>0, <1>8, Zenon DEF TerminateFailed, Loop
  <2>. HIDE DEF l
  <2>. QED
    BY <1>3, <2>1, Zenon
<1>9. CASE NakBlocked(p) \/ RemoveUseless(p) \/ SaveTask(p) \/ DiscardTask(p)
  BY <1>2, <1>9, ZenonT(30) DEF NakBlocked, RemoveUseless, SaveTask, DiscardTask
<1>10. CASE FindDiscarded(p)
  <2>. DEFINE l == [loop[p] EXCEPT !.pc = "discard", !.rec.seq = tasks[loop[p].task].seq]
  <2>1. /\ loop[p].pc # "limiter" /\ handler' = handler
        /\ EndMessage(p) \/ (loop' = [loop EXCEPT ![p] = l] /\ limiter' = limiter)
    BY <1>10, Zenon DEF FindDiscarded
  <2>2. l.pc # "limiter"
    BY <1>0, ZenonT(30) DEF Loop
  <2>. HIDE DEF l
  <2>. QED
    BY <1>2, <1>3, <2>1, <2>2, ZenonT(30)
<1>11. CASE SetTaskActive(p)
  <2>1. CASE EndMessage(p) /\ handler' = handler
    BY <1>2, <1>11, <2>1, ZenonT(30) DEF SetTaskActive
  <2>2. CASE ~(EndMessage(p) /\ handler' = handler)
    <3>1. PICK i \in Slot \ Busy(p) :
            handler' = [handler EXCEPT ![p][i] =
               [pc |-> "run", task |-> loop[p].task, item |-> loop[p].item,
                rec |-> [tasks'[loop[p].task] EXCEPT !.tries = @ + 1]]]
      BY <1>11, <2>2, Zenon DEF SetTaskActive
    <3>2. limiter' = limiter /\ loop' = [loop EXCEPT ![p] = Waiting] /\ loop[p].pc # "limiter"
      BY <1>11, <2>2, Zenon DEF SetTaskActive
    <3>. DEFINE h == [pc |-> "run", task |-> loop[p].task, item |-> loop[p].item,
                      rec |-> [tasks'[loop[p].task] EXCEPT !.tries = @ + 1]]
    <3>3. h.pc = "run" /\ handler' = [handler EXCEPT ![p][i] = h]
      BY <3>1, ZenonT(30)
    <3>. HIDE DEF h
    <3>4. OthersIdle(p) /\ loop'[p].pc = "limiter"
      BY <1>0, <3>2, <3>3, ZenonT(30) DEF OthersIdle, ProcessorTypeOK
    <3>. QED
      BY <1>0, <3>2, <3>3, <3>4, StartTokens, Zenon
  <2>. QED
    BY <2>1, <2>2, ZenonT(30)
<1>. QED
  BY <1>1, <1>5, <1>6, <1>7, <1>8, <1>9, <1>10, <1>11, ZenonT(30) DEF LoopNext

\* A step of handle does too.
LEMMA HandlerNextTokens ==
  ASSUME NEW p \in Proc, NEW i \in Slot, Fenced, Fenced', HandlerNext(p, i)
  PROVE  Tokens(p)' = Tokens(p) /\ OthersIdle(p)
<1>0. ProcessorTypeOK /\ handler[p][i] \in Handler
  BY DEF Fenced, TypeOK, ProcessorTypeOK
<1>1. CASE FinishItem(p, i)
  <2>1. /\ i \in Busy(p) /\ ReturnToken(p) /\ loop' = loop
        /\ handler' = [handler EXCEPT ![p][i] = Free]
    BY <1>1, ZenonT(30) DEF FinishItem, Busy
  <2>2. OthersIdle(p)
    BY <1>0, <2>1, ZenonT(30) DEF OthersIdle, ReturnToken, ProcessorTypeOK
  <2>. QED
    BY <1>0, <2>1, <2>2, EndTokens, Zenon
<1>2. ASSUME handler[p][i].pc # "free", NEW h, h.pc # "free", limiter' = limiter, loop' = loop,
             handler' = [handler EXCEPT ![p][i] = h]
      PROVE  Tokens(p)' = Tokens(p) /\ OthersIdle(p)
  <2>1. OthersIdle(p)
    BY <1>0, <1>2, ZenonT(30) DEF OthersIdle, ProcessorTypeOK
  <2>2. \A j \in Slot : handler'[p][j].pc = "free" <=> handler[p][j].pc = "free"
    BY <1>0, <1>2, ZenonT(30) DEF ProcessorTypeOK
  <2>. QED
    BY <1>2, <2>1, <2>2, IdleTokens, ZenonT(30)
<1>3. CASE HandlerReturns(p, i)
  <2>1. PICK s : handler' = [handler EXCEPT ![p][i].pc = "save", ![p][i].rec.state = s]
    BY <1>3, Zenon DEF HandlerReturns
  <2>. DEFINE h == [handler[p][i] EXCEPT !.pc = "save", !.rec.state = s]
  <2>2. handler' = [handler EXCEPT ![p][i] = h] /\ h.pc # "free"
    BY <1>0, <2>1, Zenon DEF Handler
  <2>. HIDE DEF h
  <2>. QED
    BY <1>2, <1>3, <2>2, Zenon DEF HandlerReturns
<1>4. CASE SaveResult(p, i) \/ DiscardResult(p, i) \/ FindResult(p, i)
  <2>. DEFINE f == [handler[p][i] EXCEPT !.pc = "finish"]
              rec == [handler[p][i].rec EXCEPT !.seq = tasks[handler[p][i].task].seq]
              d == [handler[p][i] EXCEPT !.pc = "discard", !.rec = rec]
  <2>1. \/ handler' = [handler EXCEPT ![p][i] = f]
        \/ handler' = [handler EXCEPT ![p][i] = d]
    <3>1. CASE SaveResult(p, i)
      BY <3>1, ZenonT(30) DEF SaveResult
    <3>2. CASE DiscardResult(p, i)
      BY <3>2, ZenonT(30) DEF DiscardResult
    <3>3. CASE FindResult(p, i)
      BY <1>0, <3>3, ZenonT(40) DEF FindResult, Handler, ProcessorTypeOK
    <3>. QED
      BY <1>4, <3>1, <3>2, <3>3, ZenonT(30)
  <2>. HIDE DEF rec
  <2>2. f.pc # "free" /\ d.pc # "free"
    BY <1>0 DEF Handler
  <2>3. limiter' = limiter /\ loop' = loop /\ handler[p][i].pc # "free"
    BY <1>4 DEF SaveResult, DiscardResult, FindResult
  <2>. HIDE DEF f, d
  <2>. QED
    BY <1>2, <2>1, <2>2, <2>3, ZenonT(30)
<1>. QED
  BY <1>1, <1>3, <1>4, ZenonT(30) DEF HandlerNext

\* A restarted process has all its tokens; the others keep theirs.
LEMMA CrashTokens ==
  ASSUME NEW p \in Proc, ProcessorTypeOK, Crash(p)
  PROVE  Tokens(p)' = Concurrency /\ OthersIdle(p)
<1>1. limiter'[p] = Concurrency /\ loop'[p] = Waiting /\ \A i \in Slot : handler'[p][i] = Free
  BY ZenonT(30) DEF Crash, ProcessorTypeOK
<1>2. OthersIdle(p)
  BY ZenonT(30) DEF Crash, ProcessorTypeOK, OthersIdle
<1>3. Busy(p)' = {} /\ Holds(p)' = 0
  BY <1>1 DEF Busy, Free, Holds, Waiting
<1>4. Tokens(p)' = Concurrency
  BY <1>1, <1>3, FS_EmptySet, ProcessorAssumption DEF Tokens
<1>. QED
  BY <1>2, <1>4

\* No worker ever loses a token of its limiter or gains one, and so none stops
\* polling for good: every path through processMessage and handle gives back
\* exactly the token that was taken.
THEOREM TokensAreConserved == Spec => []TokensConserved
<1>0. TokensConserved <=> \A p \in Proc : Tokens(p) = Concurrency
  BY DEF TokensConserved, Tokens, Holds
<1>1. Init => TokensConserved
  <2>. SUFFICES ASSUME Init, NEW p \in Proc PROVE Tokens(p) = Concurrency
    BY <1>0, ZenonT(30)
  <2>. QED
    BY FreshTokens, ZenonT(30) DEF Init, ProcessorInit
<1>2. Fenced /\ TokensConserved /\ [Next]_vars => TokensConserved'
  <2>. SUFFICES ASSUME Fenced, TokensConserved, [Next]_vars PROVE TokensConserved'
    OBVIOUS
  <2>0. TokensConserved' <=> \A p \in Proc : Tokens(p)' = Concurrency
    BY ZenonT(30) DEF TokensConserved, Tokens, Holds
  <2>1. ASSUME NEW p \in Proc, OthersIdle(p), Tokens(p)' = Concurrency
        PROVE  TokensConserved'
    BY <1>0, <2>0, <2>1, IdleTokens DEF OthersIdle
  <2>2. ASSUME UNCHANGED procVars
        PROVE  TokensConserved'
    BY <1>0, <2>0, <2>2, IdleTokens, ZenonT(30) DEF procVars
  <2>3. ASSUME NEW p \in Proc, LoopNext(p) \/ \E i \in Slot : HandlerNext(p, i)
        PROVE  TokensConserved'
    BY <1>0, <2>1, <2>3, LoopNextTokens, HandlerNextTokens, NextFenced, ZenonT(30)
  <2>4. ASSUME NEW p \in Proc, Crash(p)
        PROVE  TokensConserved'
    BY <2>1, <2>4, CrashTokens, ZenonT(30) DEF Fenced, TypeOK
  <2>. QED
    BY <2>2, <2>3, <2>4, ZenonT(30) DEF Next, PollReplyLost, LeaseTimeout, RunTimeout, Deadline, ForgetMsgId, vars
<1>. QED
  BY <1>1, <1>2, FencedHolds, PTL DEF Spec

----------------------------------------------------------------------------
(***************************************************************************)
(* In-flight jobs: MaxAckPending bounds the leases, and a handler that     *)
(* runs holds one.                                                         *)
(***************************************************************************)
\* The consumer counts what it delivered, and only items are leased.
Pending ==
  /\ IsFiniteSet(AckPending) /\ Cardinality(AckPending) <= MaxConcurrent
  /\ \A t \in Task : items[t].leased => HasItem(t) /\ items[t].deliveries > 0

\* The consumer delivers a new item only while fewer than MaxAckPending are out.
LEMMA NextPending ==
  ASSUME Fenced, Pending, [Next]_vars
  PROVE  Pending'
<1>0. items \in [Task -> Item] /\ lastItem \in [Task -> Nat] /\ MaxConcurrent \in Nat
      /\ QueueMaxTries \in Int
  BY QueueAssumption, ZenonT(30) DEF Fenced, TypeOK, QueueTypeOK
<1>1. ASSUME AckPending' \subseteq AckPending
      PROVE  IsFiniteSet(AckPending)' /\ (Cardinality(AckPending) <= MaxConcurrent)'
  <2>. DEFINE S == AckPending
              T == AckPending'
  <2>1. IsFiniteSet(S) /\ Cardinality(S) <= MaxConcurrent /\ T \subseteq S
    BY <1>1, ZenonT(30) DEF Pending
  <2>2. IsFiniteSet(T) /\ Cardinality(T) <= Cardinality(S)
    <3>. HIDE DEF S, T
    <3>. QED
      BY <2>1, FS_Subset, ZenonT(30)
  <2>3. Cardinality(S) \in Nat /\ Cardinality(T) \in Nat
    <3>. HIDE DEF S, T
    <3>. QED
      BY <2>1, <2>2, FS_CardinalityType, ZenonT(30)
  <2>. QED
    BY <1>0, <2>1, <2>2, <2>3, SMTT(30)
<1>2. CASE UNCHANGED items
  BY <1>2, Zenon DEF Pending, AckPending, HasItem, Deliverable
<1>3. CASE Purge
  <2>1. AckPending' \subseteq AckPending /\ \A t \in Task : ~items'[t].leased
    BY <1>3, Zenon DEF Purge, NoItem, AckPending, HasItem
  <2>. QED
    BY <1>1, <2>1, ZenonT(30) DEF Pending
<1>4. ASSUME NEW t \in Task, NEW v \in Item, items' = [items EXCEPT ![t] = v],
             v.leased => v.seq # 0 /\ v.deliveries > 0,
             v.seq # 0 /\ v.deliveries > 0 /\ (v.leased \/ QueueMaxTries < 0 \/ v.deliveries < QueueMaxTries)
               => t \in AckPending
      PROVE  Pending'
  <2>1. AckPending' \subseteq AckPending
    BY <1>0, <1>4, ZenonT(30) DEF AckPending, HasItem, Deliverable
  <2>2. \A u \in Task : items'[u].leased => items'[u].seq # 0 /\ items'[u].deliveries > 0
    BY <1>0, <1>4, ZenonT(30) DEF Pending, HasItem
  <2>. QED
    BY <1>1, <2>1, <2>2, ZenonT(30) DEF Pending, HasItem
<1>5. ASSUME NEW t \in Task, LeaseExpires(t) \/ \E seq \in Nat : ReleaseItem(t, seq)
      PROVE  Pending'
  <2>. DEFINE v == [items[t] EXCEPT !.leased = FALSE]
  <2>1. UNCHANGED items \/ items' = [items EXCEPT ![t] = v]
    BY <1>5 DEF LeaseExpires, ReleaseItem, queueVars
  <2>2. v \in Item /\ ~v.leased /\ v.seq = items[t].seq /\ v.deliveries = items[t].deliveries
    BY <1>0, Zenon DEF Item
  <2>. HIDE DEF v
  <2>3. v.seq # 0 /\ v.deliveries > 0 /\ (QueueMaxTries < 0 \/ v.deliveries < QueueMaxTries)
               => t \in AckPending
    BY <2>2, ZenonT(30) DEF AckPending, HasItem, Deliverable
  <2>. QED
    BY <1>2, <1>4, <2>1, <2>2, <2>3, ZenonT(30)
<1>6. ASSUME NEW t \in Task, NEW seq \in Nat, RemoveItem(t, seq)
      PROVE  Pending'
  <2>1. UNCHANGED items \/ items' = [items EXCEPT ![t] = NoItem]
    BY <1>6, Zenon DEF RemoveItem, queueVars
  <2>2. NoItem \in Item /\ ~NoItem.leased /\ NoItem.seq = 0
    BY DEF NoItem, Item
  <2>. QED
    BY <1>2, <1>4, <2>1, <2>2, ZenonT(30)
<1>7. ASSUME NEW t \in Task, NEW withId \in BOOLEAN, StoreItem(t, withId)
      PROVE  Pending'
  <2>. DEFINE v == [seq |-> lastItem[t] + 1, deliveries |-> 0, leased |-> FALSE]
  <2>1. items' = [items EXCEPT ![t] = v]
    BY <1>7, ZenonT(30) DEF StoreItem
  <2>2. v \in Item /\ ~v.leased /\ ~(v.deliveries > 0)
    BY <1>0 DEF Item
  <2>. HIDE DEF v
  <2>. QED
    BY <1>4, <2>1, <2>2, Zenon
<1>8. ASSUME NEW t \in Task, Deliver(t)
      PROVE  Pending'
  <2>. DEFINE v == [items[t] EXCEPT !.deliveries = IF QueueMaxTries < 0 THEN 1 ELSE @ + 1,
                                    !.leased = TRUE]
  <2>1. items' = [items EXCEPT ![t] = v]
    BY <1>8, Zenon DEF Deliver
  <2>2. v \in Item /\ v.leased /\ v.seq = items[t].seq /\ v.seq # 0 /\ v.deliveries > 0
    BY <1>0, <1>8 DEF Item, Deliver, Deliverable, HasItem
  <2>. HIDE DEF v
  <2>3. CASE items[t].deliveries # 0
    <3>1. t \in AckPending
      BY <1>0, <1>8, <2>3, SMTT(30) DEF AckPending, Deliver, Deliverable, Item
    <3>. QED
      BY <1>4, <2>1, <2>2, <3>1, ZenonT(30)
  <2>4. CASE items[t].deliveries = 0
    <3>1. Cardinality(AckPending) < MaxConcurrent
      BY <1>8, <2>4, ZenonT(30) DEF Deliver
    <3>2. AckPending' \subseteq AckPending \cup {t}
      BY <1>0, <2>1, ZenonT(30) DEF AckPending, HasItem, Deliverable
    <3>. DEFINE S == AckPending
                T == AckPending'
    <3>3. IsFiniteSet(S) /\ Cardinality(S) < MaxConcurrent /\ T \subseteq S \cup {t}
      BY <3>1, <3>2, ZenonT(30) DEF Pending
    <3>4. IsFiniteSet(T) /\ Cardinality(T) <= MaxConcurrent
      <4>. HIDE DEF S, T
      <4>1. Cardinality(S) \in Nat
        BY <3>3, FS_CardinalityType, ZenonT(30)
      <4>2. IsFiniteSet(S \cup {t}) /\ Cardinality(S \cup {t}) <= Cardinality(S) + 1
        BY <3>3, <4>1, FS_AddElement, SMTT(30)
      <4>3. IsFiniteSet(T) /\ Cardinality(T) <= Cardinality(S \cup {t})
        BY <3>3, <4>2, FS_Subset, ZenonT(30)
      <4>4. Cardinality(S \cup {t}) \in Nat /\ Cardinality(T) \in Nat
        BY <4>2, <4>3, FS_CardinalityType, ZenonT(30)
      <4>. QED
        BY <1>0, <3>3, <4>1, <4>2, <4>3, <4>4, SMTT(30)
    <3>5. \A u \in Task : items'[u].leased => items'[u].seq # 0 /\ items'[u].deliveries > 0
      BY <1>0, <2>1, <2>2, ZenonT(30) DEF Pending, HasItem
    <3>. QED
      BY <3>4, <3>5, ZenonT(30) DEF Pending, HasItem
  <2>. QED
    BY <2>3, <2>4, ZenonT(30)
<1>. QED
  BY <1>2, <1>3, <1>5, <1>6, <1>7, <1>8, QueueSteps, ZenonT(30)

LEMMA InitPending == Init => Pending
<1>. SUFFICES ASSUME Init PROVE Pending
  OBVIOUS
<1>1. \A t \in Task : items[t].seq = 0 /\ ~items[t].leased
  BY DEF Init, QueueInit, NoItem
<1>2. AckPending = {}
  BY <1>1, Zenon DEF AckPending, HasItem
<1>. QED
  BY <1>1, <1>2, FS_EmptySet, QueueAssumption, SMTT(30) DEF Pending

\* A thread that runs a handler for t, or may still start one.
Owning(t) ==
  \/ \E p \in Proc : LoopOn(p, t) /\ loop[p].pc \in Pursuing
  \/ \E p \in Proc : \E i \in Slot : HandlerOn(p, i, t)

\* Unless the queue is purged such a thread has the item it was given.
Owned == \A t \in Task : Owning(t) => HasItem(t)

LEMMA KeptOwned ==
  ASSUME Owned, ThreadsKeep, \A t \in Task : HasItem(t) => HasItem(t)' \/ ~Owning(t)'
  PROVE  Owned'
<1>. SUFFICES ASSUME NEW t \in Task, Owning(t)' PROVE Owning(t)
  BY Zenon DEF Owned
<1>1. \A p \in Proc : LoopOn(p, t)' /\ loop'[p].pc \in Pursuing => LoopOn(p, t) /\ loop[p].pc \in Pursuing
  BY Zenon DEF ThreadsKeep, LoopKeeps, LoopOn
<1>2. \A p \in Proc : \A i \in Slot : HandlerOn(p, i, t)' => HandlerOn(p, i, t)
  BY DEF ThreadsKeep, HandlerKeeps, HandlerOn
<1>. QED
  BY <1>1, <1>2, ZenonT(30) DEF Owning

\* A step that removes no item.
LEMMA ItemsStay ==
  ASSUME QueueTypeOK, NEW t \in Task,
         Deliver(t) \/ LeaseExpires(t) \/ (\E seq : ReleaseItem(t, seq)) \/ (\E withId : StoreItem(t, withId))
  PROVE  \A u \in Task : HasItem(u) => HasItem(u)'
<1>1. CASE Deliver(t) \/ LeaseExpires(t) \/ \E seq : ReleaseItem(t, seq)
  BY <1>1, SMTT(30) DEF QueueTypeOK, Item, Deliver, LeaseExpires, ReleaseItem, HasItem, queueVars
<1>2. CASE \E withId : StoreItem(t, withId)
  BY <1>2 DEF QueueTypeOK, Item, StoreItem, HasItem
<1>. QED
  BY <1>1, <1>2, ZenonT(30)

\* A step that removes the item of t removes no other.
LEMMA OthersStay ==
  ASSUME QueueTypeOK, NEW t \in Task, NEW seq, RemoveItem(t, seq)
  PROVE  \A u \in Task : u # t /\ HasItem(u) => HasItem(u)'
  BY DEF QueueTypeOK, RemoveItem, HasItem, queueVars

LEMMA LoopNextOwned ==
  ASSUME Fenced, Exclusive, Owned, NEW p \in Proc, LoopNext(p)
  PROVE  Owned'
<1>0. /\ loop \in [Proc -> Loop] /\ QueueTypeOK /\ LoopFence(p)
      /\ handler \in [Proc -> [Slot -> Handler]]
  BY ZenonT(30) DEF Fenced, TypeOK, ProcessorTypeOK
<1>1. ASSUME NEW t \in Task, PollItem(p, t) PROVE Owned'
  <2>. DEFINE l == [loop[p] EXCEPT !.pc = "load", !.task = t, !.item = items'[t].seq]
  <2>1. loop' = [loop EXCEPT ![p] = l] /\ handler' = handler /\ Deliver(t)
    BY <1>1, Zenon DEF PollItem
  <2>2. l.task = t
    BY <1>0, Zenon DEF Loop
  <2>. HIDE DEF l
  <2>3. \A u \in Task : Owning(u)' => u = t \/ Owning(u)
    BY <1>0, <2>1, <2>2, ZenonT(30) DEF Owning, LoopOn, HandlerOn
  <2>4. HasItem(t) /\ \A u \in Task : HasItem(u) => HasItem(u)'
    BY <1>0, <2>1, ItemsStay, Zenon DEF Deliver, Deliverable
  <2>. QED
    BY <2>3, <2>4, ZenonT(30) DEF Owned
<1>2. CASE SetTaskActive(p)
  <2>1. loop[p].task \in Task /\ LoopOn(p, loop[p].task) /\ loop[p].pc \in Pursuing
    BY <1>0, <1>2, ZenonT(30) DEF SetTaskActive, LoopFence, LoopOn, Pursuing
  <2>2. UNCHANGED items /\ loop' = [loop EXCEPT ![p] = Waiting] /\ Waiting.pc = "limiter"
    BY <1>2, Zenon DEF SetTaskActive, queueVars, EndMessage, Waiting
  <2>3. \A q \in Proc : \A i \in Slot : \/ handler'[q][i] = handler[q][i]
                                       \/ handler'[q][i].task = loop[p].task
    <3>1. CASE handler' # handler
      <4>1. PICK i, r : i \in Slot /\ handler' = [handler EXCEPT ![p][i] =
                   [pc |-> "run", task |-> loop[p].task, item |-> loop[p].item, rec |-> r]]
        BY <1>2, <3>1, ZenonT(30) DEF SetTaskActive
      <4>. QED
        BY <1>0, <4>1, ZenonT(30)
    <3>. QED
      BY <3>1, Zenon
  <2>4. ASSUME NEW u \in Task, Owning(u)' PROVE Owning(u)
    <3>1. \A q \in Proc : LoopOn(q, u)' => LoopOn(q, u) /\ loop'[q] = loop[q]
      BY <1>0, <2>2, ZenonT(30) DEF LoopOn
    <3>2. \A q \in Proc : \A i \in Slot : HandlerOn(q, i, u)' => HandlerOn(q, i, u) \/ u = loop[p].task
      BY <2>3, ZenonT(30) DEF HandlerOn
    <3>. QED
      BY <2>1, <2>4, <3>1, <3>2, ZenonT(30) DEF Owning
  <2>. QED
    BY <2>2, <2>4, ZenonT(30) DEF Owned, HasItem
<1>3. CASE ~(\E t \in Task : PollItem(p, t)) /\ ~SetTaskActive(p)
  <2>1. LoopKeeps(p)
    BY <1>3, LoopMoves, ZenonT(30)
  <2>2. handler' = handler /\ \A q \in Proc : q # p => loop'[q] = loop[q]
    BY <1>0, <1>3, ZenonT(30) DEF LoopNext, TakeToken, LoadTask, LoadDependency, TerminateFailed, NakBlocked,
       RemoveUseless, SaveTask, FindDiscarded, DiscardTask, EndMessage, Goto
  <2>3. ThreadsKeep
    BY <2>1, <2>2, ZenonT(30) DEF ThreadsKeep, LoopKeeps, HandlerKeeps
  <2>4. CASE TerminateFailed(p) \/ RemoveUseless(p)
    <3>1. PICK t \in Task : t = loop[p].task
      BY <1>0, <2>4, ZenonT(30) DEF TerminateFailed, RemoveUseless, LoopFence
    <3>2. RemoveItem(t, loop[p].item) /\ LoopOn(p, t)
      BY <2>4, <3>1, ZenonT(30) DEF TerminateFailed, RemoveUseless, LoopOn
    <3>3. loop'[p].pc \notin Pursuing
      BY <1>0, <2>4, SMTT(30) DEF TerminateFailed, RemoveUseless, EndMessage, Waiting, Pursuing, Loop
    <3>4. \A q \in Proc : ~(LoopOn(q, t)' /\ loop'[q].pc \in Pursuing)
      BY <2>2, <3>2, <3>3, ZenonT(30) DEF Exclusive, OneWorker, LoopOn
    <3>5. \A q \in Proc : \A i \in Slot : ~HandlerOn(q, i, t)'
      BY <2>2, <3>2, SMTT(30) DEF Exclusive, OneWorker, HandlerOn
    <3>6. ~Owning(t)'
      BY <3>4, <3>5, ZenonT(30) DEF Owning
    <3>. QED
      BY <1>0, <2>3, <3>2, <3>6, OthersStay, KeptOwned, ZenonT(30)
  <2>5. CASE ~(TerminateFailed(p) \/ RemoveUseless(p))
    <3>1. UNCHANGED items \/ NakBlocked(p)
      BY <1>3, <2>5, Zenon DEF LoopNext, TakeToken, LoadTask, LoadDependency, SaveTask, FindDiscarded,
         DiscardTask, queueVars
    <3>2. \A u \in Task : HasItem(u) => HasItem(u)'
      BY <1>0, <3>1, ItemsStay, Zenon DEF NakBlocked, LoopFence, HasItem
    <3>. QED
      BY <2>3, <3>2, KeptOwned, ZenonT(30)
  <2>. QED
    BY <2>4, <2>5, ZenonT(30)
<1>. QED
  BY <1>1, <1>2, <1>3, ZenonT(30)

LEMMA HandlerNextOwned ==
  ASSUME Fenced, Exclusive, Owned, NEW p \in Proc, NEW i \in Slot, HandlerNext(p, i)
  PROVE  Owned'
<1>0. /\ handler \in [Proc -> [Slot -> Handler]] /\ QueueTypeOK /\ HandlerFence(p, i)
  BY Zenon DEF Fenced, TypeOK, ProcessorTypeOK
<1>1. /\ HandlerKeeps(p, i) /\ loop' = loop
      /\ \A q \in Proc : \A j \in Slot : <<q, j>> # <<p, i>> => handler'[q][j] = handler[q][j]
  BY HandlerMoves, Zenon
<1>2. ThreadsKeep
  BY <1>1, ZenonT(30) DEF ThreadsKeep, LoopKeeps, HandlerKeeps
<1>3. CASE FinishItem(p, i)
  <2>1. PICK t \in Task : t = handler[p][i].task
    BY <1>0, <1>3, ZenonT(30) DEF FinishItem, HandlerFence
  <2>2. HandlerOn(p, i, t) /\ handler'[p][i].pc = "free"
    BY <1>0, <1>3, <2>1, ZenonT(30) DEF FinishItem, HandlerOn, Free
  <2>3. \A q \in Proc : ~LoopOn(q, t)'
    BY <1>1, <2>2, ZenonT(30) DEF LoopOn, Exclusive, OneWorker
  <2>4. \A q \in Proc : \A j \in Slot : ~HandlerOn(q, j, t)'
    <3>1. SUFFICES ASSUME NEW q \in Proc, NEW j \in Slot, HandlerOn(q, j, t)' PROVE FALSE
      BY Zenon
    <3>2. q # p \/ j # i
      BY <2>2, <3>1, ZenonT(30) DEF HandlerOn
    <3>3. HandlerOn(q, j, t)
      <4>1. <<q, j>> # <<p, i>>
        BY <3>2, ZenonT(30)
      <4>. QED
        BY <1>1, <3>1, <4>1 DEF HandlerOn
    <3>. QED
      BY <2>2, <3>2, <3>3, Zenon DEF Exclusive, OneWorker
  <2>5. ~Owning(t)'
    BY <2>3, <2>4, ZenonT(30) DEF Owning
  <2>6. RemoveItem(t, handler[p][i].item) \/ ReleaseItem(t, handler[p][i].item)
    BY <1>3, <2>1, ZenonT(30) DEF FinishItem
  <2>. QED
    BY <1>0, <1>2, <2>5, <2>6, OthersStay, ItemsStay, KeptOwned, ZenonT(30)
<1>4. CASE ~FinishItem(p, i)
  <2>1. UNCHANGED items
    BY <1>4, Zenon DEF HandlerNext, HandlerReturns, SaveResult, FindResult, DiscardResult, queueVars
  <2>. QED
    BY <1>2, <2>1, KeptOwned, ZenonT(30) DEF HasItem
<1>. QED
  BY <1>3, <1>4, ZenonT(30)

LEMMA NextOwned ==
  ASSUME "purge" \notin Operations, Fenced, Exclusive, Owned, [Next]_vars
  PROVE  Owned'
<1>0. /\ loop \in [Proc -> Loop] /\ handler \in [Proc -> [Slot -> Handler]] /\ QueueTypeOK
  BY DEF Fenced, TypeOK, ProcessorTypeOK
<1>1. CASE (\E p \in Proc : LoopNext(p)) \/ \E p \in Proc, i \in Slot : HandlerNext(p, i)
  BY <1>1, LoopNextOwned, HandlerNextOwned, ZenonT(30)
<1>2. CASE ~((\E p \in Proc : LoopNext(p)) \/ \E p \in Proc, i \in Slot : HandlerNext(p, i))
  <2>1. (\E p \in Proc : Crash(p)) \/ UNCHANGED <<loop, handler>>
    BY <1>2, ZenonT(30) DEF Next, PollReplyLost, LeaseTimeout, RunTimeout, Deadline, ForgetMsgId, procVars, vars
  <2>2. ThreadsKeep
    <3>1. \A p \in Proc : Crash(p) => ThreadsKeep
      <4>. SUFFICES ASSUME NEW p \in Proc, Crash(p), NEW q \in Proc
                    PROVE  LoopKeeps(q) /\ \A i \in Slot : HandlerKeeps(q, i)
        BY Zenon DEF ThreadsKeep
      <4>1. CASE q = p
        <5>1. loop'[p] = Waiting /\ \A i \in Slot : handler'[p][i] = Free
          BY <1>0, Zenon DEF Crash
        <5>2. Waiting.pc = "limiter" /\ Free.pc = "free"
          BY DEF Waiting, Free
        <5>. QED
          BY <4>1, <5>1, <5>2, Zenon DEF LoopKeeps, HandlerKeeps
      <4>2. CASE q # p
        <5>1. loop'[q] = loop[q] /\ handler'[q] = handler[q]
          BY <1>0, <4>2, Zenon DEF Crash
        <5>. QED
          BY <5>1, Zenon DEF LoopKeeps, HandlerKeeps
      <4>. QED
        BY <4>1, <4>2, Zenon
    <3>. QED
      BY <2>1, <3>1, SameThreads, ZenonT(30)
  <2>3. \A t \in Task : HasItem(t) => HasItem(t)'
    <3>1. ASSUME NEW t \in Task, PollReplyLost(t) \/ LeaseTimeout(t)
          PROVE  \A u \in Task : HasItem(u) => HasItem(u)'
      BY <1>0, <3>1, ItemsStay, ZenonT(30) DEF PollReplyLost, LeaseTimeout
    <3>2. ASSUME NEW t \in Task, CreatorNext(t)
          PROVE  \A u \in Task : HasItem(u) => HasItem(u)'
      <4>1. UNCHANGED items \/ \E withId : StoreItem(t, withId)
        BY <3>2, ZenonT(30) DEF CreatorNext, EnqueueTask, SaveEnqueued, PublishEnqueued, CreatorCrash,
           PublishItem, queueVars
      <4>. QED
        BY <1>0, <4>1, ItemsStay, ZenonT(30) DEF HasItem
    <3>3. ASSUME NEW c \in Client, ClientNext(c)
          PROVE  \A u \in Task : HasItem(u) => HasItem(u)'
      <4>1. client[c].pc \in {"idle", "delete"}
        BY DEF Exclusive
      <4>2. UNCHANGED items
        BY <3>3, <4>1, ZenonT(30) DEF ClientNext, RetryTaskByID, DeleteTaskByID, SaveRetried, PublishRetried,
           DeleteFound, ClientCrash, queueVars
      <4>. QED
        BY <4>2, ZenonT(30) DEF HasItem
    <3>4. ASSUME \/ \E p \in Proc : Crash(p)
                 \/ \E t \in Task : RunTimeout(t) \/ Deadline(t) \/ ForgetMsgId(t)
                 \/ UNCHANGED vars
          PROVE  \A u \in Task : HasItem(u) => HasItem(u)'
      <4>1. UNCHANGED items
        BY <3>4, Zenon DEF Crash, RunTimeout, Deadline, ForgetMsgId, DuplicateWindowPasses, vars,
           queueVars
      <4>. QED
        BY <4>1, ZenonT(30) DEF HasItem
    <3>5. ~PurgeQueue
      BY DEF PurgeQueue
    <3>. QED
      BY <1>2, <3>1, <3>2, <3>3, <3>4, <3>5, ZenonT(30) DEF Next
  <2>. QED
    BY <2>2, <2>3, KeptOwned, ZenonT(30)
<1>. QED
  BY <1>1, <1>2, ZenonT(30)

\* The tasks that run are leased to the threads that run them.
LEMMA RunningLeased ==
  ASSUME Fenced, Exclusive, Owned, Pending
  PROVE  InFlightBounded
<1>. DEFINE T == AckPending
            R == Running
            f == [h \in R |-> handler[h[1]][h[2]].task]
<1>1. ASSUME NEW h \in R
      PROVE  /\ h[1] \in Proc /\ h[2] \in Slot /\ h = <<h[1], h[2]>>
             /\ handler[h[1]][h[2]].task \in Task
             /\ HandlerOn(h[1], h[2], handler[h[1]][h[2]].task)
  <2>1. h[1] \in Proc /\ h[2] \in Slot /\ h = <<h[1], h[2]>> /\ handler[h[1]][h[2]].pc = "run"
    BY DEF Running
  <2>2. HandlerFence(h[1], h[2])
    BY <2>1, ZenonT(30) DEF Fenced
  <2>. QED
    BY <2>1, <2>2, Zenon DEF HandlerFence, HandlerOn
<1>2. f \in [R -> T]
  <2>. SUFFICES ASSUME NEW h \in R PROVE handler[h[1]][h[2]].task \in AckPending
    OBVIOUS
  <2>1. PICK t \in Task : t = handler[h[1]][h[2]].task
    BY <1>1, Zenon
  <2>2. Owning(t) /\ LeaseFence(t) /\ HandlerOn(h[1], h[2], t)
    BY <1>1, <2>1, ZenonT(30) DEF Owning, Exclusive
  <2>3. HasItem(t) /\ items[t].leased
    BY <1>1, <2>2, ZenonT(30) DEF Owned, LeaseFence, Leased
  <2>. QED
    BY <2>1, <2>3, Zenon DEF Pending, AckPending
<1>3. IsInjective(f)
  <2>. SUFFICES ASSUME NEW g \in R, NEW h \in R, f[g] = f[h] PROVE g = h
    BY DEF IsInjective
  <2>1. PICK t \in Task : t = handler[h[1]][h[2]].task
    BY <1>1, Zenon
  <2>2. HandlerOn(g[1], g[2], t) /\ HandlerOn(h[1], h[2], t)
    BY <1>1, <2>1, ZenonT(30)
  <2>3. g[1] = h[1] /\ g[2] = h[2]
    BY <1>1, <2>2, SMTT(30) DEF Exclusive, OneWorker
  <2>. QED
    BY <1>1, <2>3, ZenonT(30)
<1>4. IsFiniteSet(T) /\ Cardinality(T) <= MaxConcurrent
  BY ZenonT(30) DEF Pending
<1>5. MaxConcurrent \in Nat
  BY QueueAssumption, ZenonT(30)
<1>6. IsFiniteSet(R) /\ Cardinality(R) <= Cardinality(T)
  <2>. HIDE DEF f, R, T
  <2>1. f \in Injection(R, T)
    BY <1>2, <1>3, ZenonT(30) DEF Injection
  <2>. QED
    BY <1>4, <2>1, FS_Injection, ZenonT(30)
<1>7. Cardinality(R) \in Nat /\ Cardinality(T) \in Nat
  <2>. HIDE DEF R, T
  <2>. QED
    BY <1>4, <1>6, FS_CardinalityType, ZenonT(30)
<1>. QED
  BY <1>4, <1>5, <1>6, <1>7 DEF InFlightBounded

LEMMA InitOwned == Init => Owned
<1>. SUFFICES ASSUME Init PROVE Owned
  OBVIOUS
<1>1. /\ \A p \in Proc : loop[p].pc = "limiter"
      /\ \A p \in Proc : \A i \in Slot : handler[p][i].pc = "free"
  BY DEF Init, ProcessorInit, Waiting, Free
<1>. QED
  BY <1>1, Zenon DEF Owned, Owning, LoopOn, HandlerOn

\* MaxConcurrent of a queue limits the handlers that run at a time, over all
\* the workers: through crashes and lost messages, as long as the threads are
\* not disturbed in their leases and nobody purges the queue under them.
THEOREM InFlightIsBounded ==
  ASSUME Undisturbed, "purge" \notin Operations
  PROVE  Spec => []InFlightBounded
<1>1. Fenced /\ Exclusive /\ [Next]_vars => Exclusive'
  BY NextExclusive, ZenonT(30)
<1>2. Fenced /\ Exclusive /\ Owned /\ [Next]_vars => Owned'
  BY NextOwned, ZenonT(30)
<1>3. Fenced /\ Pending /\ [Next]_vars => Pending'
  BY NextPending, ZenonT(30)
<1>4. Fenced /\ Exclusive /\ Owned /\ Pending => InFlightBounded
  BY RunningLeased, ZenonT(30)
<1>. QED
  BY <1>1, <1>2, <1>3, <1>4, InitExclusive, InitOwned, InitPending, FencedHolds, PTL DEF Spec

----------------------------------------------------------------------------
(***************************************************************************)
(* Deliveries: what bounds the runs of a task whatever fails.              *)
(***************************************************************************)
LEMMA Counting ==
  ASSUME NEW S, IsFiniteSet(S), NEW T, NEW x
  PROVE  /\ Cardinality(S) \in Nat
         /\ T \subseteq S => IsFiniteSet(T) /\ Cardinality(T) \in Nat /\ Cardinality(T) <= Cardinality(S)
         /\ T \subseteq S \cup {x} =>
              IsFiniteSet(T) /\ Cardinality(T) \in Nat /\ Cardinality(T) <= Cardinality(S) + 1
         /\ T \subseteq S \ {x} /\ x \in S =>
              IsFiniteSet(T) /\ Cardinality(T) \in Nat /\ Cardinality(T) + 1 <= Cardinality(S)
<1>1. Cardinality(S) \in Nat
  BY FS_CardinalityType, ZenonT(30)
<1>2. ASSUME NEW R, IsFiniteSet(R), T \subseteq R
      PROVE  IsFiniteSet(T) /\ Cardinality(T) \in Nat /\ Cardinality(T) <= Cardinality(R)
  BY <1>2, FS_Subset, FS_CardinalityType, ZenonT(30)
<1>3. IsFiniteSet(S \cup {x}) /\ Cardinality(S \cup {x}) \in {Cardinality(S), Cardinality(S) + 1}
  BY FS_AddElement, ZenonT(30)
<1>4. IsFiniteSet(S \ {x}) /\ (x \in S => Cardinality(S \ {x}) = Cardinality(S) - 1)
  BY FS_RemoveElement, ZenonT(30)
<1>5. T \subseteq S \cup {x} =>
        IsFiniteSet(T) /\ Cardinality(T) \in Nat /\ Cardinality(T) <= Cardinality(S) + 1
  BY <1>1, <1>2, <1>3, SMTT(30)
<1>6. T \subseteq S \ {x} /\ x \in S =>
        IsFiniteSet(T) /\ Cardinality(T) \in Nat /\ Cardinality(T) + 1 <= Cardinality(S)
  BY <1>1, <1>2, <1>4, SMTT(30)
<1>. QED
  BY <1>1, <1>2, <1>5, <1>6, ZenonT(30)

LEMMA OneItemMore ==
  ASSUME NEW q \in Nat, NEW n \in Nat, n > 0
  PROVE  q * (n - 1) \in Nat /\ q * n \in Nat /\ q * (n - 1) + q = q * n
  OBVIOUS

\* No step takes deliveries back, and a delivery adds one: an item that leaves
\* the queue, or is replaced, had no more than MaxDeliver.
LEMMA DeliveriesGrow ==
  ASSUME QueueMaxTries > 0, Fenced, [Next]_vars, NEW t \in Task, DeliveryFence(t)
  PROVE  /\ HasItem(t)' => lastItem'[t] > 0 /\ items'[t].deliveries <= QueueMaxTries
         /\ Delivered(t) \in Nat /\ Delivered(t)' \in Nat /\ Delivered(t)' >= Delivered(t)
         /\ Deliver(t) => Delivered(t)' = Delivered(t) + 1
<1>0. /\ QueueMaxTries \in Nat /\ items \in [Task -> Item] /\ lastItem \in [Task -> Nat]
  BY QueueAssumption DEF Fenced, TypeOK, QueueTypeOK
<1>. DEFINE Of(seq, n, d) == IF seq # 0 THEN QueueMaxTries * (n - 1) + d ELSE QueueMaxTries * n
<1>1. PICK seq, n, d : seq = items[t].seq /\ n = lastItem[t] /\ d = items[t].deliveries
  BY Zenon
<1>2. /\ seq \in Nat /\ n \in Nat /\ d \in Nat /\ (seq # 0 => n > 0 /\ d <= QueueMaxTries)
      /\ HasItem(t) <=> seq # 0
  BY <1>0, <1>1, ZenonT(30) DEF DeliveryFence, HasItem, Item
<1>3. PICK seq1, n1, d1 : seq1 = items'[t].seq /\ n1 = lastItem'[t] /\ d1 = items'[t].deliveries
  BY Zenon
<1>4. Delivered(t) = Of(seq, n, d) /\ Delivered(t)' = Of(seq1, n1, d1)
  BY <1>1, <1>3, ZenonT(30) DEF Delivered, HasItem
<1>5. ASSUME Deliver(t) PROVE seq # 0 /\ seq1 = seq /\ n1 = n /\ d1 = d + 1 /\ d1 <= QueueMaxTries
  BY <1>0, <1>1, <1>2, <1>3, <1>5, SMTT(30) DEF Deliver, Deliverable, Item
<1>6. \/ seq1 = seq /\ n1 = n /\ d1 = d
      \/ seq # 0 /\ seq1 = seq /\ n1 = n /\ d1 = d + 1 /\ d1 <= QueueMaxTries
      \/ seq1 = 0 /\ n1 = n
      \/ seq1 = n + 1 /\ n1 = n + 1 /\ d1 = 0
  <2>1. CASE UNCHANGED <<items, lastItem>>
    BY <1>1, <1>3, <2>1, ZenonT(30)
  <2>2. CASE Purge
    BY <1>1, <1>3, <2>2, ZenonT(30) DEF Purge, NoItem
  <2>3. ASSUME NEW u \in Task, Deliver(u)
        PROVE  seq1 = seq /\ n1 = n /\ (d1 = d \/ u = t)
    BY <1>0, <1>1, <1>3, <2>3, ZenonT(30) DEF Deliver, Item
  <2>4. ASSUME NEW u \in Task, LeaseExpires(u) \/ \E s \in Nat : ReleaseItem(u, s)
        PROVE  seq1 = seq /\ n1 = n /\ d1 = d
    BY <1>0, <1>1, <1>3, <2>4, SMTT(30) DEF LeaseExpires, ReleaseItem, Item, queueVars
  <2>5. ASSUME NEW u \in Task, NEW s \in Nat, RemoveItem(u, s)
        PROVE  n1 = n /\ (seq1 = 0 \/ (seq1 = seq /\ d1 = d))
    BY <1>0, <1>1, <1>3, <2>5, SMTT(30) DEF RemoveItem, NoItem, Item, queueVars
  <2>6. ASSUME NEW u \in Task, NEW withId, StoreItem(u, withId)
        PROVE  (seq1 = seq /\ n1 = n /\ d1 = d) \/ (seq1 = n + 1 /\ n1 = n + 1 /\ d1 = 0)
    BY <1>0, <1>1, <1>3, <2>6, ZenonT(30) DEF StoreItem, Item
  <2>. QED
    BY <1>5, <2>1, <2>2, <2>3, <2>4, <2>5, <2>6, QueueSteps, ZenonT(30)
<1>7. n1 \in Nat /\ n1 >= n
  BY <1>2, <1>6, SMTT(30)
<1>8. /\ n > 0 => QueueMaxTries * (n - 1) \in Nat /\ QueueMaxTries * (n - 1) + QueueMaxTries = QueueMaxTries * n
      /\ QueueMaxTries * n \in Nat
  BY <1>0, <1>2, OneItemMore, SMTT(30)
<1>9. seq1 # 0 => n1 > 0 /\ d1 <= QueueMaxTries
  BY <1>0, <1>2, <1>6, SMTT(30)
<1>10. Of(seq, n, d) \in Nat
  BY <1>0, <1>2, <1>8, SMTT(30)
<1>11. Of(seq1, n1, d1) \in Nat /\ Of(seq1, n1, d1) >= Of(seq, n, d)
  <2>1. CASE seq1 = n + 1 /\ n1 = n + 1 /\ d1 = 0
    <3>1. Of(seq1, n1, d1) = QueueMaxTries * n
      <4>1. n1 - 1 = n /\ seq1 # 0
        BY <1>2, <2>1, SMTT(30)
      <4>. QED
        BY <1>8, <2>1, <4>1, SMTT(30)
    <3>. QED
      BY <1>0, <1>2, <1>8, <3>1, SMTT(30)
  <2>2. CASE seq1 = 0 /\ n1 = n
    BY <1>0, <1>2, <1>8, <2>2, SMTT(30)
  <2>3. CASE seq1 = seq /\ n1 = n /\ (d1 = d \/ (seq # 0 /\ d1 = d + 1))
    BY <1>0, <1>2, <1>8, <2>3, SMTT(30)
  <2>. QED
    BY <1>6, <2>1, <2>2, <2>3, ZenonT(30)
<1>12. Deliver(t) => Of(seq1, n1, d1) = Of(seq, n, d) + 1
  BY <1>0, <1>2, <1>5, <1>8, SMTT(30)
<1>. HIDE DEF Of
<1>. QED
  BY <1>3, <1>4, <1>9, <1>10, <1>11, <1>12, ZenonT(30) DEF HasItem

\* A loop comes to pursue a task only by a delivery.
LEMMA PursuersPolled ==
  ASSUME Fenced, [Next]_vars, NEW t \in Task, NEW p \in Pursuers(t)', p \notin Pursuers(t)
  PROVE  PollItem(p, t)
<1>1. p \in Proc /\ LoopOn(p, t)' /\ loop'[p].pc \in Pursuing
  BY DEF Pursuers, Pursuing
<1>2. CASE ~LoopOn(p, t)
  BY <1>1, <1>2, LoopTakesUp, ZenonT(30)
<1>3. CASE LoopOn(p, t)
  <2>1. loop[p].pc \notin Pursuing \cup {"limiter", "poll"}
    BY <1>1, <1>3, ZenonT(30) DEF Pursuers, Pursuing, LoopOn
  <2>2. LoopNext(p)
    BY <1>1, <2>1, LoopSteps, SMTT(30) DEF Waiting, Pursuing
  <2>3. \A u \in Task : ~PollItem(p, u)
    BY <2>1, ZenonT(30) DEF PollItem
  <2>. QED
    BY <1>1, <2>1, <2>2, <2>3, LoopMoves, ZenonT(30) DEF LoopKeeps, Pursuing
<1>. QED
  BY <1>2, <1>3, ZenonT(30)

LEMMA Sums ==
  ASSUME NEW r \in Nat, NEW s \in Nat, NEW c \in Nat, NEW d \in Nat, NEW e \in Nat, r + s <= d
  PROVE  /\ e >= d /\ c <= s => r + c <= e
         /\ e = d + 1 /\ c <= s + 1 => r + c <= e
         /\ e >= d /\ c + 1 <= s => (r + 1) + c <= e
  OBVIOUS

\* A run is taken from the loops that pursue the task, a new pursuit from the
\* deliveries.
LEMMA NextDelivery ==
  ASSUME QueueMaxTries > 0, Fenced, [Next]_vars, Counts, DeliveriesFenced, NEW t \in Task
  PROVE  DeliveryFence(t)'
<1>0. /\ DeliveryFence(t) /\ runs[t] \in Nat /\ loop \in [Proc -> Loop]
      /\ runs'[t] = runs[t] + (IF Starts(t) THEN 1 ELSE 0)
  BY ZenonT(30) DEF DeliveriesFenced, Counts, Fenced, TypeOK, ProcessorTypeOK
<1>r. runs'[t] = IF Starts(t) THEN runs[t] + 1 ELSE runs[t]
  BY <1>0
<1>1. PICK S, T, D, E : S = Pursuers(t) /\ T = Pursuers(t)' /\ D = Delivered(t) /\ E = Delivered(t)'
  BY Zenon
<1>2. IsFiniteSet(S) /\ runs[t] + Cardinality(S) <= D
  BY <1>0, <1>1, ZenonT(30) DEF DeliveryFence
<1>3. /\ HasItem(t)' => lastItem'[t] > 0 /\ items'[t].deliveries <= QueueMaxTries
      /\ D \in Nat /\ E \in Nat /\ E >= D /\ (Deliver(t) => E = D + 1)
  BY <1>0, <1>1, DeliveriesGrow, ZenonT(30)
<1>4. CASE Starts(t)
  <2>1. PICK q \in Proc, i \in Slot :
          handler[q][i].pc = "free" /\ handler'[q][i].pc = "run" /\ handler'[q][i].task = t
    BY <1>4, ZenonT(30) DEF Starts
  <2>2. SetTaskActive(q) /\ loop[q].task = t
    BY <2>1, HandlerTakesUp, ZenonT(30)
  <2>3. q \in S /\ T \subseteq S \ {q}
    <3>1. loop[q].pc = "activate" /\ loop' = [loop EXCEPT ![q] = Waiting]
      BY <2>2, ZenonT(30) DEF SetTaskActive, EndMessage
    <3>. QED
      BY <1>0, <1>1, <2>2, <3>1, ZenonT(30) DEF Pursuers, LoopOn, Waiting
  <2>4. IsFiniteSet(T) /\ Cardinality(T) \in Nat /\ Cardinality(S) \in Nat
        /\ Cardinality(T) + 1 <= Cardinality(S)
    BY <1>2, <2>3, Counting, ZenonT(30)
  <2>5. runs'[t] + Cardinality(T) <= E
    BY <1>0, <1>r, <1>2, <1>3, <1>4, <2>4, Sums, ZenonT(30)
  <2>. QED
    BY <1>1, <1>3, <2>4, <2>5, ZenonT(30) DEF DeliveryFence
<1>5. CASE ~Starts(t) /\ \E p \in Proc : PollItem(p, t)
  <2>1. PICK p \in Proc : PollItem(p, t)
    BY <1>5, ZenonT(30)
  <2>2. T \subseteq S \cup {p} /\ Deliver(t)
    BY <1>0, <1>1, <2>1, ZenonT(30) DEF PollItem, Pursuers, LoopOn
  <2>3. IsFiniteSet(T) /\ Cardinality(T) \in Nat /\ Cardinality(S) \in Nat
        /\ Cardinality(T) <= Cardinality(S) + 1
    BY <1>2, <2>2, Counting, ZenonT(30)
  <2>4. runs'[t] + Cardinality(T) <= E
    BY <1>0, <1>r, <1>2, <1>3, <1>5, <2>2, <2>3, Sums, ZenonT(30)
  <2>. QED
    BY <1>1, <1>3, <2>3, <2>4, ZenonT(30) DEF DeliveryFence
<1>6. CASE ~Starts(t) /\ \A p \in Proc : ~PollItem(p, t)
  <2>1. T \subseteq S
    BY <1>1, <1>6, PursuersPolled, ZenonT(30) DEF Pursuers
  <2>2. IsFiniteSet(T) /\ Cardinality(T) \in Nat /\ Cardinality(S) \in Nat
        /\ Cardinality(T) <= Cardinality(S)
    BY <1>2, <2>1, Counting, ZenonT(30)
  <2>3. runs'[t] + Cardinality(T) <= E
    BY <1>0, <1>r, <1>2, <1>3, <1>6, <2>2, Sums, ZenonT(30)
  <2>. QED
    BY <1>1, <1>3, <2>2, <2>3, ZenonT(30) DEF DeliveryFence
<1>. QED
  BY <1>4, <1>5, <1>6, ZenonT(30)

LEMMA InitDeliveries == QueueMaxTries > 0 /\ HistoryInit => DeliveriesFenced
<1>. SUFFICES ASSUME QueueMaxTries > 0, HistoryInit PROVE DeliveriesFenced
  OBVIOUS
<1>1. runs = [t \in Task |-> 0] /\ QueueMaxTries \in Nat
  BY QueueAssumption, SMTT(30) DEF HistoryInit
<1>2. ASSUME NEW t \in Task PROVE DeliveryFence(t)
  <2>1. ~HasItem(t) /\ lastItem[t] = 0
    BY ZenonT(30) DEF HistoryInit, Init, QueueInit, NoItem, HasItem
  <2>2. Pursuers(t) = {}
    BY ZenonT(30) DEF HistoryInit, Init, ProcessorInit, Waiting, Pursuers, LoopOn
  <2>3. IsFiniteSet(Pursuers(t)) /\ Cardinality(Pursuers(t)) = 0
    BY <2>2, FS_EmptySet, ZenonT(30)
  <2>4. Delivered(t) = 0
    BY <1>1, <2>1, SMTT(30) DEF Delivered
  <2>. QED
    BY <1>1, <2>1, <2>3, <2>4, SMTT(30) DEF DeliveryFence
<1>. QED
  BY <1>1, <1>2, ZenonT(30) DEF DeliveriesFenced

\* Whatever crashes, is slow or gets lost, and whoever discards, deletes, retries
\* or enqueues tasks meanwhile: the handlers started for a task are at most as
\* many as MaxDeliver of the queue's consumer allows for the items published.
THEOREM DeliveriesBoundRuns == HistorySpec => []RunsWithinDeliveries
<1>1. CASE QueueMaxTries > 0
  <2>1. Fenced /\ DeliveriesFenced /\ [HistoryNext]_historyVars => DeliveriesFenced'
    <3>. SUFFICES ASSUME Fenced, DeliveriesFenced, [HistoryNext]_historyVars PROVE DeliveriesFenced'
      OBVIOUS
    <3>1. CASE HistoryNext
      <4>1. [Next]_vars /\ Counts
        BY <3>1, ZenonT(30) DEF HistoryNext, Counts
      <4>2. runs' \in [Task -> Nat]
        BY <4>1, SMTT(30) DEF Counts, DeliveriesFenced
      <4>. QED
        BY <1>1, <4>1, <4>2, NextDelivery, ZenonT(30) DEF DeliveriesFenced
    <3>2. CASE UNCHANGED historyVars
      <4>1. UNCHANGED <<items, lastItem, loop, runs>>
        BY <3>2, ZenonT(30) DEF historyVars, vars, queueVars, procVars
      <4>. QED
        BY <4>1, ZenonT(30) DEF DeliveriesFenced, DeliveryFence, Pursuers, LoopOn, Delivered, HasItem
    <3>. QED
      BY <3>1, <3>2, ZenonT(30)
  <2>2. Fenced /\ DeliveriesFenced => RunsWithinDeliveries
    <3>. SUFFICES ASSUME Fenced, DeliveriesFenced, NEW t \in Task
                  PROVE  runs[t] <= QueueMaxTries * lastItem[t]
      BY ZenonT(30) DEF RunsWithinDeliveries
    <3>1. PICK q, n, d, c, r : q = QueueMaxTries /\ n = lastItem[t] /\ d = items[t].deliveries
                                /\ c = Cardinality(Pursuers(t)) /\ r = runs[t]
      BY Zenon
    <3>2. /\ q \in Nat /\ n \in Nat /\ d \in Nat /\ c \in Nat /\ r \in Nat
          /\ HasItem(t) => n > 0 /\ d <= q
          /\ r + c <= IF HasItem(t) THEN q * (n - 1) + d ELSE q * n
      <4>1. q \in Nat /\ n \in Nat /\ d \in Nat
        BY <1>1, <3>1, QueueAssumption, SMTT(30) DEF Fenced, TypeOK, QueueTypeOK, Item
      <4>2. c \in Nat /\ r \in Nat
        BY <3>1, FS_CardinalityType, ZenonT(30) DEF DeliveriesFenced, DeliveryFence
      <4>. QED
        BY <3>1, <4>1, <4>2, ZenonT(30) DEF DeliveriesFenced, DeliveryFence, Delivered
    <3>3. q * n \in Nat /\ (n > 0 => q * (n - 1) \in Nat /\ q * (n - 1) + q = q * n)
      BY <3>2, OneItemMore, SMTT(30)
    <3>. QED
      BY <3>1, <3>2, <3>3, SMTT(30)
  <2>. QED
    BY <1>1, <2>1, <2>2, InitDeliveries, HistoryIsSpec, FencedHolds, PTL DEF HistorySpec
<1>2. CASE ~(QueueMaxTries > 0)
  <2>1. RunsWithinDeliveries
    BY <1>2, ZenonT(30) DEF RunsWithinDeliveries
  <2>. QED
    BY <2>1, PTL
<1>. QED
  BY <1>1, <1>2, ZenonT(30)

----------------------------------------------------------------------------
(***************************************************************************)
(* The tries a task records, whatever fails.                               *)
(***************************************************************************)
\* What a write does to the tries of a task: only the handler that holds the
\* stored record counts one more.
LEMMA TriesWritten ==
  ASSUME Fenced, Fenced', [Next]_vars, NEW t \in Task, tasks'[t] # tasks[t]
  PROVE  /\ tasks'[t].seq = 0 \/ tasks'[t].seq = lastSeq[t] + 1
         /\ \/ tasks'[t].tries \in {0, tasks[t].tries}
            \/ \E p \in Proc : \E i \in Slot :
                 /\ handler[p][i].pc = "save" /\ handler[p][i].task = t
                 /\ handler[p][i].rec.seq = tasks[t].seq
                 /\ tasks'[t].tries = tasks[t].tries + 1 /\ loop' = loop
<1>0. /\ StoreTypeOK /\ tasks \in [Task -> Record]
      /\ \A p \in Proc : LoopFence(p) /\ loop[p].rec \in Record
      /\ \A p \in Proc : \A i \in Slot : HandlerFence(p, i) /\ handler[p][i].rec \in Record
      /\ CreatorFence(t) /\ creator[t].rec \in Record
      /\ \A c \in Client : ClientFence(c) /\ client[c].rec \in Record
  <2>1. /\ StoreTypeOK /\ tasks \in [Task -> Record] /\ CreatorFence(t)
        /\ \A p \in Proc : LoopFence(p)
        /\ \A p \in Proc : \A i \in Slot : HandlerFence(p, i)
        /\ \A c \in Client : ClientFence(c)
    BY Zenon DEF Fenced, TypeOK, StoreTypeOK
  <2>2. /\ \A p \in Proc : loop[p].rec \in Record
        /\ \A p \in Proc : \A i \in Slot : handler[p][i].rec \in Record
    BY Zenon DEF Fenced, TypeOK, ProcessorTypeOK, Loop, Handler
  <2>3. creator[t].rec \in Record /\ \A c \in Client : client[c].rec \in Record
    BY Zenon DEF Fenced, TypeOK, ClientTypeOK, Creator, Caller
  <2>. QED
    BY <2>1, <2>2, <2>3, Zenon
<1>1. ASSUME NEW u \in Task, NEW r \in Record, Accept(u, r)
      PROVE  u = t /\ tasks'[t].seq = lastSeq[t] + 1 /\ tasks'[t].tries = r.tries /\ r.seq = tasks[t].seq
  <2>1. u = t
    BY <1>0, <1>1, AcceptWrites, Zenon
  <2>2. PICK n : n = lastSeq[t] + 1
    BY Zenon
  <2>3. tasks'[t] = [r EXCEPT !.seq = n]
    BY <1>0, <1>1, <2>1, <2>2, Zenon DEF Accept
  <2>4. tasks'[t].seq = n /\ tasks'[t].tries = r.tries
    BY <2>3, Zenon DEF Record
  <2>. QED
    BY <1>1, <2>1, <2>2, <2>4, Zenon DEF Accept
<1>2. ASSUME NEW u \in Task, NEW r \in Record, NEW ok, SaveTaskState(u, r, ok)
      PROVE  u = t /\ tasks'[t].seq = lastSeq[t] + 1 /\ tasks'[t].tries = r.tries /\ r.seq = tasks[t].seq
  <2>1. Accept(u, r)
    BY <1>2, Zenon DEF SaveTaskState, storeVars
  <2>. QED
    BY <1>1, <2>1, Zenon
<1>3. ASSUME NEW p \in Proc, SaveTask(p) PROVE tasks'[t].seq = lastSeq[t] + 1 /\ tasks'[t].tries = tasks[t].tries
  <2>1. loop[p].pc = "save" /\ loop[p].task \in Task
    BY <1>0, <1>3, Zenon DEF SaveTask, LoopFence
  <2>2. PICK ok \in BOOLEAN : SaveTaskState(loop[p].task, loop[p].rec, ok)
    BY <1>3, Zenon DEF SaveTask
  <2>3. /\ loop[p].task = t /\ tasks'[t].seq = lastSeq[t] + 1 /\ tasks'[t].tries = loop[p].rec.tries
        /\ loop[p].rec.seq = tasks[t].seq
    BY <1>0, <1>2, <2>1, <2>2, Zenon
  <2>4. loop[p].rec.tries = tasks[t].tries
    BY <1>0, <2>1, <2>3, Zenon DEF LoopFence
  <2>. QED
    BY <2>3, <2>4, Zenon
<1>4. ASSUME NEW p \in Proc, SetTaskActive(p) PROVE tasks'[t].seq = lastSeq[t] + 1 /\ tasks'[t].tries = tasks[t].tries
  <2>1. loop[p].pc = "activate" /\ loop[p].task \in Task
    BY <1>0, <1>4, Zenon DEF SetTaskActive, LoopFence
  <2>2. PICK r : r = [loop[p].rec EXCEPT !.state = "active"]
    BY Zenon
  <2>3. r \in Record /\ r.seq = loop[p].rec.seq /\ r.tries = loop[p].rec.tries
    BY <1>0, <2>2, Zenon DEF Record, TaskState
  <2>4. PICK ok \in BOOLEAN : SaveTaskState(loop[p].task, r, ok)
    BY <1>4, <2>2, Zenon DEF SetTaskActive
  <2>5. /\ loop[p].task = t /\ tasks'[t].seq = lastSeq[t] + 1 /\ tasks'[t].tries = loop[p].rec.tries
        /\ loop[p].rec.seq = tasks[t].seq
    BY <1>2, <2>1, <2>3, <2>4, Zenon
  <2>6. loop[p].rec.tries = tasks[t].tries
    BY <1>0, <2>1, <2>5, Zenon DEF LoopFence
  <2>. QED
    BY <2>5, <2>6, Zenon
<1>5. ASSUME NEW p \in Proc, NEW i \in Slot, SaveResult(p, i), HandlerOn(p, i, t), Accept(t, handler[p][i].rec)
      PROVE  /\ tasks'[t].seq = lastSeq[t] + 1
             /\ handler[p][i].pc = "save" /\ handler[p][i].task = t
             /\ handler[p][i].rec.seq = tasks[t].seq
             /\ tasks'[t].tries = tasks[t].tries + 1 /\ loop' = loop
  <2>1. handler[p][i].pc = "save" /\ handler[p][i].task = t /\ loop' = loop
    BY <1>5, Zenon DEF SaveResult, HandlerOn
  <2>2. /\ tasks'[t].seq = lastSeq[t] + 1 /\ tasks'[t].tries = handler[p][i].rec.tries
        /\ handler[p][i].rec.seq = tasks[t].seq
    BY <1>0, <1>1, <1>5, Zenon
  <2>3. handler[p][i].rec.tries = tasks[t].tries + 1
    BY <1>0, <2>1, <2>2, Zenon DEF HandlerFence
  <2>. QED
    BY <2>1, <2>2, <2>3, Zenon
<1>6. ASSUME Accept(t, creator[t].rec) PROVE tasks'[t].seq = lastSeq[t] + 1 /\ tasks'[t].tries = 0
  BY <1>0, <1>1, <1>6, Zenon DEF CreatorFence
<1>7. ASSUME NEW c \in Client, SaveRetried(c)
      PROVE  tasks'[t].seq = lastSeq[t] + 1 /\ tasks'[t].tries = tasks[t].tries
  <2>1. client[c].pc \in {"save", "queueError"} /\ client[c].task \in Task
    BY <1>0, <1>7, Zenon DEF SaveRetried, ClientFence
  <2>2. PICK ok \in BOOLEAN : SaveTaskState(client[c].task, client[c].rec, ok)
    BY <1>7, Zenon DEF SaveRetried
  <2>3. /\ client[c].task = t /\ tasks'[t].seq = lastSeq[t] + 1 /\ tasks'[t].tries = client[c].rec.tries
        /\ client[c].rec.seq = tasks[t].seq
    BY <1>0, <1>2, <2>1, <2>2, Zenon
  <2>4. client[c].rec.tries = tasks[t].tries
    BY <1>0, <2>1, <2>3, Zenon DEF ClientFence
  <2>. QED
    BY <2>3, <2>4, Zenon
<1>8. ASSUME tasks'[t].state = "unknown" PROVE tasks'[t].seq = 0 /\ tasks'[t].tries = 0
  <2>1. StoreFence(t)'
    BY Zenon DEF Fenced
  <2>. QED
    BY <1>8, <2>1, Zenon DEF StoreFence
<1>. QED
  BY <1>3, <1>4, <1>5, <1>6, <1>7, <1>8, Writers, ZenonT(30)

LEMMA RunsGrow ==
  ASSUME Counts, runs \in [Task -> Nat], NEW t \in Task
  PROVE  /\ runs'[t] \in Nat /\ runs'[t] >= runs[t]
         /\ Starts(t) => runs'[t] = runs[t] + 1
<1>1. runs'[t] = IF Starts(t) THEN runs[t] + 1 ELSE runs[t]
  BY DEF Counts
<1>2. runs[t] \in Nat
  OBVIOUS
<1>. QED
  BY <1>1, <1>2

LEMMA TrySums ==
  ASSUME NEW a \in Nat, NEW b \in Nat, NEW c \in Nat
  PROVE  /\ a <= b /\ c >= b => a <= c
         /\ a + 1 <= b /\ c >= b => a + 1 <= c
         /\ a <= b => a + 1 <= b + 1
         /\ 0 <= a /\ 0 + 1 <= a + 1
  OBVIOUS

LEMMA NextTries ==
  ASSUME Fenced, Fenced', TriesFenced, [Next]_vars, Counts, NEW t \in Task
  PROVE  TriesFence(t)'
<1>0. /\ runs \in [Task -> Nat] /\ TriesFence(t) /\ runs[t] \in Nat /\ tasks[t].tries \in Nat
      /\ tasks[t].tries <= runs[t]
  <2>1. tasks[t] \in Record
    BY ZenonT(30) DEF Fenced, TypeOK, StoreTypeOK
  <2>2. tasks[t].tries \in Nat
    BY <2>1, ZenonT(30) DEF Record
  <2>. QED
    BY <2>2, ZenonT(30) DEF TriesFenced, TriesFence
<1>1. runs'[t] \in Nat /\ runs'[t] >= runs[t] /\ (Starts(t) => runs'[t] = runs[t] + 1)
  BY <1>0, RunsGrow, Zenon
<1>2. tasks'[t].tries <= runs'[t]
  <2>1. CASE tasks'[t] = tasks[t] \/ tasks'[t].tries \in {0, tasks[t].tries}
    BY <1>0, <1>1, <2>1, TrySums, Zenon
  <2>2. ASSUME NEW p \in Proc, NEW i \in Slot, handler[p][i].pc = "save", handler[p][i].task = t,
               handler[p][i].rec.seq = tasks[t].seq, tasks'[t].tries = tasks[t].tries + 1
        PROVE  tasks'[t].tries <= runs'[t]
    <3>1. tasks[t].tries + 1 <= runs[t]
      BY <1>0, <2>2, Zenon DEF TriesFence
    <3>2. tasks[t].tries + 1 <= runs'[t]
      BY <1>0, <1>1, <3>1, TrySums, Zenon
    <3>. QED
      BY <2>2, <3>2, Zenon
  <2>. QED
    BY <2>1, <2>2, TriesWritten, ZenonT(30)
<1>3. ASSUME NEW p \in Proc, NEW i \in Slot, handler'[p][i].pc \in {"run", "save"}, handler'[p][i].task = t,
             handler'[p][i].rec.seq = tasks'[t].seq
      PROVE  tasks'[t].tries + 1 <= runs'[t]
  <2>1. CASE /\ handler[p][i].pc \in {"run", "save"} /\ handler'[p][i].task = handler[p][i].task
             /\ handler'[p][i].rec.seq = handler[p][i].rec.seq
    <3>1. handler[p][i].rec.seq \in 1..lastSeq[t] /\ lastSeq[t] \in Nat
      BY <1>3, <2>1, Zenon DEF Fenced, HandlerFence, TypeOK, StoreTypeOK
    <3>2. handler[p][i].rec.seq # 0 /\ handler[p][i].rec.seq # lastSeq[t] + 1
      BY <3>1
    <3>3. tasks'[t] = tasks[t]
      BY <1>3, <2>1, <3>2, TriesWritten, Zenon
    <3>4. tasks[t].tries + 1 <= runs[t]
      BY <1>0, <1>3, <2>1, <3>3, Zenon DEF TriesFence
    <3>. QED
      BY <1>0, <1>1, <3>3, <3>4, TrySums, Zenon
  <2>2. CASE /\ SetTaskActive(p) /\ handler[p][i].pc = "free"
             /\ handler'[p][i].pc = "run" /\ handler'[p][i].task = loop[p].task
    <3>1. Starts(t)
      BY <1>3, <2>2, Zenon DEF Starts
    <3>2. loop' # loop
      <4>1. loop[p].pc = "activate" /\ loop' = [loop EXCEPT ![p] = Waiting] /\ loop \in [Proc -> Loop]
        BY <2>2, Zenon DEF SetTaskActive, EndMessage, Fenced, TypeOK, ProcessorTypeOK
      <4>. QED
        BY <4>1, SMTT(30) DEF Waiting
    <3>3. tasks'[t].tries \in {0, tasks[t].tries}
      BY <3>2, TriesWritten, Zenon
    <3>4. 0 + 1 <= runs[t] + 1 /\ tasks[t].tries + 1 <= runs[t] + 1
      BY <1>0, TrySums, ZenonT(30)
    <3>. QED
      BY <1>1, <3>1, <3>3, <3>4, Zenon
  <2>. QED
    BY <1>3, <2>1, <2>2, HandlerTakesUp, Zenon
<1>. QED
  BY <1>2, <1>3, Zenon DEF TriesFence

LEMMA NextTriesFenced == Fenced /\ Fenced' /\ TriesFenced /\ [HistoryNext]_historyVars => TriesFenced'
<1>. SUFFICES ASSUME Fenced, Fenced', TriesFenced, [HistoryNext]_historyVars PROVE TriesFenced'
  OBVIOUS
<1>1. CASE HistoryNext
  <2>1. [Next]_vars /\ Counts
    BY <1>1, Zenon DEF HistoryNext, Counts
  <2>2. runs' \in [Task -> Nat]
    BY <2>1, SMTT(30) DEF Counts, TriesFenced
  <2>. QED
    BY <2>1, <2>2, NextTries, ZenonT(30) DEF TriesFenced
<1>2. CASE UNCHANGED historyVars
  <2>1. UNCHANGED <<tasks, handler, runs>>
    BY <1>2, ZenonT(30) DEF historyVars, vars, storeVars, procVars
  <2>. QED
    BY <2>1, Zenon DEF TriesFenced, TriesFence
<1>. QED
  BY <1>1, <1>2, ZenonT(30)

LEMMA InitTries == HistoryInit => TriesFenced
<1>. SUFFICES ASSUME HistoryInit PROVE TriesFenced
  OBVIOUS
<1>1. runs = [t \in Task |-> 0] /\ \A t \in Task : tasks[t].tries = 0
  BY ZenonT(30) DEF HistoryInit, Init, StoreInit, NoRecord
<1>2. \A p \in Proc : \A i \in Slot : handler[p][i].pc = "free"
  BY DEF HistoryInit, Init, ProcessorInit, Free
<1>. QED
  BY <1>1, <1>2, SMTT(30) DEF TriesFenced, TriesFence

LEMMA TriesFencedHolds == HistorySpec => []TriesFenced
  BY NextTriesFenced, InitTries, HistoryIsSpec, FencedHolds, PTL DEF HistorySpec

\* Whatever crashes, is slow or gets lost, and whoever enqueues, retries or
\* discards meanwhile, a task never records more tries than handlers were
\* started for it: a handler saves its try over the record it was started with,
\* so a save that is repeated or late counts nothing.
THEOREM TriesNeedRuns == HistorySpec => []TriesWithinRuns
<1>1. TriesFenced => TriesWithinRuns
  BY DEF TriesFenced, TriesFence, TriesWithinRuns
<1>. QED
  BY <1>1, TriesFencedHolds, PTL

\* A task that is enqueued once and never retried has one item, whatever the
\* creator is told about it.
LEMMA NextOneItem ==
  ASSUME PublishedOnce, Fenced, [Next]_vars, OneItemEach
  PROVE  OneItemEach'
<1>0. /\ client \in [Client -> Caller] /\ NoCall.pc = "idle" /\ MaxEnqueues \in Nat /\ MaxEnqueues <= 1
      /\ lastItem \in [Task -> Nat]
  BY ClientAssumption, ZenonT(30) DEF Fenced, TypeOK, ClientTypeOK, QueueTypeOK, NoCall, PublishedOnce
<1>1. ASSUME NEW d \in Client
      PROVE  ~SaveRetried(d) /\ ~PublishRetried(d) /\ \A t \in Task : ~RetryTaskByID(d, t)
  <2>1. client[d].pc \in {"idle", "delete"}
    BY Zenon DEF OneItemEach
  <2>. QED
    BY <2>1, Zenon DEF SaveRetried, PublishRetried, RetryTaskByID, Call, PublishedOnce
<1>2. ASSUME NEW c \in Client PROVE client'[c].pc \in {"idle", "delete"}
  <2>0. client[c].pc \in {"idle", "delete"}
    BY Zenon DEF OneItemEach
  <2>1. ASSUME NEW d \in Client, ClientNext(d) PROVE client'[c].pc \in {"idle", "delete"}
    <3>1. \/ client' = [client EXCEPT ![d] = NoCall]
          \/ \E t \in Task : client' = [client EXCEPT ![d] = [pc |-> "delete", task |-> t, rec |-> tasks[t]]]
      BY <1>1, <2>1, Zenon DEF ClientNext, DeleteTaskByID, DeleteFound, ClientCrash
    <3>. QED
      BY <1>0, <2>0, <3>1, SMTT(30)
  <2>2. ASSUME NEW t \in Task, CreatorNext(t) PROVE client' = client
    BY <2>2, Zenon DEF CreatorNext, EnqueueTask, SaveEnqueued, PublishEnqueued, CreatorCrash
  <2>3. ASSUME \/ UNCHANGED clientVars \/ UNCHANGED vars \/ PurgeQueue
               \/ \E u \in Task : LeaseTimeout(u) \/ RunTimeout(u) \/ Deadline(u) \/ ForgetMsgId(u)
        PROVE  client' = client
    BY <2>3, Zenon DEF PurgeQueue, LeaseTimeout, RunTimeout, Deadline, ForgetMsgId, clientVars, vars
  <2>. QED
    BY <2>0, <2>1, <2>2, <2>3, ZenonT(30) DEF Next
<1>3. ASSUME NEW t \in Task PROVE OneItem(t)'
  <2>. DEFINE k == creator[t]
              l == creator'[t]
  <2>0. OneItem(t) /\ lastItem[t] \in Nat /\ k.calls \in Nat
    BY <1>0, ZenonT(30) DEF OneItemEach, Fenced, TypeOK, ClientTypeOK, Creator
  <2>1. CASE lastItem'[t] # lastItem[t]
    <3>1. PICK u \in Task : /\ \E withId \in BOOLEAN : StoreItem(u, withId)
                            /\ PublishEnqueued(u) \/ \E c \in Client : PublishRetried(c)
      BY <2>1, QueueSteps, ZenonT(30) DEF Deliver, LeaseExpires, RemoveItem, ReleaseItem, Purge, queueVars
    <3>2. u = t /\ lastItem'[t] = lastItem[t] + 1
      BY <1>0, <2>1, <3>1, ZenonT(30) DEF StoreItem
    <3>3. PublishEnqueued(t)
      BY <1>1, <3>1, <3>2, Zenon
    <3>4. k.pc = "publish" /\ l # k
      <4>1. /\ creator[t].pc = "publish" /\ creator \in [Task -> Creator] /\ creator[t] \in Creator
            /\ \/ creator' = [creator EXCEPT ![t].pc = "idle"]
               \/ creator' = [creator EXCEPT ![t].pc = "queueError", ![t].rec.state = "queue_error"]
        BY <3>3, Zenon DEF PublishEnqueued, Fenced, TypeOK, ClientTypeOK
      <4>. DEFINE m == [creator[t] EXCEPT !.pc = "queueError", !.rec.state = "queue_error"]
      <4>2. creator' = [creator EXCEPT ![t].pc = "idle"] \/ creator' = [creator EXCEPT ![t] = m]
        BY <4>1, Zenon
      <4>3. m.pc = "queueError"
        BY <4>1, ZenonT(30) DEF Creator
      <4>. HIDE DEF m
      <4>. QED
        BY <4>1, <4>2, <4>3, ZenonT(30) DEF Creator
    <3>5. l.calls = k.calls /\ l.pc \in {"idle", "gone", "queueError"}
      BY <3>4, CreatorPoints, Zenon
    <3>6. lastItem[t] = 0 /\ k.calls > 0
      BY <2>0, <3>4, Zenon DEF OneItem
    <3>. QED
      BY <2>0, <3>2, <3>5, <3>6, SMTT(30) DEF OneItem
  <2>2. CASE lastItem'[t] = lastItem[t]
    <3>1. CASE l = k
      BY <2>0, <2>2, <3>1, ZenonT(30) DEF OneItem
    <3>2. CASE k.pc = "idle" /\ k.calls < MaxEnqueues /\ l.pc = "save" /\ l.calls = k.calls + 1
      <4>1. k.calls = 0 /\ l.calls = 1
        BY <1>0, <2>0, <3>2, SMTT(30)
      <4>. QED
        BY <2>0, <2>2, <3>2, <4>1, SMTT(30) DEF OneItem
    <3>3. CASE /\ l.calls = k.calls /\ k.pc # "idle"
               /\ l.pc \in {"idle", "gone"} \/ (k.pc = "save" /\ l.pc = "publish")
                  \/ (k.pc = "publish" /\ l.pc = "queueError")
      BY <2>0, <2>2, <3>3, ZenonT(30) DEF OneItem
    <3>. QED
      BY <3>1, <3>2, <3>3, CreatorPoints, Zenon
  <2>. QED
    BY <2>1, <2>2, Zenon
<1>. QED
  BY <1>2, <1>3, Zenon DEF OneItemEach

\* As long as a task is published once, the tries it records stay within the
\* queue's MaxTries, whatever crashes, is slow or gets lost: each try needs a
\* run, each run a delivery, and the item has MaxDeliver of them.
THEOREM TriesKeepToQueue ==
  ASSUME PublishedOnce
  PROVE  HistorySpec => []TriesWithinQueue
<1>1. Init => OneItemEach
  <2>. SUFFICES ASSUME Init PROVE OneItemEach
    OBVIOUS
  <2>1. \A t \in Task : lastItem[t] = 0 /\ creator[t].pc = "idle"
    BY Zenon DEF Init, QueueInit, ClientInit
  <2>2. \A c \in Client : client[c].pc = "idle"
    BY Zenon DEF Init, ClientInit, NoCall
  <2>. QED
    BY <2>1, <2>2, SMTT(30) DEF OneItemEach, OneItem
<1>2. Fenced /\ OneItemEach /\ [Next]_vars => OneItemEach'
  BY NextOneItem, ZenonT(30)
<1>3. Spec => []OneItemEach
  BY <1>1, <1>2, FencedHolds, PTL DEF Spec
<1>4. Fenced /\ OneItemEach /\ TriesFenced /\ RunsWithinDeliveries => TriesWithinQueue
  <2>. SUFFICES ASSUME Fenced, OneItemEach, TriesFenced, RunsWithinDeliveries, NEW t \in Task, QueueMaxTries > 0
                PROVE  tasks[t].tries <= QueueMaxTries
    BY Zenon DEF TriesWithinQueue
  <2>1. PICK q, n, r, k : q = QueueMaxTries /\ n = lastItem[t] /\ r = runs[t] /\ k = tasks[t].tries
    BY Zenon
  <2>2. q \in Nat /\ n \in Nat /\ r \in Nat /\ k \in Nat
    BY <2>1, QueueAssumption, SMTT(30) DEF Fenced, TypeOK, QueueTypeOK, StoreTypeOK, Record, TriesFenced
  <2>3. n <= 1 /\ r <= q * n /\ k <= r
    BY <2>1, Zenon DEF OneItemEach, OneItem, TriesFenced, TriesFence, RunsWithinDeliveries
  <2>4. n = 0 \/ n = 1
    BY <2>2, <2>3, SMTT(30)
  <2>. QED
    BY <2>1, <2>2, <2>3, <2>4, SMTT(30)
<1>. QED
  BY <1>3, <1>4, HistoryIsSpec, FencedHolds, TriesFencedHolds, DeliveriesBoundRuns, PTL

=============================================================================
