---------------------------- MODULE HandlerRun ----------------------------
(***************************************************************************)
(* The time a handler has (handle of src/processor.go, MarkInProgress of   *)
(* src/task.go, InProgressItem of src/storage.go), in discrete time.  Two  *)
(* clocks run for a delivered item: the lease of the server (AckWait), and *)
(* the timer that cancels the handler's context.  MarkInProgress renews    *)
(* both, the timer after the server confirmed the lease.                   *)
(***************************************************************************)
EXTENDS Integers

CONSTANTS
  MaxRunTime,   \* of the queue; AckWait of its consumer
  MaxDelay,     \* bound: the time from a delivery, or from the server's
                \* renewal of a lease, until the worker arms its timer
  MaxOverdue    \* bound: how long a handler ignores its cancelled context

ASSUME RunAssumption ==
  /\ MaxRunTime \in Nat \ {0}
  /\ MaxDelay \in Nat /\ MaxDelay < MaxRunTime
  /\ MaxOverdue \in Nat

VARIABLES
  pc,           \* "prepare", "run" or "returned"
  lease,        \* time left of the lease of the item
  delay,        \* time since the delivery or the renewal the worker works on
  timer,        \* time left until the context is cancelled
  cancelled,    \* the context of the handler is cancelled
  mark,         \* MarkInProgress: "none", "sent" or "confirmed"
  renewed,      \* MarkInProgress returned without error
  overdue       \* time since the context was cancelled

vars == <<pc, lease, delay, timer, cancelled, mark, renewed, overdue>>

\* Type invariant: neither the timer of handle nor the lease is ever armed for
\* more than MaxRunTime.
TypeOK ==
  /\ pc \in {"prepare", "run", "returned"}
  /\ lease \in 0..MaxRunTime
  /\ delay \in 0..MaxDelay
  /\ timer \in 0..MaxRunTime
  /\ cancelled \in BOOLEAN
  /\ mark \in {"none", "sent", "confirmed"}
  /\ renewed \in BOOLEAN
  /\ overdue \in 0..MaxOverdue

\* The server has just delivered the item.
Init ==
  /\ pc = "prepare" /\ lease = MaxRunTime /\ delay = 0
  /\ timer = 0 /\ cancelled = FALSE
  /\ mark = "none" /\ renewed = FALSE /\ overdue = 0

\* processMessage is done with the task and starts handle, which arms the
\* timer and calls the handler.
Handle ==
  /\ pc = "prepare"
  /\ pc' = "run" /\ timer' = MaxRunTime /\ delay' = 0
  /\ UNCHANGED <<lease, cancelled, mark, renewed, overdue>>

\* The handler calls MarkInProgress, which sends the request.
MarkInProgress ==
  /\ pc = "run" /\ mark = "none"
  /\ mark' = "sent" /\ renewed' = FALSE
  /\ UNCHANGED <<pc, lease, delay, timer, cancelled, overdue>>

\* The server renews the lease of the item, even of one it has taken back.
ServerRenews ==
  /\ mark = "sent"
  /\ mark' = "confirmed" /\ lease' = MaxRunTime /\ delay' = 0
  /\ UNCHANGED <<pc, timer, cancelled, renewed, overdue>>

\* The answer arrives: the timer is reset, also one that has fired.
Renewed ==
  /\ mark = "confirmed"
  /\ mark' = "none" /\ timer' = MaxRunTime /\ renewed' = TRUE /\ delay' = 0
  /\ UNCHANGED <<pc, lease, cancelled, overdue>>

\* Mutant of RenewalFails: the timer is reset whatever the server says.
RenewalFailsResets ==
  /\ mark \in {"sent", "confirmed"}
  /\ mark' = "none" /\ delay' = 0 /\ timer' = MaxRunTime
  /\ UNCHANGED <<pc, lease, cancelled, renewed, overdue>>

\* No answer arrives: MarkInProgress fails and leaves the timer alone.
RenewalFails ==
  /\ mark \in {"sent", "confirmed"}
  /\ mark' = "none" /\ delay' = 0
  /\ UNCHANGED <<pc, lease, timer, cancelled, renewed, overdue>>

\* The timer cancels the context.
TimerFires ==
  /\ pc = "run" /\ timer = 0 /\ ~cancelled
  /\ cancelled' = TRUE
  /\ UNCHANGED <<pc, lease, delay, timer, mark, renewed, overdue>>

\* The handler returns.  clearInProgressFunc waits for the mutex that a call
\* of MarkInProgress holds; then the timer is stopped.
HandlerReturns ==
  /\ pc = "run" /\ mark = "none"
  /\ pc' = "returned"
  /\ UNCHANGED <<lease, delay, timer, cancelled, mark, renewed, overdue>>

Less(k) == IF k = 0 THEN 0 ELSE k - 1

\* Time passes.  The worker takes at most MaxDelay to arm a timer.
Pass ==
  /\ pc # "returned"
  /\ pc = "run" /\ timer = 0 => cancelled
  /\ lease' = Less(lease) /\ timer' = Less(timer)
  /\ IF pc = "prepare" \/ mark = "confirmed"
     THEN delay < MaxDelay /\ delay' = delay + 1
     ELSE UNCHANGED delay
  /\ IF cancelled
     THEN overdue < MaxOverdue /\ overdue' = overdue + 1
     ELSE UNCHANGED overdue
  /\ UNCHANGED <<pc, cancelled, mark, renewed>>

Next ==
  \/ Handle \/ MarkInProgress \/ ServerRenews \/ Renewed \/ RenewalFails
  \/ TimerFires \/ HandlerReturns \/ Pass

Spec == Init /\ [][Next]_vars

----------------------------------------------------------------------------
\* The two clocks run in lock-step: the timer outlasts the lease by no more
\* than the time the worker took to arm it, however often the handler renews
\* them and whichever renewals fail or lose their answer.  A handler whose
\* context is live is past its lease by no more than that.
LockStep == pc = "run" => timer <= lease + MaxDelay

\* LockStep with what it rests on: a lease that was just given or renewed has
\* lost no more than the delay of the worker since.
RunInv ==
  /\ TypeOK
  /\ LockStep
  /\ pc = "prepare" \/ mark = "confirmed" => delay + lease >= MaxRunTime
  /\ pc = "prepare" => mark = "none"

\* A handler whose context is live works on an item that is leased to it.
WorksWithinLease == pc = "run" /\ ~cancelled => lease > 0 \/ timer = 0

\* Once MarkInProgress returned without error the context is live until the
\* timer it reset has run out.
RenewedContextIsLive == renewed /\ timer > 0 => ~cancelled
=============================================================================
