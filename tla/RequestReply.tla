--------------------------- MODULE RequestReply ---------------------------
(***************************************************************************)
(* The handler that calls out to a service (src/request_reply_handler.go)  *)
(* in the context handle gives it (src/processor.go).  Time is counted in  *)
(* half seconds; the deadline the service is told is written in whole      *)
(* seconds.                                                                *)
(***************************************************************************)
EXTENDS Integers

CONSTANTS
  RunDeadlines,   \* deadlines of the contexts given to Client.Run; 0: none
  MaxLatency,     \* bound: the time a message takes, less than 2 seconds
  Horizon         \* bound: the time that is looked at

ASSUME RequestReplyAssumption ==
  /\ RunDeadlines \subseteq 0..Horizon
  /\ MaxLatency \in 0..3

VARIABLES
  now,
  stage,             \* "start", "waiting" or "done"
  deadline,       \* the deadline of the context of the handler; 0: none
  header,         \* the deadline told to the service
  answer,         \* the service: "none", or the headers of its answer
  answeredAt,
  abandoned,      \* the context of the handler was cancelled
  result          \* what the handler returned

requestVars == <<now, stage, deadline, header, answer, answeredAt, abandoned, result>>

\* AJ-Terminate, AJ-Error, both or neither.
Answer == {"ok", "error", "terminate", "errorAndTerminate"}

\* handle derives the context with WithCancel: it has the deadline, if any, of
\* the context given to Run, and a timer of MaxRunTime that cancels it.
RequestInit ==
  /\ now \in {0, 1}
  /\ deadline \in RunDeadlines
  /\ stage = "start" /\ header = 0
  /\ answer = "none" /\ answeredAt = 0
  /\ abandoned = FALSE /\ result = "none"

Seconds(s) == 2 * s

\* Format(time.RFC3339) drops the fraction of a second.
RFC3339(t) == 2 * (t \div 2)

Done(r) == stage' = "done" /\ result' = r

\* processTask up to the request.
Refuse ==
  /\ stage = "start"
  /\ \/ deadline = 0 /\ Done("noDeadline")
     \/ deadline # 0 /\ deadline - now < Seconds(3) /\ Done("shortDeadline")
  /\ UNCHANGED <<now, deadline, header, answer, answeredAt, abandoned>>

\* Mutant of Request: the service is given all the time there is.
RequestFull ==
  /\ stage = "start"
  /\ deadline # 0 /\ deadline - now >= Seconds(3)
  /\ stage' = "waiting" /\ header' = RFC3339(deadline + 0)
  /\ UNCHANGED <<now, deadline, answer, answeredAt, abandoned, result>>

Request ==
  /\ stage = "start"
  /\ deadline # 0 /\ deadline - now >= Seconds(3)
  /\ stage' = "waiting" /\ header' = RFC3339(deadline - Seconds(2))
  /\ UNCHANGED <<now, deadline, answer, answeredAt, abandoned, result>>

\* The service answers, once or never.
ServiceAnswers ==
  /\ stage = "waiting" /\ answer = "none"
  /\ answer' \in Answer /\ answeredAt' = now
  /\ UNCHANGED <<now, stage, deadline, header, abandoned, result>>

\* What the handler makes of an answer.  AJ-Terminate goes before AJ-Error.
Result(a) ==
  CASE a \in {"terminate", "errorAndTerminate"} -> "terminated"
    [] a = "error" -> "error"
    [] a = "ok" -> "success"

AnswerArrives ==
  /\ stage = "waiting" /\ answer # "none" /\ ~abandoned
  /\ Done(Result(answer))
  /\ UNCHANGED <<now, deadline, header, answer, answeredAt, abandoned>>

\* There is no service, the deadline passes or the context is cancelled.
RequestFails ==
  /\ stage = "waiting"
  /\ answer = "none" \/ now >= deadline \/ abandoned
  /\ Done("failed")
  /\ UNCHANGED <<now, deadline, header, answer, answeredAt, abandoned>>

\* The timer of handle fires, or the worker is shut down.
Cancel ==
  /\ stage = "waiting" /\ ~abandoned
  /\ abandoned' = TRUE
  /\ UNCHANGED <<now, stage, deadline, header, answer, answeredAt, result>>

\* Time passes; an answer takes at most MaxLatency, and nothing is waited for
\* past the deadline.
RequestPass ==
  /\ stage = "waiting" /\ now < Horizon
  /\ now < deadline /\ ~abandoned
  /\ answer # "none" => now < answeredAt + MaxLatency
  /\ now' = now + 1
  /\ UNCHANGED <<stage, deadline, header, answer, answeredAt, abandoned, result>>

RequestNext == Refuse \/ Request \/ ServiceAnswers \/ AnswerArrives \/ RequestFails \/ Cancel \/ RequestPass

RequestSpec == RequestInit /\ [][RequestNext]_requestVars

----------------------------------------------------------------------------
\* A service that answers by the deadline it was told is heard: unless the
\* context is cancelled its answer decides what becomes of the task, and the
\* wish to terminate it is never lost.
TimelyAnswerCounts ==
  stage = "done" /\ answer # "none" /\ answeredAt <= header /\ ~abandoned =>
    result = Result(answer)

\* A task of a type that is registered with RequestReply is passed on to the
\* service, unless there is no time left to do so: "Tasks of that type are
\* dispatched via NATS Request-Reply" (request-reply.md).
TaskIsDispatched == stage = "done" => result # "noDeadline"
=============================================================================
