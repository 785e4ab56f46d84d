----------------------------- MODULE Election -----------------------------
(***************************************************************************)
(* Leader election on one key of a JetStream key-value bucket              *)
(* (src/election/election.go), in discrete time.  The campaign goroutine   *)
(* of a member sleeps until its ticker fires, sends one request, waits at  *)
(* most Timeout for the answer and runs the callback it earned.  The       *)
(* server answers at once or not at all; steps take no time, sleeping and  *)
(* waiting do.                                                             *)
(***************************************************************************)
EXTENDS Integers, FiniteSets, Sequences

CONSTANTS
  Node,         \* the members
  TTL,          \* the bucket TTL
  Timeout,      \* how long a request waits for its answer
  Backoffs,     \* WithBackoff: the intervals by number of tries, the last one for
                \* all later tries; <<>> when the option is not given
  Deletions,    \* when something else deletes the key: while a member leads
                \* ("led"), while none does ("unled")
  MaxLost,      \* bound: requests of a member lost in a row
  MaxFaults     \* bound: crashes, stops, lost and failed requests, foreign
                \* writes and deletions

\* NewElection refuses buckets with a TTL below 10 seconds; a request times
\* out after 5.
ASSUME ElectionAssumption ==
  /\ "absent" \notin Node /\ "unknown" \notin Node
  /\ TTL \in Nat /\ TTL >= 4
  /\ Timeout \in Nat \ {0} /\ 2 * Timeout <= TTL
  /\ Backoffs \subseteq Seq(Nat \ {0})
  /\ Deletions \subseteq {"led", "unled"}
  /\ MaxLost \in Nat /\ MaxFaults \in Nat

VARIABLES
  key,          \* the election key: who may update it, and its age
  node,         \* node[n]: the election object and goroutine of member n
  faults        \* faults so far

electionVars == <<key, node, faults>>

\* Mutant of cInterval: campaigns are as far apart as the record lives.
cIntervalTTL == TTL

\* The campaign interval of NewElection: 75% of the TTL.
cInterval == (3 * TTL) \div 4

\* The revision of the key matters only as far as a member knows it.  The key
\* is absent, has the revision a member has as lastSeq, or one nobody knows.
Absent == "absent"
Unknown == "unknown"
Key == [rev : Node \cup {Absent, Unknown}, age : 0..TTL]

\* A goroutine is not running, in its startup splay, about to try, waiting for
\* an answer, about to run a callback, or asleep until the next tick.
PC == {"stopped", "splay", "try", "wait", "onWon", "onLost", "shutdownLost", "sleep"}

Member == [pc : PC, state : {"unknown", "candidate", "leader"}, notifyNext : BOOLEAN,
           bo : Backoffs, tries : Nat, ticker : Nat, wait : 0..Timeout,
           cancelled : BOOLEAN, leader : BOOLEAN, lost : 0..MaxLost]

NewMember(bo) == [pc |-> "stopped", state |-> "unknown", notifyNext |-> FALSE,
                  bo |-> bo, tries |-> 0, ticker |-> 0, wait |-> 0,
                  cancelled |-> FALSE, leader |-> FALSE, lost |-> 0]

\* Type invariant: a request waits at most for its timeout, the record lives at
\* most TTL.
TypeOK == key \in Key /\ node \in [Node -> Member] /\ faults \in 0..MaxFaults

ElectionInit ==
  /\ key = [rev |-> Absent, age |-> 0]
  /\ \E bo \in Backoffs : node = [n \in Node |-> NewMember(bo)]
  /\ faults = 0

Fault == faults < MaxFaults /\ faults' = faults + 1
NoFault == UNCHANGED faults

WriteKey(rev) == key' = [rev |-> rev, age |-> 0]

\* The member no longer knows the revision of the key.
Forget(n) == key' = IF key.rev = n THEN [key EXCEPT !.rev = Unknown] ELSE key

\* The election object of member n is now m.
SetMember(n, m) == node' = [node EXCEPT ![n] = m]

\* The time to the next campaign, after this many tries.
Interval(m) == IF m.bo = <<>> THEN cInterval ELSE m.bo[m.tries + 1]

\* A campaign of a candidate failed.  Tries past the last interval of the
\* back-off make no difference and are not counted.
Failed(m) ==
  IF m.state = "candidate" /\ m.tries + 1 < Len(m.bo) THEN [m EXCEPT !.tries = @ + 1] ELSE m

\* The end of a tick: the ticker runs on, or is reset by the back-off.
Rest(m) == [m EXCEPT !.pc = "sleep", !.ticker = IF m.bo = <<>> THEN @ ELSE Interval(m)]

----------------------------------------------------------------------------
\* Start runs campaign, which first sleeps a random splay.
Start(n) ==
  /\ node[n].pc = "stopped"
  /\ SetMember(n, [node[n] EXCEPT !.pc = "splay", !.state = "candidate", !.cancelled = FALSE])
  /\ UNCHANGED <<key, faults>>

\* The splay is over: the ticker starts and the first campaign is held.
Begin(n) ==
  /\ node[n].pc = "splay"
  /\ SetMember(n, [node[n] EXCEPT !.pc = "try", !.ticker = Interval(node[n])])
  /\ UNCHANGED <<key, faults>>

\* The ticker fires.
Tick(n) ==
  /\ node[n].pc = "sleep"
  /\ node[n].ticker = 0
  /\ SetMember(n, [node[n] EXCEPT !.pc = "try", !.ticker = Interval(node[n])])
  /\ UNCHANGED <<key, faults>>

\* Mutant of Campaign: the win is announced as soon as the key is created.
CampaignAnnounces(n) ==
  /\ node[n].pc = "try" /\ node[n].state = "candidate" /\ ~node[n].cancelled
  /\ IF key.rev = Absent
     THEN WriteKey(n) /\ SetMember(n, [node[n] EXCEPT !.pc = "onWon", !.state = "leader", !.lost = 0])
     ELSE UNCHANGED key /\ SetMember(n, Rest([Failed(node[n]) EXCEPT !.lost = 0]))
  /\ NoFault

\* campaignForLeadershipLocked: Create succeeds when the key is absent.
Campaign(n) ==
  /\ node[n].pc = "try" /\ node[n].state = "candidate" /\ ~node[n].cancelled
  /\ \/ /\ key.rev = Absent
        /\ WriteKey(n)
        /\ SetMember(n, Rest([node[n] EXCEPT !.state = "leader", !.tries = 0,
                                            !.notifyNext = TRUE, !.lost = 0]))
     \/ /\ key.rev # Absent
        /\ SetMember(n, Rest([Failed(node[n]) EXCEPT !.lost = 0]))
        /\ UNCHANGED key
  /\ NoFault

\* Mutant of Refresh: the win is never announced.
RefreshSilent(n) ==
  /\ node[n].pc = "try" /\ node[n].state = "leader" /\ ~node[n].cancelled
  /\ key.rev = n
  /\ WriteKey(n)
  /\ SetMember(n, Rest([node[n] EXCEPT !.lost = 0]))
  /\ NoFault

\* maintainLeadershipLocked: Update succeeds on the last observed revision.
\* The win is announced by the first update that does.
Refresh(n) ==
  /\ node[n].pc = "try" /\ node[n].state = "leader" /\ ~node[n].cancelled
  /\ key.rev = n
  /\ WriteKey(n)
  /\ SetMember(n, IF node[n].notifyNext
                  THEN [node[n] EXCEPT !.pc = "onWon", !.notifyNext = FALSE, !.lost = 0]
                  ELSE Rest([node[n] EXCEPT !.lost = 0]))
  /\ NoFault

\* Mutant of StepDown: OnLost is not run.
StepDownSilent(n) ==
  /\ node[n].pc = "try" /\ node[n].state = "leader" /\ ~node[n].cancelled
  /\ key.rev # n
  /\ SetMember(n, Rest([node[n] EXCEPT !.state = "candidate", !.notifyNext = FALSE, !.lost = 0]))
  /\ UNCHANGED <<key, faults>>

\* The leader m steps down, and runs OnLost if the win was announced.
SteppedDown(m) ==
  LET c == [m EXCEPT !.state = "candidate", !.tries = 0, !.notifyNext = FALSE, !.lost = 0]
  IN IF m.notifyNext THEN Rest(c) ELSE [c EXCEPT !.pc = "onLost"]

\* The update is refused, as the key has another revision or is gone.
StepDown(n) ==
  /\ node[n].pc = "try" /\ node[n].state = "leader" /\ ~node[n].cancelled
  /\ key.rev # n
  /\ SetMember(n, SteppedDown(node[n]))
  /\ UNCHANGED <<key, faults>>

\* The server or the connection fails the request before it is carried out: a
\* leader steps down on every error but those of its context, also while the
\* record is its own.
RequestFails(n) ==
  /\ node[n].pc = "try" /\ ~node[n].cancelled
  /\ \/ /\ node[n].state = "leader"
        /\ SetMember(n, SteppedDown(node[n]))
     \/ /\ node[n].state = "candidate"
        /\ SetMember(n, Rest([Failed(node[n]) EXCEPT !.lost = 0]))
  /\ Forget(n)
  /\ Fault

\* A request made with a cancelled context is not sent and changes nothing.
TryCancelled(n) ==
  /\ node[n].pc = "try" /\ node[n].cancelled
  /\ SetMember(n, Rest(Failed(node[n])))
  /\ UNCHANGED <<key, faults>>

\* The request is lost, or its answer: the server has then carried it out and
\* the member does not know the revision it made.
LoseMessage(n) ==
  /\ node[n].pc = "try" /\ ~node[n].cancelled
  /\ node[n].lost < MaxLost
  /\ SetMember(n, [node[n] EXCEPT !.pc = "wait", !.wait = Timeout, !.lost = node[n].lost + 1])
  /\ \/ UNCHANGED key
     \/ /\ key.rev = IF node[n].state = "leader" THEN n ELSE Absent
        /\ WriteKey(Unknown)
  /\ Fault

\* The wait ends with DeadlineExceeded or Canceled, which keep the state.
GiveUp(n) ==
  /\ node[n].pc = "wait"
  /\ node[n].wait = 0 \/ node[n].cancelled
  /\ SetMember(n, Rest([Failed(node[n]) EXCEPT !.wait = 0]))
  /\ UNCHANGED <<key, faults>>

\* The callbacks of the task scheduler, onWon and onLost.
Won(n) ==
  /\ node[n].pc = "onWon"
  /\ SetMember(n, [Rest(node[n]) EXCEPT !.leader = TRUE])
  /\ UNCHANGED <<key, faults>>

Lost(n) ==
  /\ \/ node[n].pc = "onLost" /\ SetMember(n, [Rest(node[n]) EXCEPT !.leader = FALSE])
     \/ /\ node[n].pc = "shutdownLost"
        /\ SetMember(n, [node[n] EXCEPT !.pc = "stopped", !.leader = FALSE])
  /\ UNCHANGED <<key, faults>>

\* Stop, or the caller, cancels the context.
StopElection(n) ==
  /\ node[n].pc # "stopped" /\ ~node[n].cancelled
  /\ SetMember(n, [node[n] EXCEPT !.cancelled = TRUE])
  /\ UNCHANGED key
  /\ Fault

\* campaign sees ctx.Done, calls stop and runs OnLost if it was the leader.
Shutdown(n) ==
  /\ node[n].pc = "sleep" /\ node[n].cancelled
  /\ LET wasLeader == node[n].state = "leader" /\ ~node[n].notifyNext
     IN SetMember(n, [node[n] EXCEPT !.pc = IF wasLeader THEN "shutdownLost" ELSE "stopped",
                                  !.state = "candidate"])
  /\ Forget(n)
  /\ NoFault

CrashMember(n) ==
  /\ node[n].pc # "stopped"
  /\ SetMember(n, NewMember(node[n].bo))
  /\ Forget(n)
  /\ Fault

----------------------------------------------------------------------------
\* Something else writes the key.
Overwrite ==
  /\ WriteKey(Unknown)
  /\ UNCHANGED node
  /\ Fault

\* The member was told that it leads, or is about to be.
Told(n) == node[n].leader \/ node[n].pc = "onWon"

\* Something else deletes the key.
DeleteKey ==
  /\ key.rev # Absent
  /\ (IF \E n \in Node : Told(n) THEN "led" ELSE "unled") \in Deletions
  /\ WriteKey(Absent)
  /\ UNCHANGED node
  /\ Fault

\* The bucket TTL removes the key.
Expire ==
  /\ key.rev # Absent /\ key.age = TTL
  /\ WriteKey(Absent)
  /\ UNCHANGED <<node, faults>>

\* Time passes while every goroutine sleeps or waits.
Idle(n) ==
  LET m == node[n]
  IN \/ m.pc \in {"stopped", "splay"}
     \/ m.pc = "sleep" /\ m.ticker > 0 /\ ~m.cancelled
     \/ m.pc = "wait" /\ m.wait > 0 /\ ~m.cancelled

Less(k) == IF k = 0 THEN 0 ELSE k - 1

Pass ==
  /\ \A n \in Node : Idle(n)
  /\ key.rev # Absent => key.age < TTL
  /\ key' = [key EXCEPT !.age = IF key.rev = Absent THEN 0 ELSE key.age + 1]
  /\ node' = [n \in Node |-> [node[n] EXCEPT !.ticker = Less(node[n].ticker),
                                             !.wait = Less(node[n].wait)]]
  /\ NoFault

CampaignStep(n) ==
  \/ Begin(n) \/ Tick(n) \/ Campaign(n) \/ Refresh(n) \/ StepDown(n) \/ TryCancelled(n)
  \/ GiveUp(n) \/ Won(n) \/ Lost(n) \/ Shutdown(n)

ElectionNext ==
  \/ \E n \in Node : Start(n) \/ CampaignStep(n) \/ LoseMessage(n) \/ RequestFails(n)
                      \/ StopElection(n) \/ CrashMember(n)
  \/ Overwrite \/ DeleteKey \/ Expire \/ Pass

ElectionSpec == ElectionInit /\ [][ElectionNext]_electionVars

\* Goroutines run, and time passes.
ElectionFairness ==
  /\ \A n \in Node : WF_electionVars(CampaignStep(n))
  /\ WF_electionVars(Expire) /\ WF_electionVars(Pass)

----------------------------------------------------------------------------
\* The members that were told they lead are the leaders of Leadership.
Leaders == INSTANCE Leadership WITH leaders <- {n \in Node : node[n].leader}

\* The election implements Leadership: no member is told that it won while
\* another that was told so has not been told that it lost.  This is what
\* delaying OnWon to the first successful update is for; the key alone gives
\* no such promise, because a leader learns late that it lost the key.
ImplementsLeadership == Leaders!Spec

\* At most one member was told that it leads and not that it lost: "one member
\* schedules tasks at a time" (scheduled-tasks.md).
OneLeader == \A m, n \in Node : node[m].leader /\ node[n].leader => m = n

\* The observer and IsLeader agree whenever the goroutine sleeps, and a member
\* that is stopped was told that it does not lead.
CallbacksAgree ==
  \A n \in Node :
    LET m == node[n]
    IN /\ m.pc \in {"sleep", "wait"} => m.leader = (m.state = "leader" /\ ~m.notifyNext)
       /\ m.pc = "stopped" => ~m.leader

Running(n) == node[n].pc # "stopped" /\ ~node[n].cancelled

\* Whatever faults there were, some member leads in the end if any runs.
EventuallyLed == []<>((\E n \in Node : node[n].leader) \/ ~\E n \in Node : Running(n))

\* A leader that fails to refresh its record once gets another attempt before
\* the record expires.
RefreshAttempts ==
  [][\A n \in Node : key.rev = n /\ Expire => node[n].lost > 1]_electionVars

----------------------------------------------------------------------------
(***************************************************************************)
(* Why no two members are told that they lead, as long as no member loses  *)
(* two messages in a row and the key of a leader is not deleted.  A leader *)
(* whose record expires or is overwritten tries again and learns of it     *)
(* before the member that replaces it has waited out its first interval.   *)
(***************************************************************************)
\* The interval of a leader, whose tries are 0.
First(m) == IF m.bo = <<>> THEN cInterval ELSE m.bo[1]

\* How much later the next campaign is when this one waits for its timeout.
Slack(m) == IF m.bo = <<>> THEN 0 ELSE Timeout

\* What the election needs to keep its promise: no member loses two messages in
\* a row, and nothing deletes the key of a member that leads, which leaves the
\* member that replaces it no time to learn of it.  NewElection does not check
\* what a back-off needs.
Paced ==
  /\ MaxLost <= 1 /\ "led" \notin Deletions
  /\ \A bo \in Backoffs : bo # <<>> => bo[1] + Timeout < TTL

\* The time one more lost message would cost the member.
Spare(m) == IF m.lost = 0 THEN First(m) + Slack(m) ELSE 0

\* The time until a member that was told it leads is certain to have made a
\* request that is answered, or to have been told that it lost.
Certain(m) ==
  CASE m.cancelled \/ m.pc \in {"onLost", "shutdownLost"} -> 0
    [] ~m.cancelled /\ m.pc = "try" -> Spare(m)
    [] ~m.cancelled /\ m.pc = "onWon" -> First(m) + Spare(m)
    [] ~m.cancelled /\ m.pc = "wait" -> IF m.bo = <<>> THEN m.ticker ELSE m.wait + First(m)
    [] OTHER -> m.ticker + Spare(m)

\* What the fields of one election object have to do with each other.
MemberOK(m) ==
  /\ m.bo # <<>> => m.tries < Len(m.bo)
  /\ m.bo = <<>> => m.ticker <= cInterval
  /\ m.state = "leader" => m.tries = 0 /\ (m.pc = "sleep" => m.ticker <= First(m))
  /\ m.pc \in {"try", "onWon", "onLost"} /\ m.bo = <<>> => m.ticker = cInterval
  /\ m.pc = "wait" => m.lost > 0 /\ (m.bo = <<>> => m.wait <= m.ticker)
  /\ m.pc \in {"sleep", "wait", "try"} => (m.leader <=> m.state = "leader" /\ ~m.notifyNext)
  /\ m.pc \in {"stopped", "splay", "onWon"} => ~m.leader
  /\ m.pc = "onWon" => m.state = "leader" /\ ~m.notifyNext /\ m.lost = 0
  /\ m.pc \in {"splay", "onLost", "shutdownLost"} => m.state = "candidate"

\* Only a member that campaigns as the leader knows the revision of the key.
KnowsKey(m) == m.state = "leader" /\ m.pc \in {"sleep", "try", "wait", "onWon"}

\* The key and a member that was told it leads: who may replace it has longer
\* to wait than the member is in doubt.
KeyInv(n) ==
  LET m == node[n]
  IN
  /\ Certain(m) <= 2 * First(m) + Slack(m)
  /\ key.rev = n => key.age + Certain(m) <= 2 * First(m) + Slack(m)
  /\ key.rev = Unknown => key.age + Certain(m) < TTL + First(m)
  /\ key.rev = Absent => Certain(m) < First(m)
  /\ \A k \in Node \ {n} : key.rev = k =>
       node[k].notifyNext /\ node[k].pc = "sleep" /\ Certain(m) < node[k].ticker

\* The objects of all members are consistent, and with the key.
ObjectsOK ==
  /\ TypeOK
  /\ \A n \in Node : MemberOK(node[n]) /\ (key.rev = n => KnowsKey(node[n]))

\* A member is told that it leads only while nobody else believes to lead,
\* whatever crashes, stops, failed requests, single lost messages and overwrites
\* of the key there are, and deletions of the key while nobody leads.
ToldApart ==
  /\ ObjectsOK
  /\ \A m, n \in Node : node[m].bo = node[n].bo
  /\ \A n \in Node : Told(n) => KeyInv(n)
  /\ \A m, n \in Node : Told(m) /\ Told(n) => m = n
=============================================================================
