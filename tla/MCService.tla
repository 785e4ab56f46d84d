----------------------------- MODULE MCService -----------------------------
(***************************************************************************)
(* The scheduler service: the election between its members (Election) and  *)
(* what a member does with the schedules (TaskScheduler, over the          *)
(* Leadership that Election implements).  A behaviour explores one of the  *)
(* two and leaves the other at rest; the schedules change more often where *)
(* no job comes due.  A TTL of 4 and a timeout of 2 keep the proportions   *)
(* of the smallest bucket: 10 seconds and 5.                               *)
(***************************************************************************)
EXTENDS Election, TaskScheduler

CONSTANT Parts  \* the parts behaviours are about

VARIABLE part   \* the part this behaviour is about

\* The scheduler gives no back-off; with one, a leader campaigns every second.
NoBackoff == {<<>>}
WithBackoff == {<<>>, <<1, 3>>}

ServiceInit ==
  /\ part \in Parts
  /\ ElectionInit /\ Init
  /\ part # "election" => \A n \in Node : node[n].bo = <<>>

ServiceNext ==
  /\ UNCHANGED part
  /\ \/ part = "election" /\ ElectionNext /\ UNCHANGED vars
     \/ part = "schedules" /\ Next /\ rounds' = 0 /\ UNCHANGED electionVars
     \/ part = "jobs" /\ Next /\ lastRev' < MaxWrites /\ UNCHANGED electionVars

ServiceSpec == ServiceInit /\ [][ServiceNext]_<<part, electionVars, vars>>

\* Nothing of the part at rest is enabled.
ServiceFairSpec == ServiceSpec /\ ElectionFairness /\ Fairness
=============================================================================
