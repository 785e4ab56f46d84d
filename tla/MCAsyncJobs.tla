---- MODULE MCAsyncJobs ----
(***************************************************************************)
(* Instances of AsyncJobs for TLC.                                       *)
(***************************************************************************)
EXTENDS AsyncJobs, TLC

CONSTANTS t1, t2, t3

\* Independent tasks; t3 waiting for t2 and t2 for t1; t3 waiting for both.
NoDependencies == [t \in Task |-> <<>>]
Chain == [t \in Task |-> CASE t = t2 -> <<t1>> [] t = t3 -> <<t2>> [] OTHER -> <<>>]
Join == [t \in Task |-> IF t = t3 THEN <<t1, t2>> ELSE <<>>]

OneTry == [t \in Task |-> 1]
TwoTries == [t \in Task |-> 2]
Unlimited == [t \in Task |-> 0]
NoLimit == -1

ProcSymmetry == Permutations(Proc)
SlotSymmetry == Permutations(Slot)
====
