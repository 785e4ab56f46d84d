---- MODULE MCAsyncJobsHistory ----
(***************************************************************************)
(* Instances of AsyncJobsHistory for TLC.                                *)
(***************************************************************************)
EXTENDS AsyncJobsHistory, TLC

CONSTANTS t1, t2, t3, t4

\* Independent tasks; t3 waiting for t2 and t2 for t1; t3 waiting for both.
NoDependencies == [t \in Task |-> <<>>]
Chain == [t \in Task |-> CASE t = t2 -> <<t1>> [] t = t3 -> <<t2>> [] OTHER -> <<>>]
Join == [t \in Task |-> IF t = t3 THEN <<t1, t2>> ELSE <<>>]

OneTry == [t \in Task |-> 1]
LastTwice == [t \in Task |-> IF t = t4 THEN 2 ELSE 1]
TwoTries == [t \in Task |-> 2]
Unlimited == [t \in Task |-> 0]
NoLimit == -1

ProcSymmetry == Permutations(Proc)
SlotSymmetry == Permutations(Slot)
====
