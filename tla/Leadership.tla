---------------------------- MODULE Leadership ----------------------------
(***************************************************************************)
(* What the election promises to the scheduler that runs it: OnWon and     *)
(* OnLost alternate on every member, and a member is told that it won only *)
(* while nobody else leads.                                                *)
(***************************************************************************)
CONSTANT Node

VARIABLE leaders      \* the members that were told they lead

Init == leaders = {}

Win(n) == leaders = {} /\ leaders' = {n}

\* A member is told it lost, or it crashes.
Lose(n) == n \in leaders /\ leaders' = leaders \ {n}

Next == \E n \in Node : Win(n) \/ Lose(n)

Spec == Init /\ [][Next]_leaders
=============================================================================
