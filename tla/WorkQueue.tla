----------------------------- MODULE WorkQueue -----------------------------
(***************************************************************************)
(* One work queue: the stream createQueue makes (work-queue retention, one *)
(* message per subject, hence one item per task) and its durable pull      *)
(* consumer WORKERS (explicit acknowledgement, AckWait = MaxRunTime,       *)
(* MaxDeliver = MaxTries, MaxAckPending = MaxConcurrent).                  *)
(*                                                                         *)
(* What the server does is not part of the repository; it is modelled from *)
(* the options the code sets and the replies it sends:                     *)
(*  - a delivery leases the item until it is answered or AckWait passes;   *)
(*  - an answer names the item's stream sequence, not the lease, so an     *)
(*    answer to an earlier delivery acts on the item all the same;         *)
(*  - Ack and Term remove the item, Nak ends the lease;                    *)
(*  - an item delivered MaxDeliver times stays in the stream and is never  *)
(*    delivered again;                                                     *)
(*  - a publish on an item's subject replaces the item.                    *)
(***************************************************************************)
EXTENDS Jobs

CONSTANTS
  QueueMaxTries,  \* Queue.MaxTries, negative when there is no limit
  MaxConcurrent   \* Queue.MaxConcurrent

ASSUME QueueAssumption ==
  /\ QueueMaxTries \in Int \ {0}
  /\ MaxConcurrent \in Nat \ {0}

VARIABLES
  items,          \* items[t]: the work item of task t
  lastItem,       \* lastItem[t]: the sequence of the last item published for t
  msgIds          \* the tasks whose ID is in the stream's duplicate window

queueVars == <<items, lastItem, msgIds>>

----------------------------------------------------------------------------
Item == [seq : Nat, deliveries : Nat, leased : BOOLEAN]

NoItem == [seq |-> 0, deliveries |-> 0, leased |-> FALSE]

HasItem(t) == items[t].seq # 0

\* The consumer counts the deliveries of an item, up to MaxDeliver.
Deliverable(t) ==
  /\ HasItem(t)
  /\ QueueMaxTries < 0 \/ items[t].deliveries < QueueMaxTries

\* What counts against MaxAckPending: delivered, not yet answered for good.
AckPending == {t \in Task : HasItem(t) /\ items[t].deliveries > 0
                               /\ (items[t].leased \/ Deliverable(t))}

QueueInit ==
  /\ items = [t \in Task |-> NoItem]
  /\ lastItem = [t \in Task |-> 0]
  /\ msgIds = {}

----------------------------------------------------------------------------
\* The stream stores a new item for t, replacing the one it had.
StoreItem(t, withId) ==
  /\ items' = [items EXCEPT ![t] = [seq |-> lastItem[t] + 1, deliveries |-> 0, leased |-> FALSE]]
  /\ lastItem' = [lastItem EXCEPT ![t] = @ + 1]
  /\ msgIds' = IF withId THEN msgIds \cup {t} ELSE msgIds

\* Publishing the work item of t; ok says whether the caller gets a positive,
\* not duplicate, acknowledgement.
PublishItem(t, withId, ok) ==
  LET duplicate == withId /\ t \in msgIds IN
  \/ ok /\ ~duplicate /\ StoreItem(t, withId)
  \/ ~ok /\ ~duplicate /\ "lostReply" \in Faults /\ StoreItem(t, withId)
  \/ ~ok /\ (duplicate \/ "lostRequest" \in Faults) /\ UNCHANGED queueVars

\* Mutant of Deliver: an item is delivered again before its lease ends.
DeliverLeased(t) ==
  /\ Deliverable(t)
  /\ items[t].deliveries = 0 => Cardinality(AckPending) < MaxConcurrent
  /\ items' = [items EXCEPT ![t].deliveries = IF QueueMaxTries < 0 THEN 1 ELSE @ + 1,
                            ![t].leased = TRUE]
  /\ UNCHANGED <<lastItem, msgIds>>

\* Mutant of Deliver: the consumer has no MaxAckPending.
DeliverUnlimited(t) ==
  /\ Deliverable(t)
  /\ ~items[t].leased
  /\ items' = [items EXCEPT ![t].deliveries = @ + 1, ![t].leased = TRUE]
  /\ UNCHANGED <<lastItem, msgIds>>

\* The consumer hands the item of t to a poll.  Without a limit only the first
\* delivery differs from the others, so no more than one is counted.
Deliver(t) ==
  /\ Deliverable(t)
  /\ ~items[t].leased
  /\ items[t].deliveries = 0 => Cardinality(AckPending) < MaxConcurrent
  /\ items' = [items EXCEPT ![t].deliveries = IF QueueMaxTries < 0 THEN 1 ELSE @ + 1,
                            ![t].leased = TRUE]
  /\ UNCHANGED <<lastItem, msgIds>>

\* Mutant of LeaseExpires: the consumer has no AckWait.
LeaseNeverExpires(t) == items[t].leased /\ UNCHANGED queueVars

\* AckWait passes without an answer.
LeaseExpires(t) ==
  /\ items[t].leased
  /\ items' = [items EXCEPT ![t].leased = FALSE]
  /\ UNCHANGED <<lastItem, msgIds>>

\* AckItem and TerminateItem: the item with this sequence leaves the stream.
RemoveItem(t, seq) ==
  \/ /\ items' = IF items[t].seq = seq THEN [items EXCEPT ![t] = NoItem] ELSE items
     /\ UNCHANGED <<lastItem, msgIds>>
  \/ "lostRequest" \in Faults /\ UNCHANGED queueVars

\* NakItem and NakBlockedItem: the item may be delivered again, after a delay.
ReleaseItem(t, seq) ==
  \/ /\ items' = IF items[t].seq = seq THEN [items EXCEPT ![t].leased = FALSE] ELSE items
     /\ UNCHANGED <<lastItem, msgIds>>
  \/ "lostRequest" \in Faults /\ UNCHANGED queueVars

\* The stream forgets the message ID it kept to detect duplicates of t.
DuplicateWindowPasses(t) ==
  /\ t \in msgIds
  /\ msgIds' = msgIds \ {t}
  /\ UNCHANGED <<items, lastItem>>

\* PurgeQueue removes every item.
Purge ==
  /\ \E t \in Task : HasItem(t)
  /\ items' = [t \in Task |-> NoItem]
  /\ UNCHANGED <<lastItem, msgIds>>

QueueTypeOK ==
  /\ items \in [Task -> Item]
  /\ lastItem \in [Task -> Nat]
  /\ msgIds \subseteq Task
============================================================================
