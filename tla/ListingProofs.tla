--------------------------- MODULE ListingProofs ---------------------------
(***************************************************************************)
(* What a listing of the task store shows, for any number of tasks and     *)
(* listings and any limits, however tasks are saved and deleted meanwhile  *)
(* and whenever the minute passes or a caller leaves.                      *)
(***************************************************************************)
EXTENDS TaskListing, TLAPS, FiniteSetTheorems

Message == [task : Stored, numPending : Nat]

Listers ==
  [pc : {"idle", "tasks", "consumer", "read", "answered"}, status : Nat, ndjson : BOOLEAN,
   filter : SUBSET Stored, limit : Nat, gone : BOOLEAN, listed : Seq(Stored),
   kept : SUBSET Stored, sub : BOOLEAN, cursor : Nat, inbox : Seq(Message), cnt : Nat,
   out : Seq(Stored), done : BOOLEAN, drained : BOOLEAN,
   closer : {"none", "waiting", "closed", "ended"}]

Has(s, t) == \E i \in 1..Len(s) : s[i] = t

\* The callback counts what it sends, and is subscribed only below the limit.
Counted(l) ==
  /\ Len(l.listed) + Len(l.out) <= l.cnt /\ l.cnt <= l.limit
  /\ l.sub => l.cnt < l.limit
  /\ l.pc = "tasks" => l.cnt = 0 /\ l.limit > 0

\* Which steps of a request and of its listing go together.
Ordered(l) ==
  /\ l.pc = "idle" => l.cnt = 0 /\ ~l.sub
  /\ l.pc \in {"idle", "tasks", "consumer"} => l.closer = "none"
  /\ l.closer = "none" => l.cursor = 0 /\ l.inbox = <<>> /\ ~l.drained /\ l.kept = {}
  /\ l.closer = "ended" => ~l.sub
  /\ l.status = 200 => l.pc = "answered"
  /\ l.status = 200 /\ ~l.gone => l.out = <<>> /\ l.closer # "waiting"

\* Task t needs no more attention: the reader has it, will get it from the
\* channel or does not want it.
Shown(l, t) == Has(l.listed, t) \/ Has(l.out, t) \/ t \notin l.filter

\* Task t is among the first k messages of the subscription's queue.
Queued(l, t, k) == \E i \in 1..k : l.inbox[i].task = t

Wanted(l) == l.kept \ Unreadable

\* A wanted task the reader does not have is in the queue or still ahead in the
\* stream, and by the message that says nothing is pending it is in the queue.
Covered(l) ==
  /\ l.kept \subseteq InStore /\ l.cursor <= lastSeq
  /\ l.sub /\ l.closer # "none" =>
       /\ \A t \in Wanted(l) : Shown(l, t) \/ Queued(l, t, Len(l.inbox)) \/ store[t] > l.cursor
       /\ \A k \in 1..Len(l.inbox) : l.inbox[k].numPending = 0 =>
            \A t \in Wanted(l) : Shown(l, t) \/ Queued(l, t, k)
  /\ l.drained => \A t \in Wanted(l) : Shown(l, t)

StoreInv ==
  /\ lastSeq \in Nat /\ store \in [Stored -> Nat]
  /\ \A t \in Stored : store[t] <= lastSeq
  /\ \A t, u \in InStore : store[t] = store[u] => t = u

ListingInv ==
  /\ StoreInv
  /\ lister \in [Lister -> Listers]
  /\ \A r \in Lister : Counted(lister[r]) /\ Ordered(lister[r]) /\ Covered(lister[r])

----------------------------------------------------------------------------
LEMMA HasAppend ==
  ASSUME NEW S, NEW s \in Seq(S), NEW x \in S, NEW t
  PROVE  Has(Append(s, x), t) <=> Has(s, t) \/ x = t
<1>1. /\ Len(Append(s, x)) = Len(s) + 1 /\ Append(s, x)[Len(s) + 1] = x
      /\ \A i \in 1..Len(s) : Append(s, x)[i] = s[i]
      /\ Len(s) \in Nat
  OBVIOUS
<1>. QED
  BY <1>1 DEF Has

LEMMA HasTail ==
  ASSUME NEW S, NEW s \in Seq(S), s # <<>>, NEW t
  PROVE  Has(s, t) <=> Head(s) = t \/ Has(Tail(s), t)
<1>1. /\ Len(s) \in Nat /\ Len(s) > 0 /\ Len(Tail(s)) = Len(s) - 1 /\ Head(s) = s[1]
      /\ \A i \in 1..(Len(s) - 1) : Tail(s)[i] = s[i + 1]
  OBVIOUS
<1>2. ASSUME NEW i \in 1..Len(s), i # 1 PROVE i - 1 \in 1..(Len(s) - 1) /\ s[i] = Tail(s)[i - 1]
  BY <1>1, <1>2
<1>3. ASSUME NEW i \in 1..(Len(s) - 1) PROVE i + 1 \in 1..Len(s)
  BY <1>1
<1>4. Has(s, t) => Head(s) = t \/ Has(Tail(s), t)
  BY <1>1, <1>2 DEF Has
<1>5. Has(Tail(s), t) => Has(s, t)
  BY <1>1, <1>3, ZenonT(30) DEF Has
<1>6. Head(s) = t => Has(s, t)
  BY <1>1 DEF Has
<1>. QED
  BY <1>4, <1>5, <1>6, ZenonT(30)

LEMMA InitListing == ListingInit => ListingInv
<1>. SUFFICES ASSUME ListingInit PROVE ListingInv
  OBVIOUS
<1>1. Cardinality(Stored) \in Nat
  BY ListingAssumption, FS_CardinalityType
<1>2. StoreInv
  BY <1>1 DEF ListingInit, StoreInv
<1>3. NewLister \in Listers
  BY DEF NewLister, Listers
<1>4. Counted(NewLister) /\ Ordered(NewLister)
  BY DEF NewLister, Counted, Ordered
<1>5. Covered(NewLister)
  BY <1>2 DEF NewLister, Covered, Wanted, StoreInv
<1>. QED
  BY <1>2, <1>3, <1>4, <1>5, ZenonT(30) DEF ListingInit, ListingInv

\* A step of one request that leaves the stream alone.
LEMMA OneLister ==
  ASSUME ListingInv, NEW r \in Lister, NEW l \in Listers, ListerBecomes(r, l),
         UNCHANGED <<store, lastSeq>>, Counted(l), Ordered(l), Covered(l)
  PROVE  ListingInv'
<1>1. lister' \in [Lister -> Listers] /\ \A q \in Lister : lister'[q] = IF q = r THEN l ELSE lister[q]
  BY DEF ListingInv, ListerBecomes
<1>2. StoreInv'
  BY DEF ListingInv, StoreInv, InStore
<1>3. ASSUME NEW q \in Lister PROVE (Counted(lister[q]) /\ Ordered(lister[q]) /\ Covered(lister[q]))'
  <2>1. PICK m : m = lister'[q]
    OBVIOUS
  <2>2. Counted(m) /\ Ordered(m) /\ Covered(m)
    BY <1>1, <2>1, ZenonT(30) DEF ListingInv
  <2>. QED
    BY <2>1, <2>2, Zenon DEF Counted, Ordered, Covered, InStore, Wanted
<1>. QED
  BY <1>1, <1>2, <1>3, ZenonT(30) DEF ListingInv

\* A step that takes nothing from the reader and leaves the queue alone keeps
\* what is covered.
LEMMA SameCover ==
  ASSUME NEW m, NEW l, Covered(m), l.kept = m.kept, l.cursor = m.cursor, l.inbox = m.inbox,
         \A t \in Stored : Shown(m, t) => Shown(l, t), m.kept \subseteq Stored,
         l.sub /\ l.closer # "none" => m.sub /\ m.closer # "none", l.drained => m.drained
  PROVE  Covered(l)
  BY DEF Covered, Wanted, Queued

LEMMA SameShown ==
  ASSUME NEW m, NEW l, l.listed = m.listed, l.out = m.out, l.filter = m.filter
  PROVE  \A t \in Stored : Shown(m, t) => Shown(l, t)
  BY DEF Shown

LEMMA SameListing ==
  ASSUME ListingInv, UNCHANGED <<store, lastSeq, lister>>
  PROVE  ListingInv'
  BY DEF ListingInv, StoreInv, InStore, Covered

LEMMA SaveKeeps ==
  ASSUME ListingInv, NEW t \in Stored, Save(t)
  PROVE  ListingInv'
<1>1. /\ lastSeq' = lastSeq + 1 /\ lister' = lister /\ lastSeq \in Nat
      /\ store' \in [Stored -> Nat] /\ \A u \in Stored : store'[u] = IF u = t THEN lastSeq + 1 ELSE store[u]
  BY DEF Save, ListingInv, StoreInv
<1>2. InStore \subseteq InStore' /\ StoreInv'
  BY <1>1 DEF ListingInv, StoreInv, InStore
<1>3. ASSUME NEW r \in Lister PROVE Covered(lister[r])'
  <2>1. PICK m : m = lister[r]
    OBVIOUS
  <2>2. m \in Listers /\ Covered(m)
    BY <2>1 DEF ListingInv
  <2>3. m.cursor \in Nat /\ m.kept \subseteq Stored
    BY <2>2, ZenonT(30) DEF Listers
  <2>4. \A u \in m.kept : store[u] > m.cursor => store'[u] > m.cursor
    BY <1>1, <2>2, <2>3 DEF Covered
  <2>5. Covered(m)'
    BY <1>1, <1>2, <2>2, <2>3, <2>4 DEF Covered, Wanted
  <2>. QED
    BY <1>1, <2>1, <2>5, ZenonT(30)
<1>. QED
  BY <1>1, <1>2, <1>3, ZenonT(30) DEF ListingInv

LEMMA DeleteKeeps ==
  ASSUME ListingInv, NEW t \in Stored, Delete(t)
  PROVE  ListingInv'
<1>1. /\ lastSeq' = lastSeq /\ lastSeq \in Nat
      /\ store' \in [Stored -> Nat] /\ \A u \in Stored : store'[u] = IF u = t THEN 0 ELSE store[u]
      /\ lister' = [r \in Lister |-> [lister[r] EXCEPT !.kept = @ \ {t}]]
  BY DEF Delete, ListingInv, StoreInv
<1>2. StoreInv'
  BY <1>1 DEF ListingInv, StoreInv, InStore
<1>3. ASSUME NEW r \in Lister
      PROVE  lister'[r] \in Listers /\ (Counted(lister[r]) /\ Ordered(lister[r]) /\ Covered(lister[r]))'
  <2>1. PICK m : m = lister[r]
    OBVIOUS
  <2>2. m \in Listers /\ Counted(m) /\ Ordered(m) /\ Covered(m)
    BY <2>1 DEF ListingInv
  <2>3. PICK l : l = [m EXCEPT !.kept = @ \ {t}]
    BY Zenon
  <2>4. lister'[r] = l
    BY <1>1, <2>1, <2>3, ZenonT(30)
  <2>5. l \in Listers /\ Counted(l)
    BY <2>2, <2>3, Zenon DEF Listers, Counted
  <2>6. Ordered(l)
    BY <2>2, <2>3 DEF Listers, Ordered
  <2>7. /\ l.kept = m.kept \ {t} /\ l.cursor = m.cursor /\ l.inbox = m.inbox /\ l.listed = m.listed
        /\ l.out = m.out /\ l.filter = m.filter /\ l.sub = m.sub /\ l.closer = m.closer
        /\ l.drained = m.drained /\ m.kept \subseteq Stored
    BY <2>2, <2>3, ZenonT(30) DEF Listers
  <2>8. l.kept \subseteq InStore' /\ \A u \in l.kept : store'[u] = store[u]
    BY <1>1, <2>2, <2>7, ZenonT(30) DEF Covered, InStore
  <2>9. Covered(l)'
    BY <1>1, <2>2, <2>7, <2>8 DEF Covered, Wanted, Shown, Queued
  <2>. QED
    BY <2>4, <2>5, <2>6, <2>9, Zenon DEF Counted, Ordered
<1>. QED
  BY <1>1, <1>2, <1>3, ZenonT(30) DEF ListingInv

LEMMA LimitPositive ==
  ASSUME NEW p \in Limits, p = Absent \/ ~(p < 1)
  PROVE  EffectiveLimit(p) \in Nat /\ EffectiveLimit(p) > 0
  BY ListingAssumption DEF EffectiveLimit

LEMMA Counting ==
  ASSUME NEW a \in Nat, NEW b \in Nat, NEW c \in Nat, NEW n \in Nat, a + b <= c
  PROVE  /\ c = 0 => b = 0
         /\ c < n => b # n
         /\ a + (b + 1) <= c + 1
         /\ c < n => c + 1 <= n
         /\ a + (b - 1) <= c /\ (a + 1) + (b - 1) <= c
         /\ c < n /\ c + 1 # n => c + 1 < n
  OBVIOUS

\* What most steps of a request leave alone.
Agree(l, m) ==
  /\ l.listed = m.listed /\ l.out = m.out /\ l.cnt = m.cnt /\ l.inbox = m.inbox
  /\ l.cursor = m.cursor /\ l.kept = m.kept /\ l.drained = m.drained

LEMMA Lengths ==
  ASSUME NEW m \in Listers
  PROVE  /\ m.cnt \in Nat /\ m.limit \in Nat /\ Len(m.listed) \in Nat /\ Len(m.out) \in Nat
         /\ m.listed \in Seq(Stored) /\ m.out \in Seq(Stored) /\ m.inbox \in Seq(Message)
         /\ m.kept \subseteq Stored /\ m.cursor \in Nat
  BY DEF Listers

\* The handler returns with status n, having read everything when that is 200
\* and its caller is there.
Answer(m, l, n) ==
  /\ l = [m EXCEPT !.pc = "answered", !.status = n] /\ n \in Nat
  /\ n = 200 /\ ~m.gone => m.out = <<>> /\ m.closer # "waiting"

LEMMA AnswerKeeps ==
  ASSUME ListingInv, NEW r \in Lister, NEW l, NEW n, Answer(lister[r], l, n),
         ListerBecomes(r, l), store' = store, lastSeq' = lastSeq
  PROVE  ListingInv'
<1>. PICK m : m = lister[r]
  OBVIOUS
<1>0. m \in Listers /\ Counted(m) /\ Ordered(m) /\ Covered(m)
  BY DEF ListingInv
<1>1. /\ l = [m EXCEPT !.pc = "answered", !.status = n] /\ n \in Nat
      /\ n = 200 /\ ~m.gone => m.out = <<>> /\ m.closer # "waiting"
  BY DEF Answer
<1>2. /\ l \in Listers /\ Agree(l, m) /\ l.pc = "answered" /\ l.status = n /\ l.gone = m.gone
      /\ l.limit = m.limit /\ l.sub = m.sub /\ l.closer = m.closer /\ l.filter = m.filter
  BY <1>0, <1>1, Zenon DEF Listers, Agree
<1>3. Counted(l)
  BY <1>0, <1>2, Zenon DEF Counted, Agree
<1>4. Ordered(l)
  BY <1>0, <1>1, <1>2, ZenonT(30) DEF Ordered, Agree
<1>5. Covered(l)
  <2>1. \A t \in Stored : Shown(m, t) => Shown(l, t)
    BY <1>2, SameShown, ZenonT(30) DEF Agree
  <2>2. m.kept \subseteq Stored
    BY <1>0, Lengths, ZenonT(30)
  <2>. QED
    BY <1>0, <1>2, <2>1, <2>2, SameCover, Zenon DEF Agree
<1>. QED
  BY <1>2, <1>3, <1>4, <1>5, OneLister, ZenonT(30)

\* The handler before it reads the channel.
LEMMA StartKeeps ==
  ASSUME ListingInv, NEW r \in Lister,
         \/ \E p \in Limits, ndjson \in BOOLEAN, filter \in Filters : ListTasks(r, p, ndjson, filter)
         \/ Tasks(r) \/ NewConsumer(r) \/ TasksFails(r)
  PROVE  ListingInv'
<1>. PICK m : m = lister[r]
  OBVIOUS
<1>0. m \in Listers /\ Counted(m) /\ Ordered(m) /\ Covered(m)
  BY DEF ListingInv
<1>1. ASSUME NEW p \in Limits, NEW ndjson \in BOOLEAN, NEW filter \in Filters,
             ListTasks(r, p, ndjson, filter)
      PROVE  ListingInv'
  <2>1. store' = store /\ lastSeq' = lastSeq /\ m.pc = "idle" /\ m.cnt = 0 /\ ~m.sub /\ m.closer = "none"
    BY <1>0, <1>1, Zenon DEF ListTasks, Ordered
  <2>3. ASSUME p = Absent \/ ~(p < 1),
               ListerBecomes(r, [m EXCEPT !.pc = "tasks", !.ndjson = ndjson, !.filter = filter,
                                          !.limit = EffectiveLimit(p)])
        PROVE  ListingInv'
    <3>1. PICK l : l = [m EXCEPT !.pc = "tasks", !.ndjson = ndjson, !.filter = filter,
                                 !.limit = EffectiveLimit(p)]
      OBVIOUS
    <3>2. EffectiveLimit(p) \in Nat /\ EffectiveLimit(p) > 0 /\ filter \in SUBSET Stored
      BY <2>3, LimitPositive, ListingAssumption, ZenonT(30)
    <3>3. /\ l \in Listers /\ Agree(l, m) /\ l.pc = "tasks" /\ l.status = m.status
          /\ l.limit = EffectiveLimit(p) /\ l.sub = m.sub /\ l.closer = m.closer
      BY <1>0, <3>1, <3>2, ZenonT(30) DEF Listers, Agree
    <3>4. Counted(l)
      <4>1. /\ m.cnt = 0 /\ Len(l.listed) + Len(l.out) <= m.cnt /\ l.cnt = m.cnt
        BY <1>0, <2>1, <3>3, Zenon DEF Counted, Agree
      <4>2. ~l.sub
        BY <2>1, <3>3, Zenon
      <4>3. l.cnt <= l.limit /\ l.cnt = 0 /\ l.limit > 0
        BY <3>2, <3>3, <4>1, SMTT(30)
      <4>. QED
        BY <4>1, <4>2, <4>3, Zenon DEF Counted
    <3>5. Ordered(l)
      BY <1>0, <2>1, <3>3, SMTT(30) DEF Ordered, Agree
    <3>6. Covered(l)
      BY <1>0, <2>1, <3>3, ZenonT(30) DEF Ordered, Agree, Covered
    <3>. QED
      BY <2>1, <2>3, <3>1, <3>3, <3>4, <3>5, <3>6, OneLister, ZenonT(30)
  <2>4. \/ ListerBecomes(r, [m EXCEPT !.pc = "answered", !.status = 429])
        \/ ListerBecomes(r, [m EXCEPT !.pc = "answered", !.status = 400])
        \/ /\ p = Absent \/ ~(p < 1)
           /\ ListerBecomes(r, [m EXCEPT !.pc = "tasks", !.ndjson = ndjson, !.filter = filter,
                                          !.limit = EffectiveLimit(p)])
    BY <1>1, Zenon DEF ListTasks
  <2>. QED
    <3>1. ASSUME NEW n \in {429, 400}, ListerBecomes(r, [m EXCEPT !.pc = "answered", !.status = n])
          PROVE  ListingInv'
      <4>1. PICK l : l = [m EXCEPT !.pc = "answered", !.status = n]
        OBVIOUS
      <4>2. n \in Nat /\ n # 200
        OBVIOUS
      <4>3. Answer(lister[r], l, n) /\ ListerBecomes(r, l)
        BY <3>1, <4>1, <4>2, ZenonT(30) DEF Answer
      <4>. QED
        BY <2>1, <4>3, AnswerKeeps
    <3>. QED
      BY <2>3, <2>4, <3>1, ZenonT(30)
<1>2. ASSUME Tasks(r) PROVE ListingInv'
  <2>1. store' = store /\ lastSeq' = lastSeq /\ m.pc = "tasks"
    BY <1>2, ZenonT(30) DEF Tasks
  <2>2. m.closer = "none" /\ m.cnt = 0 /\ m.limit > 0
    BY <1>0, <2>1, ZenonT(30) DEF Counted, Ordered
  <2>3. ASSUME ListerAnswers(r, m, 200) PROVE ListingInv'
    <3>1. m.out = <<>>
      <4>1. m.out \in Seq(Stored) /\ Len(m.listed) \in Nat
        BY <1>0, Lengths, ZenonT(30)
      <4>2. Len(m.listed) + Len(m.out) <= m.cnt
        BY <1>0, Zenon DEF Counted
      <4>3. Len(m.out) = 0
        BY <1>0, <2>2, <4>2, Lengths, Counting, Zenon
      <4>. QED
        BY <4>1, <4>3
    <3>2. PICK l : l = [m EXCEPT !.pc = "answered", !.status = 200]
      OBVIOUS
    <3>3. Answer(lister[r], l, 200) /\ ListerBecomes(r, l)
      BY <2>2, <2>3, <3>1, <3>2, ZenonT(30) DEF ListerAnswers, Answer
    <3>. QED
      BY <2>1, <3>3, AnswerKeeps, ZenonT(30)
  <2>4. ASSUME ListerBecomes(r, [m EXCEPT !.pc = "consumer", !.sub = TRUE]) PROVE ListingInv'
    <3>1. PICK l : l = [m EXCEPT !.pc = "consumer", !.sub = TRUE]
      OBVIOUS
    <3>2. /\ l \in Listers /\ Agree(l, m) /\ l.pc = "consumer" /\ l.status = m.status
          /\ l.limit = m.limit /\ l.closer = m.closer
      BY <1>0, <3>1, Zenon DEF Listers, Agree
    <3>3. Counted(l)
      BY <1>0, <2>2, <3>2, Zenon DEF Counted, Agree
    <3>4. Ordered(l)
      BY <1>0, <2>1, <2>2, <3>2, SMTT(30) DEF Ordered, Agree
    <3>5. Covered(l)
      BY <1>0, <2>2, <3>2, ZenonT(30) DEF Ordered, Agree, Covered
    <3>. QED
      BY <2>1, <2>4, <3>1, <3>2, <3>3, <3>4, <3>5, OneLister, ZenonT(30)
  <2>. QED
    BY <1>2, <2>3, <2>4, ZenonT(30) DEF Tasks
<1>3. ASSUME NewConsumer(r) PROVE ListingInv'
  <2>1. PICK l : l = [m EXCEPT !.pc = "read", !.closer = "waiting", !.kept = InStore]
    OBVIOUS
  <2>2. UNCHANGED <<store, lastSeq>> /\ m.pc = "consumer" /\ ListerBecomes(r, l)
    BY <1>3, <2>1, ZenonT(30) DEF NewConsumer
  <2>3. /\ l \in Listers /\ l.pc = "read" /\ l.status = m.status /\ l.limit = m.limit /\ l.sub = m.sub
        /\ l.listed = m.listed /\ l.out = m.out /\ l.cnt = m.cnt /\ l.closer = "waiting"
        /\ l.kept = InStore /\ l.cursor = m.cursor /\ l.inbox = m.inbox /\ l.drained = m.drained
    BY <1>0, <2>1, Zenon DEF Listers, InStore
  <2>4. Counted(l) /\ Ordered(l) /\ l.cursor = 0 /\ ~l.drained /\ l.inbox = <<>>
    BY <1>0, <2>2, <2>3, ZenonT(30) DEF Counted, Ordered
  <2>5. Covered(l)
    BY <2>3, <2>4 DEF Covered, Wanted, InStore, ListingInv, StoreInv
  <2>. QED
    BY <2>2, <2>3, <2>4, <2>5, OneLister, ZenonT(30)
<1>4. ASSUME TasksFails(r) PROVE ListingInv'
  <2>1. PICK l : l = [m EXCEPT !.pc = "answered", !.status = 500]
    OBVIOUS
  <2>2. store' = store /\ lastSeq' = lastSeq /\ ListerBecomes(r, l)
    BY <1>4, <2>1, ZenonT(30) DEF TasksFails, ListerAnswers
  <2>3. Answer(lister[r], l, 500)
    BY <2>1 DEF Answer
  <2>. QED
    BY <2>2, <2>3, AnswerKeeps
<1>. QED
  BY <1>1, <1>2, <1>3, <1>4, ZenonT(30)

\* The server pushes the next message: what was ahead is it, or still ahead.
LEMMA PushKeeps ==
  ASSUME ListingInv, NEW r \in Lister, Push(r)
  PROVE  ListingInv'
<1>. PICK m : m = lister[r]
  OBVIOUS
<1>0. m \in Listers /\ Counted(m) /\ Ordered(m) /\ Covered(m)
  BY DEF ListingInv
<1>. DEFINE ahead == {t \in Stored : store[t] > m.cursor}
<1>1. PICK t \in ahead :
        /\ \A u \in ahead : store[t] <= store[u]
        /\ ListerBecomes(r, [m EXCEPT
             !.cursor = store[t],
             !.inbox = Append(@, [task |-> t, numPending |-> Cardinality(ahead) - 1])])
  BY Zenon DEF Push
<1>2. UNCHANGED <<store, lastSeq>> /\ m.sub /\ m.closer # "none"
  BY ZenonT(30) DEF Push
<1>3. /\ IsFiniteSet(ahead) /\ Cardinality(ahead) \in Nat /\ Cardinality(ahead) > 0
      /\ Cardinality(ahead) = 1 => ahead = {t}
  <2>1. IsFiniteSet(ahead)
    BY ListingAssumption, FS_Subset, ZenonT(30)
  <2>2. Cardinality(ahead) \in Nat /\ Cardinality(ahead) # 0
    BY <2>1, FS_CardinalityType, FS_EmptySet, ZenonT(30)
  <2>3. Cardinality(ahead) = 1 => ahead = {t}
    BY <2>1, FS_Singleton
  <2>. QED
    BY <2>1, <2>2, <2>3
<1>4. PICK n \in Nat : n = Cardinality(ahead) - 1
  <2>1. Cardinality(ahead) - 1 \in Nat
    BY <1>3
  <2>. QED
    BY <2>1, Zenon
<1>5. PICK l : l = [m EXCEPT !.cursor = store[t], !.inbox = Append(@, [task |-> t, numPending |-> n])]
  OBVIOUS
<1>6. ListerBecomes(r, l) /\ (n = 0 => ahead = {t}) /\ t \in Stored /\ store[t] > m.cursor
  BY <1>1, <1>3, <1>4, <1>5, SMTT(30)
<1>7. ASSUME NEW u \in Stored, store[u] > m.cursor
      PROVE  u = t \/ (store[u] > store[t] /\ n # 0)
  <2>1. u \in ahead /\ store[t] <= store[u] /\ store[u] \in Nat /\ store[t] \in Nat
    BY <1>1, <1>7, ZenonT(30) DEF ListingInv, StoreInv
  <2>2. m.cursor \in Nat
    BY <1>0, ZenonT(30) DEF Listers
  <2>3. store[u] = store[t] => u = t
    BY <1>6, <1>7, <2>1, <2>2, SMTT(30) DEF ListingInv, StoreInv, InStore
  <2>4. n = 0 => u = t
    BY <1>6, <2>1, ZenonT(30)
  <2>. QED
    BY <2>1, <2>3, <2>4
<1>. HIDE DEF ahead
<1>8. /\ l.cursor = store[t] /\ l.kept = m.kept /\ l.listed = m.listed /\ l.out = m.out
      /\ l.filter = m.filter /\ l.drained = m.drained /\ l.inbox = Append(m.inbox, [task |-> t, numPending |-> n])
      /\ store[t] \in Nat /\ m.kept \subseteq Stored
  BY <1>0, <1>5, <1>6, ZenonT(30) DEF Listers, ListingInv, StoreInv
<1>9. l \in Listers
  <2>1. l.inbox \in Seq(Message)
    <3>1. m.inbox \in Seq(Message)
      BY <1>0, Lengths, ZenonT(30)
    <3>2. [task |-> t, numPending |-> n] \in Message
      BY <1>6, ZenonT(30) DEF Message
    <3>. QED
      BY <1>8, <3>1, <3>2
  <2>. QED
    BY <1>0, <1>5, <1>8, <2>1, Zenon DEF Listers
<1>10. Counted(l) /\ Ordered(l)
  <2>1. /\ l.pc = m.pc /\ l.status = m.status /\ l.limit = m.limit /\ l.sub = m.sub
        /\ l.cnt = m.cnt /\ l.closer = m.closer /\ l.gone = m.gone
    BY <1>0, <1>5, ZenonT(30) DEF Listers
  <2>2. Counted(l)
    BY <1>0, <1>2, <1>8, <2>1, ZenonT(30) DEF Counted
  <2>3. Ordered(l)
    BY <1>0, <1>2, <1>8, <2>1, ZenonT(30) DEF Ordered
  <2>. QED
    BY <2>2, <2>3, Zenon
<1>11. /\ Len(m.inbox) \in Nat /\ Len(l.inbox) = Len(m.inbox) + 1
       /\ l.inbox[Len(m.inbox) + 1].task = t /\ l.inbox[Len(m.inbox) + 1].numPending = n
       /\ \A i \in 1..Len(m.inbox) : l.inbox[i] = m.inbox[i]
  <2>1. PICK s \in Seq(Message), x \in Message : s = m.inbox /\ x = [task |-> t, numPending |-> n]
    <3>1. m.inbox \in Seq(Message)
      BY <1>0, Lengths
    <3>2. [task |-> t, numPending |-> n] \in Message
      BY <1>6 DEF Message
    <3>. QED
      BY <3>1, <3>2, Zenon
  <2>2. /\ Len(s) \in Nat /\ Len(Append(s, x)) = Len(s) + 1 /\ Append(s, x)[Len(s) + 1] = x
        /\ \A i \in 1..Len(s) : Append(s, x)[i] = s[i]
    BY SMTT(30)
  <2>3. x.task = t /\ x.numPending = n
    BY <2>1, ZenonT(30)
  <2>. QED
    BY <1>8, <2>1, <2>2, <2>3, Zenon
<1>12. /\ Queued(l, t, Len(l.inbox))
       /\ \A u : \A k \in 1..Len(m.inbox) : Queued(m, u, k) => Queued(l, u, k)
       /\ \A u : Queued(m, u, Len(m.inbox)) => Queued(l, u, Len(l.inbox))
  <2>1. Queued(l, t, Len(l.inbox))
    BY <1>11 DEF Queued
  <2>2. ASSUME NEW u, NEW k \in 1..Len(m.inbox), Queued(m, u, k) PROVE Queued(l, u, k)
    BY <1>11, <2>2, SMTT(30) DEF Queued
  <2>3. ASSUME NEW u, Queued(m, u, Len(m.inbox)) PROVE Queued(l, u, Len(l.inbox))
    BY <1>11, <2>3, SMTT(30) DEF Queued
  <2>. QED
    BY <2>1, <2>2, <2>3, ZenonT(30)
<1>13. \A u \in Stored : Shown(m, u) => Shown(l, u)
  BY <1>8, SameShown, ZenonT(30)
<1>14. ASSUME NEW u \in Wanted(l)
       PROVE  /\ Shown(l, u) \/ Queued(l, u, Len(l.inbox)) \/ store[u] > l.cursor
              /\ n = 0 => Shown(l, u) \/ Queued(l, u, Len(l.inbox))
              /\ \A k \in 1..Len(m.inbox) : m.inbox[k].numPending = 0 => Shown(l, u) \/ Queued(l, u, k)
              /\ l.drained => Shown(l, u)
  <2>1. u \in Stored /\ u \in Wanted(m)
    BY <1>8, ZenonT(30) DEF Wanted
  <2>2. Shown(m, u) \/ Queued(m, u, Len(m.inbox)) \/ store[u] > m.cursor
    BY <1>0, <1>2, <2>1, ZenonT(30) DEF Covered
  <2>3. \A k \in 1..Len(m.inbox) : m.inbox[k].numPending = 0 => Shown(m, u) \/ Queued(m, u, k)
    BY <1>0, <1>2, <2>1, ZenonT(30) DEF Covered
  <2>4. l.drained => Shown(m, u)
    BY <1>0, <1>8, <2>1, ZenonT(30) DEF Covered
  <2>5. store[u] > m.cursor => Queued(l, u, Len(l.inbox)) \/ (store[u] > l.cursor /\ n # 0)
    BY <1>7, <1>8, <1>12, <2>1, ZenonT(30)
  <2>. QED
    BY <1>12, <1>13, <2>1, <2>2, <2>3, <2>4, <2>5, ZenonT(30)
<1>15. Covered(l)
  <2>1. l.kept \subseteq InStore /\ l.cursor <= lastSeq
    BY <1>0, <1>6, <1>8, ZenonT(30) DEF Covered, ListingInv, StoreInv
  <2>2. ASSUME NEW k \in 1..Len(l.inbox), l.inbox[k].numPending = 0
        PROVE  \A u \in Wanted(l) : Shown(l, u) \/ Queued(l, u, k)
    <3>1. k = Len(l.inbox) \/ k \in 1..Len(m.inbox)
      BY <1>11
    <3>2. CASE k = Len(l.inbox)
      <4>1. n = 0
        BY <1>11, <2>2, <3>2, ZenonT(30)
      <4>. QED
        BY <1>14, <3>2, <4>1, ZenonT(30)
    <3>3. CASE k \in 1..Len(m.inbox)
      <4>1. m.inbox[k].numPending = 0
        BY <1>11, <2>2, <3>3, ZenonT(30)
      <4>. QED
        BY <1>14, <3>3, <4>1, ZenonT(30)
    <3>. QED
      BY <3>1, <3>2, <3>3, ZenonT(30)
  <2>. QED
    BY <1>14, <2>1, <2>2, ZenonT(30) DEF Covered
<1>. QED
  BY <1>2, <1>6, <1>9, <1>10, <1>15, OneLister, ZenonT(30)

\* The callback takes the head of the queue: it was about a task that does not
\* decode, or the reader has it now.
LEMMA CallbackKeeps ==
  ASSUME ListingInv, NEW r \in Lister, Callback(r)
  PROVE  ListingInv'
<1>. PICK m : m = lister[r]
  OBVIOUS
<1>0. m \in Listers /\ Counted(m) /\ Ordered(m) /\ Covered(m)
  BY DEF ListingInv
<1>1. UNCHANGED <<store, lastSeq>> /\ m.sub /\ m.inbox # <<>> /\ m.closer # "none"
  BY <1>0, ZenonT(30) DEF Callback, Ordered
<1>2. /\ m.inbox \in Seq(Message) /\ m.out \in Seq(Stored) /\ m.kept \subseteq Stored
      /\ Len(m.out) \in Nat /\ Len(m.listed) \in Nat /\ m.cnt \in Nat /\ m.limit \in Nat
  BY <1>0, Lengths, ZenonT(30)
<1>3. PICK msg : msg = Head(m.inbox)
  OBVIOUS
<1>4. /\ msg \in Message /\ msg = m.inbox[1] /\ Len(m.inbox) \in Nat /\ Len(m.inbox) > 0
      /\ Tail(m.inbox) \in Seq(Message) /\ Len(Tail(m.inbox)) = Len(m.inbox) - 1
      /\ \A i \in 1..(Len(m.inbox) - 1) : Tail(m.inbox)[i] = m.inbox[i + 1]
  BY <1>1, <1>2, <1>3
<1>5. msg.task \in Stored /\ msg.numPending \in Nat
  BY <1>4, ZenonT(30) DEF Message
<1>6. ASSUME NEW t, NEW k \in Nat, k < Len(m.inbox), Queued(m, t, k + 1), t # msg.task
      PROVE  \E i \in 1..k : Tail(m.inbox)[i].task = t
  <2>1. PICK i \in 1..(k + 1) : m.inbox[i].task = t
    BY <1>6, ZenonT(30) DEF Queued
  <2>2. i # 1
    BY <1>4, <1>6, <2>1, ZenonT(30)
  <2>3. i - 1 \in 1..k /\ i - 1 \in 1..(Len(m.inbox) - 1) /\ (i - 1) + 1 = i
    BY <1>4, <1>6, <2>2, SMTT(30)
  <2>4. Tail(m.inbox)[i - 1] = m.inbox[i]
    BY <1>4, <2>3, ZenonT(30)
  <2>. QED
    BY <2>1, <2>3, <2>4, Zenon
\* What holds of a listing whose queue lost its head, if the reader has got it
\* or does not want it.
<1>7. ASSUME NEW l, l.kept = m.kept, l.cursor = m.cursor, l.inbox = Tail(m.inbox),
             l.drained = m.drained, \A t \in Stored : Shown(m, t) => Shown(l, t),
             msg.task \in Unreadable \/ Shown(l, msg.task)
      PROVE  Covered(l)
  <2>1. l.kept \subseteq InStore /\ l.cursor <= lastSeq
    BY <1>0, <1>7, ZenonT(30) DEF Covered
  <2>2. ASSUME NEW t \in Wanted(l), NEW k \in Nat, k < Len(m.inbox), Queued(m, t, k + 1)
        PROVE  Shown(l, t) \/ Queued(l, t, k)
    <3>1. CASE t = msg.task
      BY <1>7, <3>1, ZenonT(30) DEF Wanted
    <3>2. CASE t # msg.task
      BY <1>6, <1>7, <2>2, <3>2, ZenonT(30) DEF Queued
    <3>. QED
      BY <3>1, <3>2, ZenonT(30)
  <2>3. ASSUME NEW t \in Wanted(l)
        PROVE  Shown(l, t) \/ Queued(l, t, Len(l.inbox)) \/ store[t] > l.cursor
    <3>1. t \in Wanted(m) /\ t \in Stored
      BY <1>2, <1>7, ZenonT(30) DEF Wanted
    <3>2. Shown(m, t) \/ Queued(m, t, Len(m.inbox)) \/ store[t] > m.cursor
      BY <1>0, <1>1, <3>1, ZenonT(30) DEF Covered
    <3>3. Len(l.inbox) \in Nat /\ Len(l.inbox) < Len(m.inbox) /\ Len(l.inbox) + 1 = Len(m.inbox)
      BY <1>4, <1>7
    <3>4. Queued(m, t, Len(m.inbox)) => Shown(l, t) \/ Queued(l, t, Len(l.inbox))
      BY <2>2, <3>3, ZenonT(30)
    <3>. QED
      BY <1>7, <3>1, <3>2, <3>4, ZenonT(30)
  <2>4. ASSUME NEW k \in 1..Len(l.inbox), l.inbox[k].numPending = 0, NEW t \in Wanted(l)
        PROVE  Shown(l, t) \/ Queued(l, t, k)
    <3>1. t \in Wanted(m) /\ t \in Stored
      BY <1>2, <1>7, ZenonT(30) DEF Wanted
    <3>2. k \in Nat /\ k < Len(m.inbox) /\ k + 1 \in 1..Len(m.inbox) /\ l.inbox[k] = m.inbox[k + 1]
      BY <1>4, <1>7
    <3>3. Shown(m, t) \/ Queued(m, t, k + 1)
      BY <1>0, <1>1, <2>4, <3>1, <3>2, ZenonT(30) DEF Covered
    <3>. QED
      BY <1>7, <2>2, <3>1, <3>2, <3>3, ZenonT(30)
  <2>5. l.drained => \A t \in Wanted(l) : Shown(l, t)
    BY <1>0, <1>2, <1>7, ZenonT(30) DEF Covered, Wanted
  <2>. QED
    BY <2>1, <2>3, <2>4, <2>5, ZenonT(30) DEF Covered
<1>8. ASSUME msg.task \in Unreadable, ListerBecomes(r, [m EXCEPT !.inbox = Tail(@)])
      PROVE  ListingInv'
  <2>1. PICK l : l = [m EXCEPT !.inbox = Tail(@)]
    BY Zenon
  <2>2. /\ l \in Listers /\ l.pc = m.pc /\ l.status = m.status /\ l.limit = m.limit /\ l.sub = m.sub
        /\ l.listed = m.listed /\ l.out = m.out /\ l.cnt = m.cnt /\ l.closer = m.closer /\ l.gone = m.gone
        /\ l.kept = m.kept /\ l.cursor = m.cursor /\ l.inbox = Tail(m.inbox) /\ l.drained = m.drained
        /\ l.filter = m.filter
    BY <1>0, <1>4, <2>1, Zenon DEF Listers
  <2>3. Counted(l) /\ Ordered(l)
    BY <1>0, <1>1, <2>2, ZenonT(30) DEF Counted, Ordered
  <2>4. Covered(l)
    BY <1>7, <1>8, <2>2, SameShown
  <2>. QED
    BY <1>1, <1>8, <2>1, <2>2, <2>3, <2>4, OneLister, ZenonT(30)
<1>9. ASSUME ListerBecomes(r, Send(m, msg)), m.closer # "closed" PROVE ListingInv'
  <2>. DEFINE ends == msg.numPending = 0 \/ m.cnt + 1 = m.limit
  <2>1. PICK l : l = Send(m, msg)
    OBVIOUS
  <2>2. m.cnt < m.limit /\ Len(m.listed) + Len(m.out) <= m.cnt /\ Len(m.out) # m.limit
    <3>1. m.cnt < m.limit /\ Len(m.listed) + Len(m.out) <= m.cnt
      BY <1>0, <1>1, Zenon DEF Counted
    <3>2. Len(m.out) # m.limit
      BY <1>2, <3>1, Counting, Zenon
    <3>. QED
      BY <3>1, <3>2, Zenon
  <2>3. l = [m EXCEPT !.inbox = IF ends THEN <<>> ELSE Tail(@), !.out = Append(@, msg.task),
                      !.cnt = @ + 1, !.sub = @ /\ ~ends, !.done = @ \/ ends,
                      !.drained = @ \/ msg.numPending = 0]
    BY <2>1, <2>2, Zenon DEF Send
  <2>4. /\ l.pc = m.pc /\ l.status = m.status /\ l.limit = m.limit /\ l.sub = (m.sub /\ ~ends)
        /\ l.listed = m.listed /\ l.out = Append(m.out, msg.task) /\ l.cnt = m.cnt + 1
        /\ l.closer = m.closer /\ l.gone = m.gone /\ l.kept = m.kept /\ l.cursor = m.cursor
        /\ l.inbox = (IF ends THEN <<>> ELSE Tail(m.inbox))
        /\ l.drained = (m.drained \/ msg.numPending = 0) /\ l.filter = m.filter
    BY <1>0, <2>3, ZenonT(30) DEF Listers
  <2>5. l \in Listers
    <3>1. l.inbox \in Seq(Message) /\ l.out \in Seq(Stored) /\ l.cnt \in Nat
      BY <1>2, <1>4, <1>5, <2>4, SMTT(30)
    <3>2. PICK sub \in BOOLEAN : sub = (m.sub /\ ~ends)
      BY Zenon
    <3>3. PICK done \in BOOLEAN : done = (m.done \/ ends)
      BY Zenon
    <3>4. PICK drained \in BOOLEAN : drained = (m.drained \/ msg.numPending = 0)
      BY Zenon
    <3>5. l = [m EXCEPT !.inbox = l.inbox, !.out = l.out, !.cnt = l.cnt, !.sub = sub, !.done = done,
                        !.drained = drained]
      BY <2>3, <2>4, <3>2, <3>3, <3>4, ZenonT(30)
    <3>. QED
      BY <1>0, <3>1, <3>5, ZenonT(30) DEF Listers
  <2>6. Counted(l)
    <3>1. Len(l.out) = Len(m.out) + 1
      BY <1>2, <1>5, <2>4
    <3>2. /\ Len(m.listed) + (Len(m.out) + 1) <= m.cnt + 1 /\ m.cnt + 1 <= m.limit
          /\ ~ends => m.cnt + 1 < m.limit
      <4>1. ~ends => m.cnt + 1 # m.limit
        BY Zenon
      <4>2. PICK a \in Nat, b \in Nat, c \in Nat, n \in Nat :
              a = Len(m.listed) /\ b = Len(m.out) /\ c = m.cnt /\ n = m.limit
        BY <1>2, Zenon
      <4>3. /\ a + (b + 1) <= c + 1 /\ c + 1 <= n
            /\ c + 1 # n => c + 1 < n
        <5>1. a + b <= c /\ c < n
          BY <2>2, <4>2, Zenon
        <5>. QED
          BY <5>1, Counting, Zenon
      <4>. QED
        BY <4>1, <4>2, <4>3, Zenon
    <3>3. l.pc # "tasks"
      BY <1>0, <1>1, <2>4, Zenon DEF Ordered
    <3>. QED
      BY <2>4, <3>1, <3>2, <3>3, ZenonT(30) DEF Counted
  <2>7. Ordered(l)
    <3>1. m.closer = "waiting"
      BY <1>0, <1>1, <1>9, ZenonT(30) DEF Ordered, Listers
    <3>2. l.closer = "waiting" /\ l.pc = m.pc /\ l.status = m.status /\ l.gone = m.gone
      BY <2>4, <3>1, ZenonT(30)
    <3>. QED
      BY <1>0, <3>1, <3>2, ZenonT(30) DEF Ordered
  <2>8. /\ \A t \in Stored : Shown(m, t) => Shown(l, t)
        /\ Shown(l, msg.task)
    BY <1>2, <1>5, <2>4, HasAppend, SMTT(30) DEF Shown
  <2>9. CASE ~ends
    <3>1. l.inbox = Tail(m.inbox) /\ l.drained = m.drained
      BY <1>0, <2>4, <2>9, ZenonT(30) DEF Listers
    <3>2. Covered(l)
      BY <1>7, <2>4, <2>8, <3>1, ZenonT(30)
    <3>. QED
      BY <1>1, <1>9, <2>1, <2>5, <2>6, <2>7, <3>2, OneLister, ZenonT(30)
  <2>10. CASE ends
    <3>1. ~l.sub
      BY <2>4, <2>10, Zenon
    <3>2. ASSUME l.drained, NEW t \in Wanted(l) PROVE Shown(l, t)
      <4>1. t \in Wanted(m) /\ t \in Stored
        BY <1>2, <2>4, ZenonT(30) DEF Wanted
      <4>2. CASE m.drained
        BY <1>0, <2>8, <4>1, <4>2, ZenonT(30) DEF Covered
      <4>3. CASE msg.numPending = 0
        <5>1. 1 \in 1..Len(m.inbox) /\ m.inbox[1].numPending = 0
          BY <1>4, <4>3, SMTT(30)
        <5>2. Shown(m, t) \/ Queued(m, t, 1)
          BY <1>0, <1>1, <4>1, <5>1, ZenonT(30) DEF Covered
        <5>3. Queued(m, t, 1) => t = msg.task
          BY <1>4, SMTT(30) DEF Queued
        <5>. QED
          BY <2>8, <4>1, <5>2, <5>3, ZenonT(30)
      <4>. QED
        BY <2>4, <3>2, <4>2, <4>3, ZenonT(30)
    <3>3. Covered(l)
      BY <1>0, <2>4, <3>1, <3>2, ZenonT(30) DEF Covered
    <3>. QED
      BY <1>1, <1>9, <2>1, <2>5, <2>6, <2>7, <3>3, OneLister, ZenonT(30)
  <2>. QED
    BY <2>9, <2>10, ZenonT(30)
<1>10. \/ msg.task \in Unreadable /\ ListerBecomes(r, [m EXCEPT !.inbox = Tail(@)])
       \/ UNCHANGED lister
       \/ m.closer # "closed" /\ ListerBecomes(r, Send(m, msg))
  BY <1>3, Zenon DEF Callback
<1>. QED
  BY <1>1, <1>8, <1>9, <1>10, SameListing, ZenonT(30)

\* The timeout, the closing goroutine and the caller.
LEMMA ControlKeeps ==
  ASSUME ListingInv, NEW r \in Lister, Expire(r) \/ CloseOut(r) \/ Disconnect(r)
  PROVE  ListingInv'
<1>. PICK m : m = lister[r]
  OBVIOUS
<1>0. m \in Listers /\ Counted(m) /\ Ordered(m) /\ Covered(m)
  BY DEF ListingInv
<1>1. ASSUME NEW l, ListerBecomes(r, l), store' = store, lastSeq' = lastSeq, l \in Listers, Agree(l, m),
             l.pc = m.pc, l.status = m.status, l.limit = m.limit, l.sub = m.sub, l.filter = m.filter,
             l.closer = m.closer \/ (m.closer = "waiting" /\ l.closer = "closed"), m.gone => l.gone
      PROVE  ListingInv'
  <2>1. Counted(l)
    BY <1>0, <1>1, Zenon DEF Counted, Agree
  <2>2. Ordered(l)
    BY <1>0, <1>1, SMTT(30) DEF Ordered, Agree
  <2>3. \A t \in Stored : Shown(m, t) => Shown(l, t)
    BY <1>1, SameShown, ZenonT(30) DEF Agree
  <2>4. m.kept \subseteq Stored
    BY <1>0, Lengths, ZenonT(30)
  <2>5. Covered(l)
    BY <1>0, <1>1, <2>3, <2>4, SameCover, ZenonT(30) DEF Agree
  <2>. QED
    BY <1>1, <2>1, <2>2, <2>5, OneLister, ZenonT(30)
<1>2. CASE Expire(r)
  <2>1. PICK l : l = [m EXCEPT !.done = TRUE]
    BY Zenon
  <2>2. ListerBecomes(r, l) /\ store' = store /\ lastSeq' = lastSeq
    BY <1>2, <2>1, ZenonT(30) DEF Expire
  <2>3. /\ l \in Listers /\ Agree(l, m) /\ l.pc = m.pc /\ l.status = m.status /\ l.limit = m.limit
        /\ l.sub = m.sub /\ l.filter = m.filter /\ l.closer = m.closer /\ l.gone = m.gone
    BY <1>0, <2>1, Zenon DEF Listers, Agree
  <2>. QED
    BY <1>1, <2>2, <2>3, ZenonT(30)
<1>3. CASE CloseOut(r)
  <2>1. PICK l : l = [m EXCEPT !.closer = "closed"]
    BY Zenon
  <2>2. ListerBecomes(r, l) /\ store' = store /\ lastSeq' = lastSeq /\ m.closer = "waiting"
    BY <1>3, <2>1, ZenonT(30) DEF CloseOut
  <2>3. /\ l \in Listers /\ Agree(l, m) /\ l.pc = m.pc /\ l.status = m.status /\ l.limit = m.limit
        /\ l.sub = m.sub /\ l.filter = m.filter /\ l.closer = "closed" /\ l.gone = m.gone
    BY <1>0, <2>1, Zenon DEF Listers, Agree
  <2>. QED
    BY <1>1, <2>2, <2>3, ZenonT(30)
<1>4. CASE Disconnect(r)
  <2>1. PICK l : l = [m EXCEPT !.gone = TRUE]
    BY Zenon
  <2>2. ListerBecomes(r, l) /\ store' = store /\ lastSeq' = lastSeq
    BY <1>4, <2>1, ZenonT(30) DEF Disconnect
  <2>3. /\ l \in Listers /\ Agree(l, m) /\ l.pc = m.pc /\ l.status = m.status /\ l.limit = m.limit
        /\ l.sub = m.sub /\ l.filter = m.filter /\ l.closer = m.closer /\ l.gone
    BY <1>0, <2>1, Zenon DEF Listers, Agree
  <2>. QED
    BY <1>1, <2>2, <2>3, ZenonT(30)
<1>. QED
  BY <1>2, <1>3, <1>4, ZenonT(30)

LEMMA UnsubscribeKeeps ==
  ASSUME ListingInv, NEW r \in Lister, Unsubscribe(r)
  PROVE  ListingInv'
<1>. PICK m : m = lister[r]
  OBVIOUS
<1>0. m \in Listers /\ Counted(m) /\ Ordered(m) /\ Covered(m)
  BY DEF ListingInv
<1>1. PICK l : l = [m EXCEPT !.closer = "ended", !.sub = FALSE, !.inbox = <<>>]
  OBVIOUS
<1>2. ListerBecomes(r, l) /\ store' = store /\ lastSeq' = lastSeq /\ m.closer = "closed"
  BY <1>1 DEF Unsubscribe
<1>3. /\ l \in Listers /\ l.pc = m.pc /\ l.status = m.status /\ l.limit = m.limit /\ ~l.sub
      /\ l.listed = m.listed /\ l.out = m.out /\ l.cnt = m.cnt /\ l.closer = "ended" /\ l.gone = m.gone
      /\ l.kept = m.kept /\ l.cursor = m.cursor /\ l.drained = m.drained /\ l.filter = m.filter
  <2>. <<>> \in Seq(Message)
    OBVIOUS
  <2>1. PICK e \in Seq(Message) : e = <<>>
    BY Zenon
  <2>2. PICK f \in BOOLEAN : f = FALSE
    BY Zenon
  <2>3. l = [m EXCEPT !.closer = "ended", !.sub = f, !.inbox = e]
    BY <1>1, <2>1, <2>2, Zenon
  <2>4. l \in Listers
    BY <1>0, <2>3, ZenonT(30) DEF Listers
  <2>. QED
    BY <1>0, <1>1, <2>4, ZenonT(30) DEF Listers
<1>4. Counted(l)
  BY <1>0, <1>3, Zenon DEF Counted
<1>5. Ordered(l)
  BY <1>0, <1>2, <1>3, ZenonT(30) DEF Ordered
<1>6. Covered(l)
  BY <1>0, <1>3, SMTT(30) DEF Covered, Wanted, Shown
<1>. QED
  BY <1>2, <1>3, <1>4, <1>5, <1>6, OneLister, ZenonT(30)

\* The reader: what it takes off the channel it lists or does not want.
LEMMA ReadKeeps ==
  ASSUME ListingInv, NEW r \in Lister, ReadTask(r)
  PROVE  ListingInv'
<1>. PICK m : m = lister[r]
  OBVIOUS
<1>0. m \in Listers /\ Counted(m) /\ Ordered(m) /\ Covered(m)
  BY DEF ListingInv
<1>1. PICK listed : listed = IF Head(m.out) \in m.filter THEN Append(m.listed, Head(m.out)) ELSE m.listed
  BY Zenon
<1>2. PICK l : l = [m EXCEPT !.out = Tail(@), !.listed = listed]
  OBVIOUS
<1>3. ListerBecomes(r, l) /\ store' = store /\ lastSeq' = lastSeq /\ m.pc = "read" /\ m.out # <<>>
  BY <1>1, <1>2, ZenonT(30) DEF ReadTask
<1>4. /\ m.listed \in Seq(Stored) /\ m.out \in Seq(Stored) /\ m.kept \subseteq Stored
      /\ Len(m.listed) \in Nat /\ Len(m.out) \in Nat /\ m.cnt \in Nat
  BY <1>0, Lengths, ZenonT(30)
<1>5. /\ Tail(m.out) \in Seq(Stored) /\ Head(m.out) \in Stored /\ listed \in Seq(Stored)
      /\ Len(Tail(m.out)) = Len(m.out) - 1 /\ Len(listed) \in {Len(m.listed), Len(m.listed) + 1}
  BY <1>1, <1>3, <1>4, SMTT(30)
<1>6. /\ l \in Listers /\ l.pc = m.pc /\ l.status = m.status /\ l.limit = m.limit /\ l.sub = m.sub
      /\ l.listed = listed /\ l.out = Tail(m.out) /\ l.cnt = m.cnt /\ l.closer = m.closer
      /\ l.gone = m.gone /\ l.kept = m.kept /\ l.cursor = m.cursor /\ l.drained = m.drained
      /\ l.filter = m.filter /\ l.inbox = m.inbox
  BY <1>0, <1>2, <1>5, Zenon DEF Listers
<1>7. Counted(l)
  <2>1. Len(m.listed) + Len(m.out) <= m.cnt
    BY <1>0, Zenon DEF Counted
  <2>2. Len(listed) + Len(Tail(m.out)) <= m.cnt
    <3>1. Len(m.listed) + (Len(m.out) - 1) <= m.cnt /\ (Len(m.listed) + 1) + (Len(m.out) - 1) <= m.cnt
      BY <1>4, <2>1, Counting, Zenon
    <3>. QED
      BY <1>5, <3>1, Zenon
  <2>. QED
    BY <1>0, <1>6, <2>2, Zenon DEF Counted
<1>8. Ordered(l)
  BY <1>0, <1>3, <1>6, ZenonT(30) DEF Ordered
<1>9. ASSUME NEW t \in Stored, Shown(m, t) PROVE Shown(l, t)
  <2>1. Has(m.listed, t) => Has(listed, t)
    BY <1>1, <1>4, <1>5, HasAppend, ZenonT(30)
  <2>2. Has(m.out, t) => Has(Tail(m.out), t) \/ t \notin m.filter \/ Has(listed, t)
    BY <1>1, <1>3, <1>4, <1>5, HasAppend, HasTail, SMTT(30)
  <2>. QED
    BY <1>6, <1>9, <2>1, <2>2, ZenonT(30) DEF Shown
<1>10. Covered(l)
  BY <1>0, <1>4, <1>6, <1>9, SameCover, ZenonT(30)
<1>. QED
  BY <1>3, <1>6, <1>7, <1>8, <1>10, OneLister, ZenonT(30)

LEMMA EndKeeps ==
  ASSUME ListingInv, NEW r \in Lister, ReadEnd(r) \/ StreamEnd(r)
  PROVE  ListingInv'
<1>1. PICK l : l = [lister[r] EXCEPT !.pc = "answered", !.status = 200]
  OBVIOUS
<1>2. /\ ListerBecomes(r, l) /\ store' = store /\ lastSeq' = lastSeq
      /\ lister[r].gone \/ (lister[r].out = <<>> /\ lister[r].closer \in {"closed", "ended"})
  BY <1>1, ZenonT(30) DEF ReadEnd, StreamEnd, ListerAnswers
<1>3. Answer(lister[r], l, 200)
  BY <1>1, <1>2, ZenonT(30) DEF Answer
<1>. QED
  BY <1>2, <1>3, AnswerKeeps, ZenonT(30)

LEMMA NextListing == ListingInv /\ [ListingNext]_listingVars => ListingInv'
<1>. SUFFICES ASSUME ListingInv, [ListingNext]_listingVars PROVE ListingInv'
  OBVIOUS
<1>1. ASSUME NEW r \in Lister, Listing(r) PROVE ListingInv'
  BY <1>1, StartKeeps, PushKeeps, CallbackKeeps, ControlKeeps, UnsubscribeKeeps, ReadKeeps, EndKeeps, ZenonT(30)
  DEF Listing
<1>2. CASE UNCHANGED listingVars
  BY <1>2, SameListing, ZenonT(30) DEF listingVars
<1>. QED
  BY <1>1, <1>2, SaveKeeps, DeleteKeeps, StartKeeps, ControlKeeps, ZenonT(30) DEF ListingNext

\* A listing never hands its reader more tasks than its limit, counting the
\* ones in the channel: the callback of Tasks counts what it sends and
\* unsubscribes at the limit.
THEOREM LimitHolds == ListingSpec => []AtMostLimit
<1>1. ListingInv => AtMostLimit
  <2>. SUFFICES ASSUME ListingInv, NEW r \in Lister
                PROVE  Len(lister[r].listed) + Len(lister[r].out) <= lister[r].limit
    BY Zenon DEF AtMostLimit
  <2>. PICK m : m = lister[r]
    OBVIOUS
  <2>1. Len(m.listed) + Len(m.out) <= m.cnt /\ m.cnt <= m.limit /\ m \in Listers
    BY Zenon DEF ListingInv, Counted
  <2>2. m.cnt \in Nat /\ m.limit \in Nat /\ Len(m.listed) \in Nat /\ Len(m.out) \in Nat
    BY <2>1, Lengths, ZenonT(30)
  <2>. QED
    <3>1. PICK a, b, c, n \in Nat : a = Len(m.listed) /\ b = Len(m.out) /\ c = m.cnt /\ n = m.limit
      BY <2>2, Zenon
    <3>2. a + b <= c /\ c <= n
      BY <2>1, <3>1, Zenon
    <3>3. a + b <= n
      BY <3>2
    <3>. QED
      BY <3>1, <3>3, Zenon
<1>. QED
  BY <1>1, InitListing, NextListing, PTL DEF ListingSpec

\* A listing that reached the message with nothing pending shows a caller that
\* stayed every matching task that was there when the consumer was created and
\* was not deleted since, although a save moves a task to the end of the
\* stream and a message may be the last one only when it is pushed.
THEOREM ListingIsComplete == ListingSpec => []CompleteListing
<1>1. ListingInv => CompleteListing
  <2>. SUFFICES ASSUME ListingInv, NEW r \in Lister, lister[r].status = 200, lister[r].drained, ~lister[r].gone,
                       NEW t \in (lister[r].kept \cap lister[r].filter) \ Unreadable
                PROVE  t \in Range(lister[r].listed)
    BY ZenonT(30) DEF CompleteListing
  <2>. PICK m : m = lister[r]
    OBVIOUS
  <2>1. m \in Listers /\ Ordered(m) /\ Covered(m)
    BY DEF ListingInv
  <2>2. m.out = <<>>
    BY <2>1, Zenon DEF Ordered
  <2>3. Shown(m, t) /\ t \in m.filter
    BY <2>1, Zenon DEF Covered, Wanted
  <2>4. Has(m.listed, t)
    BY <2>2, <2>3 DEF Shown, Has
  <2>5. m.listed \in Seq(Stored)
    BY <2>1, Lengths, ZenonT(30)
  <2>. QED
    BY <2>4, <2>5 DEF Has, Range
<1>. QED
  BY <1>1, InitListing, NextListing, PTL DEF ListingSpec

----------------------------------------------------------------------------
(***************************************************************************)
(* A listing that is left to end by itself.                                *)
(***************************************************************************)
\* The channel is closed only after the callback has unsubscribed.
Calm(l) ==
  /\ ~l.gone
  /\ l.done \/ l.closer \in {"closed", "ended"} => ~l.sub
  /\ l.pc \in {"idle", "tasks", "consumer"} => ~l.done
  /\ l.closer = "waiting" => l.pc # "answered"

CalmInv == ~crashed /\ \A r \in Lister : Calm(lister[r])

LEMMA CalmStep ==
  ASSUME ListingInv, CalmInv, NEW r \in Lister, NEW l, ListerBecomes(r, l), Calm(l), crashed' = crashed
  PROVE  CalmInv'
<1>1. \A q \in Lister : lister'[q] = IF q = r THEN l ELSE lister[q]
  BY DEF ListingInv, ListerBecomes
<1>2. ASSUME NEW q \in Lister PROVE Calm(lister'[q])
  BY <1>1, Zenon DEF CalmInv
<1>. QED
  BY <1>2, Zenon DEF CalmInv, Calm

\* A step that changes other fields than those of Calm, or leaves the phases
\* before the closing goroutine is there.
LEMMA CalmSame ==
  ASSUME NEW m, NEW l, Calm(m), l.gone = m.gone, l.done = m.done, l.closer = m.closer, l.sub = m.sub,
         l.pc = m.pc \/ m.closer # "waiting", l.pc \in {"idle", "tasks", "consumer"} => ~m.done
  PROVE  Calm(l)
  BY Zenon DEF Calm

LEMMA CalmFields ==
  ASSUME ListingInv, CalmInv, NEW r \in Lister
  PROVE  lister[r] \in Listers /\ Calm(lister[r]) /\ Ordered(lister[r]) /\ ~crashed
  BY Zenon DEF ListingInv, CalmInv

LEMMA CalmWrites ==
  ASSUME ListingInv, CalmInv, NEW t \in Stored, Save(t) \/ Delete(t)
  PROVE  CalmInv'
<1>1. CASE Save(t)
  BY <1>1, ZenonT(30) DEF Save, CalmInv, Calm
<1>2. CASE Delete(t)
  <2>1. crashed' = crashed /\ \A r \in Lister : lister'[r] = [lister[r] EXCEPT !.kept = @ \ {t}]
    BY <1>2, ZenonT(30) DEF Delete
  <2>2. ASSUME NEW r \in Lister PROVE Calm(lister'[r])
    <3>1. PICK m : m = lister[r] /\ m \in Listers /\ Calm(m)
      BY CalmFields, Zenon
    <3>2. PICK l : l = [m EXCEPT !.kept = @ \ {t}]
      BY Zenon
    <3>3. l.gone = m.gone /\ l.done = m.done /\ l.closer = m.closer /\ l.sub = m.sub /\ l.pc = m.pc
      BY <3>1, <3>2, Zenon DEF Listers
    <3>4. Calm(l)
      BY <3>1, <3>3, Zenon DEF Calm
    <3>. QED
      BY <2>1, <3>1, <3>2, <3>4, Zenon
  <2>. QED
    BY <2>1, <2>2, Zenon DEF CalmInv, Calm
<1>. QED
  BY <1>1, <1>2, ZenonT(30)

\* The handler before it reads the channel, and when it returns.
LEMMA CalmHandler ==
  ASSUME ListingInv, CalmInv, NEW r \in Lister,
         \/ \E p \in Limits, ndjson \in BOOLEAN, filter \in Filters : ListTasks(r, p, ndjson, filter)
         \/ Tasks(r) \/ NewConsumer(r) \/ TasksFails(r) \/ ReadTask(r) \/ ReadEnd(r) \/ StreamEnd(r)
  PROVE  CalmInv'
<1>. PICK m : m = lister[r]
  OBVIOUS
<1>0. m \in Listers /\ Calm(m) /\ Ordered(m)
  BY CalmFields, ZenonT(30)
<1>1. ASSUME NEW n, crashed' = crashed, ListerBecomes(r, [m EXCEPT !.pc = "answered", !.status = n]),
             m.closer # "waiting"
      PROVE  CalmInv'
  <2>1. PICK l : l = [m EXCEPT !.pc = "answered", !.status = n]
    BY Zenon
  <2>2. l.gone = m.gone /\ l.done = m.done /\ l.closer = m.closer /\ l.sub = m.sub /\ l.pc = "answered"
    BY <1>0, <2>1, Zenon DEF Listers
  <2>3. Calm(l)
    BY <1>0, <1>1, <2>2, CalmSame, ZenonT(30)
  <2>. QED
    BY <1>1, <2>1, <2>3, CalmStep, Zenon
<1>2. m.pc \in {"idle", "tasks", "consumer"} => m.closer = "none" /\ ~m.done
  BY <1>0, Zenon DEF Ordered, Calm
<1>3. ASSUME NEW p \in Limits, NEW ndjson \in BOOLEAN, NEW filter \in Filters, ListTasks(r, p, ndjson, filter)
      PROVE  CalmInv'
  <2>1. PICK limit : limit = EffectiveLimit(p)
    BY Zenon
  <2>2. PICK l : l = [m EXCEPT !.pc = "tasks", !.ndjson = ndjson, !.filter = filter, !.limit = limit]
    BY Zenon
  <2>3. /\ crashed' = crashed /\ m.pc = "idle"
        /\ \/ \E n \in {429, 400} : ListerBecomes(r, [m EXCEPT !.pc = "answered", !.status = n])
           \/ ListerBecomes(r, l)
    BY <1>3, <2>1, <2>2, ZenonT(30) DEF ListTasks
  <2>4. l.gone = m.gone /\ l.done = m.done /\ l.closer = m.closer /\ l.sub = m.sub /\ l.pc = "tasks"
    BY <1>0, <2>2, Zenon DEF Listers
  <2>5. Calm(l)
    BY <1>0, <1>2, <2>3, <2>4, CalmSame, ZenonT(30)
  <2>. QED
    BY <1>1, <1>2, <2>3, <2>5, CalmStep, ZenonT(30)
<1>4. CASE Tasks(r)
  <2>1. PICK l : l = [m EXCEPT !.pc = "consumer", !.sub = TRUE]
    BY Zenon
  <2>2. /\ crashed' = crashed /\ m.pc = "tasks"
        /\ \/ ListerBecomes(r, [m EXCEPT !.pc = "answered", !.status = 200])
           \/ ListerBecomes(r, l)
    BY <1>4, <2>1, ZenonT(30) DEF Tasks, ListerAnswers
  <2>3. l.gone = m.gone /\ l.done = m.done /\ l.closer = m.closer /\ l.pc = "consumer"
    BY <1>0, <2>1, Zenon DEF Listers
  <2>4. Calm(l)
    BY <1>0, <1>2, <2>2, <2>3, ZenonT(30) DEF Calm
  <2>. QED
    BY <1>1, <1>2, <2>2, <2>4, CalmStep, ZenonT(30)
<1>5. CASE NewConsumer(r)
  <2>1. PICK l : l = [m EXCEPT !.pc = "read", !.closer = "waiting", !.kept = InStore]
    BY Zenon
  <2>2. crashed' = crashed /\ m.pc = "consumer" /\ ListerBecomes(r, l)
    BY <1>5, <2>1, ZenonT(30) DEF NewConsumer
  <2>3. l.gone = m.gone /\ l.done = m.done /\ l.closer = "waiting" /\ l.sub = m.sub /\ l.pc = "read"
    BY <1>0, <2>1, Zenon DEF Listers
  <2>4. Calm(l)
    BY <1>0, <1>2, <2>2, <2>3, ZenonT(30) DEF Calm
  <2>. QED
    BY <2>2, <2>4, CalmStep, ZenonT(30)
<1>6. CASE TasksFails(r)
  <2>1. crashed' = crashed /\ m.pc \in {"tasks", "consumer"} /\ ListerBecomes(r, [m EXCEPT !.pc = "answered", !.status = 500])
    BY <1>6, ZenonT(30) DEF TasksFails, ListerAnswers
  <2>. QED
    BY <1>1, <1>2, <2>1, ZenonT(30)
<1>7. CASE ReadTask(r)
  <2>1. PICK listed : listed = IF Head(m.out) \in m.filter THEN Append(m.listed, Head(m.out)) ELSE m.listed
    BY Zenon
  <2>2. PICK l : l = [m EXCEPT !.out = Tail(@), !.listed = listed]
    BY Zenon
  <2>3. crashed' = crashed /\ ListerBecomes(r, l)
    BY <1>7, <2>1, <2>2, ZenonT(30) DEF ReadTask
  <2>4. l.gone = m.gone /\ l.done = m.done /\ l.closer = m.closer /\ l.sub = m.sub /\ l.pc = m.pc
    BY <1>0, <2>2, Zenon DEF Listers
  <2>5. Calm(l)
    BY <1>0, <2>4, Zenon DEF Calm
  <2>. QED
    BY <2>3, <2>5, CalmStep, ZenonT(30)
<1>8. CASE ReadEnd(r) \/ StreamEnd(r)
  <2>1. /\ crashed' = crashed /\ ListerBecomes(r, [m EXCEPT !.pc = "answered", !.status = 200])
        /\ m.closer \in {"closed", "ended"} \/ m.gone
    BY <1>8, ZenonT(30) DEF ReadEnd, StreamEnd, ListerAnswers
  <2>2. m.closer # "waiting"
    BY <1>0, <2>1, ZenonT(30) DEF Calm
  <2>. QED
    BY <1>1, <2>1, <2>2, ZenonT(30)
<1>. QED
  BY <1>3, <1>4, <1>5, <1>6, <1>7, <1>8, ZenonT(30)


\* The subscription: without the minute and with the caller there, only the
\* callback ends a listing.
LEMMA CalmConsumer ==
  ASSUME ListingInv, CalmInv, NEW r \in Lister, Push(r) \/ Callback(r) \/ CloseOut(r) \/ Unsubscribe(r)
  PROVE  CalmInv'
<1>. PICK m : m = lister[r]
  OBVIOUS
<1>0. m \in Listers /\ Calm(m) /\ Ordered(m)
  BY CalmFields, ZenonT(30)
<1>1. CASE Push(r)
  <2>1. PICK cursor, inbox : ListerBecomes(r, [m EXCEPT !.cursor = cursor, !.inbox = inbox]) /\ crashed' = crashed
    BY <1>1, ZenonT(30) DEF Push
  <2>2. PICK l : l = [m EXCEPT !.cursor = cursor, !.inbox = inbox]
    BY Zenon
  <2>3. l.gone = m.gone /\ l.done = m.done /\ l.closer = m.closer /\ l.sub = m.sub /\ l.pc = m.pc
    BY <1>0, <2>2, Zenon DEF Listers
  <2>4. Calm(l)
    BY <1>0, <2>3, Zenon DEF Calm
  <2>. QED
    BY <2>1, <2>2, <2>4, CalmStep, Zenon
<1>2. CASE Callback(r)
  <2>1. m.sub
    BY <1>2, Zenon DEF Callback
  <2>2. m.closer \notin {"closed", "ended"} /\ ~m.done
    BY <1>0, <2>1, Zenon DEF Calm
  <2>3. PICK l : l = [m EXCEPT !.inbox = Tail(@)]
    BY Zenon
  <2>4. PICK k : k = Send(m, Head(m.inbox))
    BY Zenon
  <2>5. crashed' = crashed /\ (ListerBecomes(r, l) \/ ListerBecomes(r, k))
    BY <1>2, <2>2, <2>3, <2>4, ZenonT(30) DEF Callback
  <2>6. l.gone = m.gone /\ l.done = m.done /\ l.closer = m.closer /\ l.sub = m.sub /\ l.pc = m.pc
    BY <1>0, <2>3, Zenon DEF Listers
  <2>7. Calm(l)
    BY <1>0, <2>6, Zenon DEF Calm
  <2>8. /\ k.gone = m.gone /\ k.closer = m.closer /\ k.pc = m.pc
        /\ \E ends \in BOOLEAN : k.sub = (m.sub /\ ~ends) /\ k.done = (m.done \/ ends)
    BY <1>0, <2>4, Zenon DEF Listers, Send
  <2>9. m.pc \notin {"idle", "tasks", "consumer"}
    BY <1>0, <1>2, Zenon DEF Ordered, Callback
  <2>10. Calm(k)
    BY <1>0, <2>2, <2>8, <2>9, Zenon DEF Calm
  <2>. QED
    BY <2>5, <2>7, <2>10, CalmStep, Zenon
<1>3. CASE CloseOut(r)
  <2>1. PICK l : l = [m EXCEPT !.closer = "closed"]
    BY Zenon
  <2>2. crashed' = crashed /\ ListerBecomes(r, l) /\ m.closer = "waiting" /\ (m.done \/ m.gone \/ m.pc = "answered")
    BY <1>3, <2>1, ZenonT(30) DEF CloseOut, Done
  <2>3. ~m.sub
    BY <1>0, <2>2, Zenon DEF Calm
  <2>4. l.gone = m.gone /\ l.done = m.done /\ l.closer = "closed" /\ l.sub = m.sub /\ l.pc = m.pc
    BY <1>0, <2>1, Zenon DEF Listers
  <2>5. Calm(l)
    BY <1>0, <2>3, <2>4, ZenonT(30) DEF Calm
  <2>. QED
    BY <2>2, <2>5, CalmStep, Zenon
<1>4. CASE Unsubscribe(r)
  <2>1. PICK l : l = [m EXCEPT !.closer = "ended", !.sub = FALSE, !.inbox = <<>>]
    OBVIOUS
  <2>2. crashed' = crashed /\ ListerBecomes(r, l)
    BY <1>4, <2>1, ZenonT(30) DEF Unsubscribe
  <2>3. l.gone = m.gone /\ l.done = m.done /\ l.closer = "ended" /\ ~l.sub /\ l.pc = m.pc
    BY <1>0, <2>1, Zenon DEF Listers
  <2>4. Calm(l)
    BY <1>0, <2>3, ZenonT(30) DEF Calm
  <2>. QED
    BY <2>2, <2>4, CalmStep, Zenon
<1>. QED
  BY <1>1, <1>2, <1>3, <1>4, ZenonT(30)

LEMMA NextCalm == ListingInv /\ CalmInv /\ [ListingNext]_listingVars /\ [Unhurried]_listingVars => CalmInv'
<1>. SUFFICES ASSUME ListingInv, CalmInv, [ListingNext]_listingVars, [Unhurried]_listingVars PROVE CalmInv'
  OBVIOUS
<1>1. CASE UNCHANGED listingVars
  BY <1>1, ZenonT(30) DEF listingVars, CalmInv, Calm
<1>2. ASSUME Unhurried, NEW r \in Lister, Listing(r) PROVE CalmInv'
  BY <1>2, CalmHandler, CalmConsumer, ZenonT(30) DEF Listing, Unhurried
<1>3. CASE ListingNext /\ Unhurried
  BY <1>2, <1>3, CalmWrites, CalmHandler, ZenonT(30) DEF ListingNext, Unhurried
<1>. QED
  BY <1>1, <1>3, ZenonT(30)

\* A listing takes the server down only when its minute passes or its caller
\* leaves.  While none does, the callback of Tasks is the only one that cancels
\* the listing, and it unsubscribes before it does, so that the goroutine that
\* closes the channel finds no callback that could still send on it.
THEOREM PanicsNeedHurry == ListingSpec /\ [][Unhurried]_listingVars => []NeverPanics
<1>1. ListingInit => CalmInv
  <2>1. Calm(NewLister)
    BY DEF Calm, NewLister
  <2>. QED
    BY <2>1, ZenonT(30) DEF ListingInit, CalmInv
<1>2. CalmInv => NeverPanics
  BY DEF CalmInv, NeverPanics
<1>. QED
  BY <1>1, <1>2, InitListing, NextListing, NextCalm, PTL DEF ListingSpec


----------------------------------------------------------------------------
(***************************************************************************)
(* A listing that nothing it was sent moves behind.                        *)
(***************************************************************************)
Apart(s) == \A i, j \in 1..Len(s) : s[i] = s[j] => i = j
HasMail(q, t) == \E i \in 1..Len(q) : q[i].task = t
ApartMail(q) == \A i, j \in 1..Len(q) : q[i].task = q[j].task => i = j

\* A task is in one place of a listing: shown, in the channel or in the queue.
Once(l) ==
  /\ Apart(l.listed) /\ Apart(l.out) /\ ApartMail(l.inbox)
  /\ \A t \in Stored :
       /\ Has(l.listed, t) => ~Has(l.out, t) /\ ~HasMail(l.inbox, t)
       /\ Has(l.out, t) => ~HasMail(l.inbox, t)

\* What a listing was sent is behind the position of its consumer.
Behind(l) ==
  l.sub => \A t \in Stored :
    Has(l.listed, t) \/ Has(l.out, t) \/ HasMail(l.inbox, t) => store[t] <= l.cursor

OnceInv == \A r \in Lister : Once(lister[r]) /\ Behind(lister[r])

LEMMA ApartAppend ==
  ASSUME NEW S, NEW s \in Seq(S), NEW x \in S, Apart(s), ~Has(s, x)
  PROVE  Apart(Append(s, x))
<1>1. /\ Len(Append(s, x)) = Len(s) + 1 /\ Append(s, x)[Len(s) + 1] = x
      /\ \A i \in 1..Len(s) : Append(s, x)[i] = s[i]
      /\ Len(s) \in Nat
  OBVIOUS
<1>2. \A i \in 1..(Len(s) + 1) : i \in 1..Len(s) \/ i = Len(s) + 1
  BY <1>1
<1>3. ASSUME NEW i \in 1..(Len(s) + 1), NEW j \in 1..(Len(s) + 1), Append(s, x)[i] = Append(s, x)[j]
      PROVE  i = j
  BY <1>1, <1>2, <1>3, Zenon DEF Apart, Has
<1>. QED
  BY <1>1, <1>3, Zenon DEF Apart

LEMMA ApartTail ==
  ASSUME NEW S, NEW s \in Seq(S), s # <<>>, Apart(s)
  PROVE  Apart(Tail(s)) /\ ~Has(Tail(s), Head(s))
<1>. DEFINE n == Len(Tail(s))
<1>1. /\ Head(s) = s[1] /\ 1 \in 1..Len(s)
      /\ \A i \in 1..n : Tail(s)[i] = s[i + 1] /\ i + 1 \in 1..Len(s) /\ i + 1 # 1
  OBVIOUS
<1>2. \A i, j \in 1..n : i + 1 = j + 1 => i = j
  OBVIOUS
<1>3. ASSUME NEW i \in 1..n, NEW j \in 1..n, Tail(s)[i] = Tail(s)[j] PROVE i = j
  <2>1. s[i + 1] = s[j + 1]
    BY <1>1, <1>3, Zenon
  <2>. QED
    BY <1>1, <1>2, <2>1, Zenon DEF Apart
<1>4. ASSUME NEW i \in 1..n, Tail(s)[i] = Head(s) PROVE FALSE
  <2>1. s[i + 1] = s[1]
    BY <1>1, <1>4, Zenon
  <2>. QED
    BY <1>1, <2>1, Zenon DEF Apart
<1>. QED
  BY <1>3, <1>4, Zenon DEF Apart, Has

LEMMA MailAppend ==
  ASSUME NEW q \in Seq(Message), NEW msg \in Message
  PROVE  /\ \A t : HasMail(Append(q, msg), t) <=> HasMail(q, t) \/ msg.task = t
         /\ ApartMail(q) /\ ~HasMail(q, msg.task) => ApartMail(Append(q, msg))
<1>1. /\ Len(Append(q, msg)) = Len(q) + 1 /\ Append(q, msg)[Len(q) + 1] = msg
      /\ \A i \in 1..Len(q) : Append(q, msg)[i] = q[i]
      /\ Len(q) \in Nat
  OBVIOUS
<1>2. /\ \A i \in 1..(Len(q) + 1) : i \in 1..Len(q) \/ i = Len(q) + 1
      /\ \A i \in 1..Len(q) : i \in 1..(Len(q) + 1)
      /\ Len(q) + 1 \in 1..(Len(q) + 1)
  BY <1>1
<1>3. ASSUME NEW t PROVE HasMail(Append(q, msg), t) <=> HasMail(q, t) \/ msg.task = t
  BY <1>1, <1>2, Zenon DEF HasMail
<1>4. ASSUME ApartMail(q), ~HasMail(q, msg.task), NEW i \in 1..(Len(q) + 1), NEW j \in 1..(Len(q) + 1),
             Append(q, msg)[i].task = Append(q, msg)[j].task
      PROVE  i = j
  BY <1>1, <1>2, <1>4, Zenon DEF ApartMail, HasMail
<1>. QED
  BY <1>1, <1>3, <1>4, Zenon DEF ApartMail

LEMMA MailTail ==
  ASSUME NEW q \in Seq(Message), q # <<>>
  PROVE  /\ \A t : HasMail(q, t) <=> Head(q).task = t \/ HasMail(Tail(q), t)
         /\ ApartMail(q) => ApartMail(Tail(q)) /\ ~HasMail(Tail(q), Head(q).task)
<1>. DEFINE n == Len(Tail(q))
<1>1. /\ Head(q) = q[1] /\ 1 \in 1..Len(q)
      /\ \A i \in 1..n : Tail(q)[i] = q[i + 1] /\ i + 1 \in 1..Len(q) /\ i + 1 # 1
  OBVIOUS
<1>2. \A i, j \in 1..n : i + 1 = j + 1 => i = j
  OBVIOUS
<1>3. \A i \in 1..Len(q) : i = 1 \/ \E j \in 1..n : i = j + 1
  <2>. SUFFICES ASSUME NEW i \in 1..Len(q), i # 1 PROVE i - 1 \in 1..n /\ i = (i - 1) + 1
    BY Zenon
  <2>. QED
    OBVIOUS
<1>. HIDE DEF n
<1>4. ASSUME NEW t PROVE HasMail(q, t) <=> Head(q).task = t \/ HasMail(Tail(q), t)
  <2>1. ASSUME NEW i \in 1..Len(q), q[i].task = t PROVE Head(q).task = t \/ HasMail(Tail(q), t)
    <3>1. CASE i = 1
      BY <2>1, <3>1, <1>1, Zenon
    <3>2. CASE i # 1
      <4>1. PICK j \in 1..n : i = j + 1
        BY <1>3, <3>2, Zenon
      <4>2. Tail(q)[j].task = t
        BY <4>1, <2>1, <1>1, Zenon
      <4>. QED
        BY <4>2, Zenon DEF HasMail, n
    <3>. QED
      BY <3>1, <3>2, Zenon
  <2>2. ASSUME NEW i \in 1..n, Tail(q)[i].task = t PROVE HasMail(q, t)
    <3>1. q[i + 1].task = t /\ i + 1 \in 1..Len(q)
      BY <1>1, <2>2, Zenon
    <3>. QED
      BY <3>1, Zenon DEF HasMail
  <2>3. HasMail(Tail(q), t) => \E i \in 1..n : Tail(q)[i].task = t
    BY Zenon DEF HasMail, n
  <2>4. Head(q).task = t => HasMail(q, t)
    BY <1>1, Zenon DEF HasMail
  <2>5. HasMail(q, t) => Head(q).task = t \/ HasMail(Tail(q), t)
    BY <2>1, Zenon DEF HasMail
  <2>. QED
    BY <2>2, <2>3, <2>4, <2>5, Zenon
<1>5. ASSUME ApartMail(q), NEW i \in 1..n, NEW j \in 1..n, Tail(q)[i].task = Tail(q)[j].task PROVE i = j
  <2>1. q[i + 1].task = q[j + 1].task
    BY <1>1, <1>5, Zenon
  <2>. QED
    BY <1>1, <1>2, <1>5, <2>1, Zenon DEF ApartMail
<1>6. ASSUME ApartMail(q), NEW i \in 1..n, Tail(q)[i].task = Head(q).task PROVE FALSE
  <2>1. q[i + 1].task = q[1].task
    BY <1>1, <1>6, Zenon
  <2>. QED
    BY <1>1, <1>6, <2>1, Zenon DEF ApartMail
<1>. QED
  BY <1>4, <1>5, <1>6, Zenon DEF ApartMail, HasMail, n

LEMMA OneMore ==
  /\ \A s \in Seq(Stored), x \in Stored : \A l :
       l = Append(s, x) => \A u : Has(l, u) => Has(s, u) \/ x = u
  /\ \A q \in Seq(Message), msg \in Message : \A l :
       l = Append(q, msg) => \A u : HasMail(l, u) => HasMail(q, u) \/ msg.task = u
<1>1. ASSUME NEW s \in Seq(Stored), NEW x \in Stored, NEW u, Has(Append(s, x), u) PROVE Has(s, u) \/ x = u
  BY <1>1, HasAppend, Zenon
<1>2. ASSUME NEW q \in Seq(Message), NEW msg \in Message, NEW u, HasMail(Append(q, msg), u)
      PROVE  HasMail(q, u) \/ msg.task = u
  BY <1>2, MailAppend, Zenon
<1>. QED
  BY <1>1, <1>2, Zenon

LEMMA BothEmpty ==
  ASSUME NEW s \in Seq(Stored), NEW q \in Seq(Stored), Len(s) + Len(q) <= 0
  PROVE  s = <<>> /\ q = <<>>
<1>1. Len(s) \in Nat /\ Len(q) \in Nat
  OBVIOUS
<1>2. Len(s) = 0 /\ Len(q) = 0
  BY <1>1
<1>. QED
  BY <1>2

LEMMA NoMail == \A t : ~HasMail(<<>>, t) /\ ~Has(<<>>, t) /\ ApartMail(<<>>) /\ Apart(<<>>)
  BY DEF HasMail, Has, ApartMail, Apart

LEMMA SentIsHad ==
  ASSUME NEW m \in Listers, NEW t
  PROVE  t \in Sent(m) <=> Has(m.listed, t) \/ Has(m.out, t) \/ HasMail(m.inbox, t)
<1>1. DOMAIN m.listed = 1..Len(m.listed) /\ DOMAIN m.out = 1..Len(m.out) /\ DOMAIN m.inbox = 1..Len(m.inbox)
  BY Lengths
<1>. QED
  BY <1>1, Zenon DEF Sent, Range, Has, HasMail

LEMMA OnceStep ==
  ASSUME ListingInv, OnceInv, NEW r \in Lister, NEW l, ListerBecomes(r, l), store' = store, Once(l), Behind(l)
  PROVE  OnceInv'
<1>1. \A q \in Lister : lister'[q] = IF q = r THEN l ELSE lister[q]
  BY DEF ListingInv, ListerBecomes
<1>2. ASSUME NEW q \in Lister PROVE Once(lister'[q]) /\ Behind(lister'[q])
  BY <1>1, Zenon DEF OnceInv
<1>. QED
  BY <1>2, Zenon DEF OnceInv, Once, Behind

LEMMA SameOnce ==
  ASSUME NEW m, NEW l, Once(m), Behind(m), l.listed = m.listed, l.out = m.out,
         l.inbox = m.inbox \/ l.inbox = <<>>, l.sub => m.sub, l.cursor = m.cursor
  PROVE  Once(l) /\ Behind(l)
<1>1. /\ \A t : HasMail(l.inbox, t) => HasMail(m.inbox, t)
      /\ ApartMail(l.inbox)
  BY NoMail, Zenon DEF Once
<1>2. Once(l)
  BY <1>1, ZenonT(30) DEF Once
<1>3. Behind(l)
  BY <1>1, ZenonT(30) DEF Behind
<1>. QED
  BY <1>2, <1>3, Zenon

LEMMA OnceFields ==
  ASSUME ListingInv, OnceInv, NEW r \in Lister
  PROVE  /\ lister[r] \in Listers /\ Once(lister[r]) /\ Behind(lister[r])
         /\ Counted(lister[r]) /\ Ordered(lister[r]) /\ Covered(lister[r])
  BY Zenon DEF ListingInv, OnceInv

\* Saving a task moves it ahead of every listing, so it must not be one that a
\* listing was sent.
LEMMA OnceWrites ==
  ASSUME ListingInv, OnceInv, NEW t \in Stored, (Save(t) /\ NoneMoved) \/ Delete(t)
  PROVE  OnceInv'
<1>1. store \in [Stored -> Nat]
  BY Zenon DEF ListingInv, StoreInv
<1>2. CASE Save(t) /\ NoneMoved
  <2>1. lister' = lister /\ \A u \in Stored \ {t} : store'[u] = store[u]
    BY <1>1, <1>2, Zenon DEF Save
  <2>2. ASSUME NEW r \in Lister PROVE Once(lister[r]) /\ Behind(lister[r])'
    <3>1. PICK m : m = lister[r] /\ m = lister'[r] /\ m \in Listers /\ Once(m) /\ Behind(m)
      BY <2>1, OnceFields, Zenon
    <3>2. m.sub => t \notin Sent(m)
      BY <1>2, <3>1, Zenon DEF NoneMoved
    <3>3. m.sub => ~(Has(m.listed, t) \/ Has(m.out, t) \/ HasMail(m.inbox, t))
      BY <3>1, <3>2, SentIsHad, Zenon
    <3>4. m.sub => \A u \in Stored :
            Has(m.listed, u) \/ Has(m.out, u) \/ HasMail(m.inbox, u) => store'[u] <= m.cursor
      BY <2>1, <3>1, <3>3, ZenonT(30) DEF Behind
    <3>. QED
      BY <3>1, <3>4, ZenonT(30) DEF Behind
  <2>. QED
    BY <2>1, <2>2, Zenon DEF OnceInv, Once
<1>3. CASE Delete(t)
  <2>1. /\ \A r \in Lister : lister'[r] = [lister[r] EXCEPT !.kept = @ \ {t}]
        /\ store'[t] = 0 /\ \A u \in Stored \ {t} : store'[u] = store[u]
    BY <1>1, <1>3, ZenonT(30) DEF Delete
  <2>2. ASSUME NEW r \in Lister PROVE Once(lister'[r]) /\ Behind(lister[r])'
    <3>1. PICK m : m = lister[r] /\ m \in Listers /\ Once(m) /\ Behind(m)
      BY OnceFields, Zenon
    <3>2. PICK l : l = [m EXCEPT !.kept = @ \ {t}] /\ l = lister'[r]
      BY <2>1, <3>1, Zenon
    <3>3. l.listed = m.listed /\ l.out = m.out /\ l.inbox = m.inbox /\ l.sub = m.sub /\ l.cursor = m.cursor
      BY <3>1, <3>2, Zenon DEF Listers
    <3>4. Once(l) /\ Behind(l)
      BY <3>1, <3>3, SameOnce, Zenon
    <3>5. 0 <= l.cursor
      BY <3>1, <3>3 DEF Listers
    <3>6. l.sub => \A u \in Stored :
            Has(l.listed, u) \/ Has(l.out, u) \/ HasMail(l.inbox, u) => store'[u] <= l.cursor
      BY <2>1, <3>4, <3>5, ZenonT(30) DEF Behind
    <3>. QED
      BY <3>2, <3>4, <3>6, ZenonT(30) DEF Behind
  <2>. QED
    BY <2>2, Zenon DEF OnceInv, Once
<1>. QED
  BY <1>2, <1>3, Zenon

LEMMA PendingCount ==
  ASSUME NEW c, NEW t \in Stored, store[t] > c
  PROVE  Cardinality({u \in Stored : store[u] > c}) - 1 \in Nat
<1>. DEFINE ahead == {u \in Stored : store[u] > c}
<1>1. IsFiniteSet(ahead) /\ ahead # {}
  BY ListingAssumption, FS_Subset, ZenonT(30)
<1>2. Cardinality(ahead) \in Nat /\ Cardinality(ahead) # 0
  BY <1>1, FS_CardinalityType, FS_EmptySet, ZenonT(30)
<1>. QED
  BY <1>2

\* The server pushes what is ahead of the consumer, so nothing it has pushed.
LEMMA OncePush ==
  ASSUME ListingInv, OnceInv, NEW r \in Lister, Push(r)
  PROVE  OnceInv'
<1>. PICK m : m = lister[r]
  OBVIOUS
<1>0. m \in Listers /\ Once(m) /\ Behind(m)
  BY OnceFields, Zenon
<1>. PICK n : n = Cardinality({u \in Stored : store[u] > m.cursor}) - 1
  OBVIOUS
<1>1. PICK t \in Stored :
        /\ store[t] > m.cursor /\ n = Cardinality({u \in Stored : store[u] > m.cursor}) - 1
        /\ ListerBecomes(r, [m EXCEPT !.cursor = store[t],
                                      !.inbox = Append(@, [task |-> t, numPending |-> n])])
  BY Zenon DEF Push
<1>2. store' = store /\ m.sub
  BY Zenon DEF Push
<1>3. PICK msg : msg = [task |-> t, numPending |-> n] /\ msg \in Message /\ msg.task = t
  <2>1. n \in Nat
    BY <1>1, PendingCount, Zenon
  <2>2. PICK msg : msg = [task |-> t, numPending |-> n]
    BY Zenon
  <2>3. msg \in Message /\ msg.task = t
    BY <2>1, <2>2, ZenonT(30) DEF Message
  <2>. QED
    BY <2>2, <2>3, Zenon
<1>4. PICK l : l = [m EXCEPT !.cursor = store[t], !.inbox = Append(@, msg)]
  BY Zenon
<1>5. l.listed = m.listed /\ l.out = m.out /\ l.inbox = Append(m.inbox, msg) /\ l.cursor = store[t]
  BY <1>0, <1>4, Zenon DEF Listers
<1>6. m.inbox \in Seq(Message) /\ m.cursor \in Nat
  BY <1>0, Lengths, Zenon
<1>7. ASSUME NEW u \in Stored, Has(m.listed, u) \/ Has(m.out, u) \/ HasMail(m.inbox, u)
      PROVE  u # t /\ store[u] <= store[t]
  <2>1. store[u] <= m.cursor
    BY <1>0, <1>2, <1>7, Zenon DEF Behind
  <2>2. store[u] \in Nat /\ store[t] \in Nat
    BY Zenon DEF ListingInv, StoreInv
  <2>. QED
    BY <1>1, <1>6, <2>1, <2>2, SMTT(30)
<1>8. /\ \A u : HasMail(l.inbox, u) => HasMail(m.inbox, u) \/ u = t
      /\ ApartMail(l.inbox)
  <2>1. \A u : HasMail(l.inbox, u) => HasMail(m.inbox, u) \/ msg.task = u
    BY <1>3, <1>5, <1>6, OneMore, Zenon
  <2>2. ApartMail(m.inbox) /\ ~HasMail(m.inbox, msg.task)
    BY <1>0, <1>3, <1>7, Zenon DEF Once
  <2>3. ApartMail(l.inbox)
    BY <1>3, <1>5, <1>6, <2>2, MailAppend, Zenon
  <2>. QED
    BY <1>3, <2>1, <2>3, Zenon
<1>9. Once(l)
  BY <1>0, <1>5, <1>7, <1>8, ZenonT(30) DEF Once
<1>10. store[t] <= store[t]
  BY DEF ListingInv, StoreInv
<1>11. Behind(l)
  BY <1>5, <1>7, <1>8, <1>10, ZenonT(30) DEF Behind
<1>. QED
  BY <1>1, <1>2, <1>3, <1>4, <1>9, <1>11, OnceStep, Zenon

\* The callback moves the head of the queue to the channel, or drops it.
LEMMA OnceCallback ==
  ASSUME ListingInv, OnceInv, NEW r \in Lister, Callback(r)
  PROVE  OnceInv'
<1>. PICK m : m = lister[r]
  OBVIOUS
<1>0. m \in Listers /\ Once(m) /\ Behind(m) /\ Counted(m)
  BY OnceFields, Zenon
<1>1. store' = store /\ m.sub /\ m.inbox # <<>>
  BY Zenon DEF Callback
<1>2. /\ m.inbox \in Seq(Message) /\ m.out \in Seq(Stored) /\ Len(m.out) \in Nat
      /\ Len(m.listed) \in Nat /\ m.cnt \in Nat /\ m.limit \in Nat
  BY <1>0, Lengths, Zenon
<1>3. PICK t : t = Head(m.inbox).task /\ t \in Stored
  <2>1. Head(m.inbox) \in Message
    BY <1>1, <1>2
  <2>. QED
    BY <2>1, ZenonT(30) DEF Message
<1>4. /\ \A u : HasMail(m.inbox, u) <=> t = u \/ HasMail(Tail(m.inbox), u)
      /\ ApartMail(Tail(m.inbox)) /\ ~HasMail(Tail(m.inbox), t)
  BY <1>0, <1>1, <1>2, <1>3, MailTail, Zenon DEF Once
<1>5. ASSUME NEW l, ListerBecomes(r, l), l.listed = m.listed, l.cursor = m.cursor,
             l.inbox = Tail(m.inbox) \/ l.inbox = <<>>,
             l.out = m.out \/ l.out = Append(m.out, t)
      PROVE  OnceInv'
  <2>1. /\ \A u : HasMail(l.inbox, u) => HasMail(m.inbox, u) /\ u # t
        /\ ApartMail(l.inbox)
    BY <1>4, <1>5, NoMail, Zenon
  <2>2. ~Has(m.out, t) /\ ~Has(m.listed, t)
    BY <1>0, <1>3, <1>4, Zenon DEF Once
  <2>3. /\ \A u : Has(l.out, u) => Has(m.out, u) \/ u = t
        /\ Apart(l.out)
    <3>1. CASE l.out = m.out
      BY <1>0, <3>1, Zenon DEF Once
    <3>2. CASE l.out = Append(m.out, t)
      <4>1. \A u : Has(l.out, u) => Has(m.out, u) \/ t = u
        BY <1>2, <1>3, <3>2, OneMore, Zenon
      <4>2. Apart(l.out)
        BY <1>0, <1>2, <1>3, <2>2, <3>2, ApartAppend, Zenon DEF Once
      <4>. QED
        BY <4>1, <4>2, Zenon
    <3>. QED
      BY <1>5, <3>1, <3>2, Zenon
  <2>4. Once(l)
    BY <1>0, <1>5, <2>1, <2>2, <2>3, ZenonT(30) DEF Once
  <2>5. Behind(l)
    BY <1>0, <1>1, <1>4, <1>5, <2>1, <2>3, ZenonT(30) DEF Behind
  <2>. QED
    BY <1>1, <1>5, <2>4, <2>5, OnceStep, Zenon
<1>6. Len(m.out) # m.limit
  <2>1. m.cnt < m.limit /\ Len(m.listed) + Len(m.out) <= m.cnt
    BY <1>0, <1>1, Zenon DEF Counted
  <2>. QED
    BY <1>2, <2>1, Counting, Zenon
<1>7. CASE ListerBecomes(r, [m EXCEPT !.inbox = Tail(@)])
  <2>1. PICK l : l = [m EXCEPT !.inbox = Tail(@)]
    BY Zenon
  <2>2. l.listed = m.listed /\ l.out = m.out /\ l.inbox = Tail(m.inbox) /\ l.cursor = m.cursor
    BY <1>0, <2>1, Zenon DEF Listers
  <2>. QED
    BY <1>5, <1>7, <2>1, <2>2, Zenon
<1>8. CASE ListerBecomes(r, Send(m, Head(m.inbox)))
  <2>1. PICK l : l = Send(m, Head(m.inbox))
    BY Zenon
  <2>2. /\ l.listed = m.listed /\ l.out = Append(m.out, t) /\ l.cursor = m.cursor
        /\ l.inbox = Tail(m.inbox) \/ l.inbox = <<>>
    BY <1>0, <1>3, <1>6, <2>1, ZenonT(30) DEF Listers, Send
  <2>. QED
    BY <1>5, <1>8, <2>1, <2>2, Zenon
<1>9. CASE UNCHANGED lister
  BY <1>1, <1>9, Zenon DEF OnceInv, Once, Behind
<1>. QED
  BY <1>7, <1>8, <1>9, Zenon DEF Callback

\* The handler moves the head of the channel to what it shows, or drops it.
LEMMA OnceRead ==
  ASSUME ListingInv, OnceInv, NEW r \in Lister, ReadTask(r)
  PROVE  OnceInv'
<1>. PICK m : m = lister[r]
  OBVIOUS
<1>0. m \in Listers /\ Once(m) /\ Behind(m)
  BY OnceFields, Zenon
<1>1. PICK listed : listed = IF Head(m.out) \in m.filter THEN Append(m.listed, Head(m.out)) ELSE m.listed
  BY Zenon
<1>2. PICK l : l = [m EXCEPT !.out = Tail(@), !.listed = listed]
  BY Zenon
<1>3. store' = store /\ m.out # <<>> /\ ListerBecomes(r, l)
  BY <1>1, <1>2, Zenon DEF ReadTask
<1>4. /\ l.listed = listed /\ l.out = Tail(m.out) /\ l.inbox = m.inbox
      /\ l.cursor = m.cursor /\ l.sub = m.sub
  BY <1>0, <1>2, Zenon DEF Listers
<1>5. m.out \in Seq(Stored) /\ m.listed \in Seq(Stored)
  BY <1>0, Lengths, Zenon
<1>6. PICK t \in Stored : t = Head(m.out)
  BY <1>3, <1>5
<1>7. /\ \A u : Has(m.out, u) <=> t = u \/ Has(Tail(m.out), u)
      /\ Apart(Tail(m.out)) /\ ~Has(Tail(m.out), t)
  BY <1>0, <1>3, <1>5, <1>6, HasTail, ApartTail, ZenonT(30) DEF Once
<1>8. ~Has(m.listed, t) /\ ~HasMail(m.inbox, t)
  BY <1>0, <1>7, Zenon DEF Once
<1>9. /\ \A u : Has(listed, u) => Has(m.listed, u) \/ u = t
      /\ Apart(listed)
  <2>1. CASE listed = m.listed
    BY <1>0, <2>1, Zenon DEF Once
  <2>2. CASE listed = Append(m.listed, t)
    BY <1>0, <1>5, <1>8, <2>2, HasAppend, ApartAppend, ZenonT(30) DEF Once
  <2>. QED
    BY <1>1, <1>6, <2>1, <2>2, Zenon
<1>10. Once(l)
  BY <1>0, <1>4, <1>7, <1>8, <1>9, ZenonT(30) DEF Once
<1>11. Behind(l)
  BY <1>0, <1>4, <1>7, <1>9, ZenonT(30) DEF Behind
<1>. QED
  BY <1>3, <1>10, <1>11, OnceStep, Zenon

\* The steps that hand no task on.
LEMMA OnceControl ==
  ASSUME ListingInv, OnceInv, NEW r \in Lister,
         \/ \E p \in Limits, ndjson \in BOOLEAN, filter \in Filters : ListTasks(r, p, ndjson, filter)
         \/ Tasks(r) \/ NewConsumer(r) \/ TasksFails(r) \/ Expire(r) \/ CloseOut(r)
         \/ Unsubscribe(r) \/ ReadEnd(r) \/ StreamEnd(r) \/ Disconnect(r)
  PROVE  OnceInv'
<1>. PICK m : m = lister[r]
  OBVIOUS
<1>0. m \in Listers /\ Once(m) /\ Behind(m) /\ Counted(m) /\ Ordered(m)
  BY OnceFields, Zenon
<1>1. ASSUME NEW l, ListerBecomes(r, l), store' = store, l.listed = m.listed, l.out = m.out,
             l.inbox = m.inbox \/ l.inbox = <<>>, l.sub => m.sub, l.cursor = m.cursor
      PROVE  OnceInv'
  <2>1. Once(l) /\ Behind(l)
    BY <1>0, <1>1, SameOnce, Zenon
  <2>. QED
    BY <1>1, <2>1, OnceStep, Zenon
<1>2. ASSUME NEW n, store' = store, ListerBecomes(r, [m EXCEPT !.pc = "answered", !.status = n])
      PROVE  OnceInv'
  <2>1. PICK l : l = [m EXCEPT !.pc = "answered", !.status = n]
    BY Zenon
  <2>2. l.listed = m.listed /\ l.out = m.out /\ l.inbox = m.inbox /\ l.sub = m.sub /\ l.cursor = m.cursor
    BY <1>0, <2>1, Zenon DEF Listers
  <2>. QED
    BY <1>1, <1>2, <2>1, <2>2, Zenon
<1>3. ASSUME NEW p \in Limits, NEW ndjson \in BOOLEAN, NEW filter \in Filters, ListTasks(r, p, ndjson, filter)
      PROVE  OnceInv'
  <2>1. PICK limit : limit = EffectiveLimit(p)
    BY Zenon
  <2>2. PICK l : l = [m EXCEPT !.pc = "tasks", !.ndjson = ndjson, !.filter = filter, !.limit = limit]
    BY Zenon
  <2>3. /\ store' = store
        /\ \/ \E n \in {429, 400} : ListerBecomes(r, [m EXCEPT !.pc = "answered", !.status = n])
           \/ ListerBecomes(r, l)
    BY <1>3, <2>1, <2>2, Zenon DEF ListTasks
  <2>4. l.listed = m.listed /\ l.out = m.out /\ l.inbox = m.inbox /\ l.sub = m.sub /\ l.cursor = m.cursor
    BY <1>0, <2>2, Zenon DEF Listers
  <2>. QED
    BY <1>1, <1>2, <2>3, <2>4, Zenon
<1>4. CASE Tasks(r)
  <2>1. PICK l : l = [m EXCEPT !.pc = "consumer", !.sub = TRUE]
    BY Zenon
  <2>2. /\ store' = store /\ m.pc = "tasks"
        /\ \/ ListerBecomes(r, [m EXCEPT !.pc = "answered", !.status = 200])
           \/ ListerBecomes(r, l)
    BY <1>4, <2>1, Zenon DEF Tasks, ListerAnswers
  <2>3. l.listed = m.listed /\ l.out = m.out /\ l.inbox = m.inbox /\ l.cursor = m.cursor
    BY <1>0, <2>1, Zenon DEF Listers
  <2>4. m.inbox = <<>>
    BY <1>0, <2>2, Zenon DEF Ordered
  <2>5. m.out = <<>> /\ m.listed = <<>>
    <3>1. Len(m.listed) + Len(m.out) <= 0
      BY <1>0, <2>2, Zenon DEF Counted
    <3>2. m.listed \in Seq(Stored) /\ m.out \in Seq(Stored)
      BY <1>0, Lengths, Zenon
    <3>. QED
      BY <3>1, <3>2, BothEmpty, Zenon
  <2>6. Once(l) /\ Behind(l)
    BY <2>3, <2>4, <2>5, NoMail, Zenon DEF Once, Behind
  <2>. QED
    BY <1>2, <2>2, <2>6, OnceStep, Zenon
<1>5. CASE NewConsumer(r)
  <2>1. PICK l : l = [m EXCEPT !.pc = "read", !.closer = "waiting", !.kept = InStore]
    BY Zenon
  <2>2. l.listed = m.listed /\ l.out = m.out /\ l.inbox = m.inbox /\ l.sub = m.sub /\ l.cursor = m.cursor
    BY <1>0, <2>1, Zenon DEF Listers
  <2>. QED
    BY <1>1, <1>5, <2>1, <2>2, Zenon DEF NewConsumer
<1>6. CASE TasksFails(r) \/ ReadEnd(r) \/ StreamEnd(r)
  BY <1>2, <1>6, Zenon DEF TasksFails, ReadEnd, StreamEnd, ListerAnswers
<1>7. CASE Expire(r)
  <2>1. PICK l : l = [m EXCEPT !.done = TRUE]
    BY Zenon
  <2>2. l.listed = m.listed /\ l.out = m.out /\ l.inbox = m.inbox /\ l.sub = m.sub /\ l.cursor = m.cursor
    BY <1>0, <2>1, Zenon DEF Listers
  <2>. QED
    BY <1>1, <1>7, <2>1, <2>2, Zenon DEF Expire
<1>8. CASE CloseOut(r)
  <2>1. PICK l : l = [m EXCEPT !.closer = "closed"]
    BY Zenon
  <2>2. l.listed = m.listed /\ l.out = m.out /\ l.inbox = m.inbox /\ l.sub = m.sub /\ l.cursor = m.cursor
    BY <1>0, <2>1, Zenon DEF Listers
  <2>. QED
    BY <1>1, <1>8, <2>1, <2>2, Zenon DEF CloseOut
<1>9. CASE Unsubscribe(r)
  <2>1. PICK l : l = [m EXCEPT !.closer = "ended", !.sub = FALSE, !.inbox = <<>>]
    BY Zenon
  <2>2. l.listed = m.listed /\ l.out = m.out /\ l.inbox = <<>> /\ ~l.sub /\ l.cursor = m.cursor
    BY <1>0, <2>1, Zenon DEF Listers
  <2>. QED
    BY <1>1, <1>9, <2>1, <2>2, Zenon DEF Unsubscribe
<1>10. CASE Disconnect(r)
  <2>1. PICK l : l = [m EXCEPT !.gone = TRUE]
    BY Zenon
  <2>2. l.listed = m.listed /\ l.out = m.out /\ l.inbox = m.inbox /\ l.sub = m.sub /\ l.cursor = m.cursor
    BY <1>0, <2>1, Zenon DEF Listers
  <2>. QED
    BY <1>1, <1>10, <2>1, <2>2, Zenon DEF Disconnect
<1>. QED
  BY <1>3, <1>4, <1>5, <1>6, <1>7, <1>8, <1>9, <1>10, Zenon

LEMMA NextOnce == ListingInv /\ OnceInv /\ [ListingNext]_listingVars /\ [NoneMoved]_listingVars => OnceInv'
<1>. SUFFICES ASSUME ListingInv, OnceInv, [ListingNext]_listingVars, [NoneMoved]_listingVars PROVE OnceInv'
  OBVIOUS
<1>1. CASE UNCHANGED listingVars
  BY <1>1, Zenon DEF listingVars, OnceInv, Once, Behind
<1>2. ASSUME NEW r \in Lister, Listing(r) PROVE OnceInv'
  BY <1>2, OnceControl, OncePush, OnceCallback, OnceRead, ZenonT(30) DEF Listing
<1>3. CASE ListingNext /\ NoneMoved
  BY <1>2, <1>3, OnceWrites, OnceControl, ZenonT(30) DEF ListingNext
<1>. QED
  BY <1>1, <1>3, Zenon

\* A listing shows a task twice only when a task it was sent is saved while it
\* is subscribed.  The server pushes what lies ahead of the consumer, a save
\* moves a message to the end of the stream, and the callback and the handler
\* each hand a task on once, so without such a save every task a listing holds
\* is behind its consumer and in one place.
THEOREM RepeatsNeedSave == ListingSpec /\ [][NoneMoved]_listingVars => []ListedOnce
<1>1. ListingInit => OnceInv
  <2>1. Once(NewLister) /\ Behind(NewLister)
    BY NoMail, ZenonT(30) DEF Once, Behind, NewLister
  <2>. QED
    BY <2>1, ZenonT(30) DEF ListingInit, OnceInv
<1>2. ListingInv /\ OnceInv => ListedOnce
  <2>. SUFFICES ASSUME ListingInv, OnceInv, NEW r \in Lister PROVE IsInjective(lister[r].listed)
    BY ZenonT(30) DEF ListedOnce
  <2>1. Apart(lister[r].listed) /\ DOMAIN lister[r].listed = 1..Len(lister[r].listed)
    BY OnceFields, Lengths DEF Once
  <2>. QED
    BY <2>1, Zenon DEF Apart, IsInjective
<1>. QED
  BY <1>1, <1>2, InitListing, NextListing, NextOnce, PTL DEF ListingSpec

=============================================================================
