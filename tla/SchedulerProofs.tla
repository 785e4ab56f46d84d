-------------------------- MODULE SchedulerProofs --------------------------
(***************************************************************************)
(* A scheduler follows the configuration bucket, for any number of         *)
(* members, schedules, changes and ends of members.                        *)
(***************************************************************************)
EXTENDS TaskScheduler, FiniteSetTheorems, TLAPS

Runs == {"new", "loading", "running", "returned"}
Watchers == {"none", "select", "continue", "return", "done"}
Items == [Schedule -> [rev : Nat, cronID : Nat]]
Messages == {Nil} \cup [kind : {"put", "delete"}, name : Schedule, rev : Nat]
Channels == Seq(Messages)
CronEntries == Nat \X Schedule

Schedulers ==
  [run : Runs, watcher : Watchers, pos : Nat, initial : Nat, marker : BOOLEAN, chan : Channels,
   closed : BOOLEAN, ready : BOOLEAN, tasks : Items, cron : SUBSET CronEntries, lastID : Nat,
   due : SUBSET CronEntries, jobs : SUBSET CronEntries, stopped : BOOLEAN, cancelled : BOOLEAN]

Buckets == [Schedule -> [rev : Nat, deleted : BOOLEAN]]

\* Message i of the channel is about a schedule.
About(m, i) == m.chan[i] # Nil

\* Revisions arrive in order: those in the channel are newer than what was
\* applied and no newer than what was delivered or what the bucket has, and
\* say of the last revision what the bucket says.
Ordered(m, b) ==
  /\ \A i, j \in 1..Len(m.chan) :
       i < j /\ About(m, i) /\ About(m, j) => m.chan[i].rev < m.chan[j].rev
  /\ \A i \in 1..Len(m.chan) : About(m, i) =>
       /\ m.chan[i].rev <= m.pos /\ m.chan[i].rev <= b[m.chan[i].name].rev
       /\ m.tasks[m.chan[i].name].rev < m.chan[i].rev
       /\ m.chan[i].rev = b[m.chan[i].name].rev =>
            m.chan[i].kind = (IF b[m.chan[i].name].deleted THEN "delete" ELSE "put")
  /\ \A s \in Schedule : m.tasks[s].rev <= m.pos /\ m.tasks[s].rev <= b[s].rev

\* The last revision of schedule s is to be delivered, in the channel or applied.
InChannel(m, s, rev) == \E i \in 1..Len(m.chan) : About(m, i) /\ m.chan[i].name = s /\ m.chan[i].rev = rev
Applied(m, s, rev) == m.tasks[s].rev = rev /\ <<m.tasks[s].cronID, s>> \in m.cron
Followed(m, b) ==
  \A s \in Schedule : ~b[s].deleted =>
    b[s].rev > m.pos \/ InChannel(m, s, b[s].rev) \/ Applied(m, s, b[s].rev)

\* The nil marker parts the initial values from the later ones.
Marked(m, b) ==
  /\ m.marker => \A s \in Schedule : b[s].rev <= m.initial => b[s].rev <= m.pos
  /\ \A i \in 1..Len(m.chan) : ~About(m, i) => m.marker
  /\ \A i, j \in 1..Len(m.chan) : i < j /\ ~About(m, i) => About(m, j) /\ m.chan[j].rev > m.initial

\* The marker has been received: what is in the channel is no initial value.
Passed(m) ==
  m.marker /\ \A i \in 1..Len(m.chan) : About(m, i) /\ m.chan[i].rev > m.initial

\* What the scheduler did by itself while its caller goes on.
Waited(m) ==
  ~m.cancelled =>
    /\ ~m.closed /\ m.watcher \notin {"return", "done"}
    /\ m.ready \/ m.watcher = "continue" \/ m.run \in {"running", "returned"} => Passed(m)

MemberOK(m, b) ==
  /\ Ordered(m, b) /\ Followed(m, b) /\ Marked(m, b) /\ Waited(m)
  /\ m.run = "new" => m = NewScheduler

SchedulerInv ==
  /\ bucket \in Buckets /\ lastRev \in Nat /\ sched \in [Scheduler -> Schedulers]
  /\ \A s \in Schedule : bucket[s].rev <= lastRev /\ (bucket[s].rev = 0 => bucket[s].deleted)
  /\ \A s, u \in Schedule : bucket[s].rev = bucket[u].rev /\ bucket[s].rev # 0 => s = u
  /\ \A n \in Scheduler :
       sched[n].pos <= lastRev /\ sched[n].initial <= lastRev /\ MemberOK(sched[n], bucket)

\* The invariant in the next state, by its parts.
LEMMA InvariantHolds ==
  ASSUME bucket' \in Buckets, lastRev' \in Nat, sched' \in [Scheduler -> Schedulers],
         \A s \in Schedule : bucket'[s].rev <= lastRev' /\ (bucket'[s].rev = 0 => bucket'[s].deleted),
         \A s, u \in Schedule : bucket'[s].rev = bucket'[u].rev /\ bucket'[s].rev # 0 => s = u,
         \A n \in Scheduler :
           /\ sched'[n].pos <= lastRev' /\ sched'[n].initial <= lastRev'
           /\ MemberOK(sched'[n], bucket')
  PROVE  SchedulerInv'
<1>1. (\A n \in Scheduler : MemberOK(sched[n], bucket))'
      BY ZenonT(30) DEF MemberOK, Ordered, Followed, Marked, Waited, Passed, About, InChannel, Applied
<1>2. QED
      BY <1>1 DEF SchedulerInv

\* A step of one member.
LEMMA MemberMoves ==
  ASSUME SchedulerInv, NEW n \in Scheduler, NEW v \in Schedulers, sched' = [sched EXCEPT ![n] = v],
         UNCHANGED <<bucket, lastRev>>, v.pos <= lastRev, v.initial <= lastRev, MemberOK(v, bucket)
  PROVE  SchedulerInv'
<1>1. sched' \in [Scheduler -> Schedulers]
      BY DEF SchedulerInv
<1>2. \A k \in Scheduler : /\ sched'[k].pos <= lastRev /\ sched'[k].initial <= lastRev
                           /\ MemberOK(sched'[k], bucket)
      BY DEF SchedulerInv
<1>3. /\ bucket' \in Buckets /\ lastRev' \in Nat /\ bucket' = bucket /\ lastRev' = lastRev
      /\ \A s \in Schedule : bucket[s].rev <= lastRev /\ (bucket[s].rev = 0 => bucket[s].deleted)
      /\ \A s, u \in Schedule : bucket[s].rev = bucket[u].rev /\ bucket[s].rev # 0 => s = u
      BY DEF SchedulerInv
<1>4. QED
      BY <1>1, <1>2, <1>3, InvariantHolds

\* A step that leaves the watch alone.
LEMMA WatchStays ==
  ASSUME NEW m \in Schedulers, NEW v \in Schedulers, NEW b \in Buckets, MemberOK(m, b),
         v.pos = m.pos, v.initial = m.initial, v.marker = m.marker, v.chan = m.chan,
         v.tasks = m.tasks, v.cron = m.cron
  PROVE  Ordered(v, b) /\ Followed(v, b) /\ Marked(v, b) /\ (Passed(v) <=> Passed(m))
<1>1. \A i \in 1..Len(m.chan) : About(v, i) <=> About(m, i)
      BY DEF About
<1>2. Ordered(v, b)
      BY <1>1 DEF MemberOK, Ordered
<1>3. Followed(v, b)
      BY <1>1 DEF MemberOK, Followed, InChannel, Applied
<1>4. Marked(v, b) /\ (Passed(v) <=> Passed(m))
      BY <1>1 DEF MemberOK, Marked, Passed
<1>5. QED
      BY <1>2, <1>3, <1>4

\* ScheduledTasksWatch passes on the oldest revision that is to be delivered.
LEMMA ForwardItem ==
  ASSUME NEW m \in Schedulers, NEW v \in Schedulers, NEW b \in Buckets, MemberOK(m, b),
         \A s, u \in Schedule : b[s].rev = b[u].rev /\ b[s].rev # 0 => s = u,
         NEW s \in Schedule, b[s].rev > m.pos, \A u \in Schedule : b[u].rev > m.pos => b[s].rev <= b[u].rev,
         NEW msg \in Messages, msg # Nil, msg.name = s, msg.rev = b[s].rev,
         msg.kind = (IF b[s].deleted THEN "delete" ELSE "put"),
         v.chan = Append(m.chan, msg), v.pos = b[s].rev, v.initial = m.initial,
         v.marker = m.marker, v.tasks = m.tasks, v.cron = m.cron
  PROVE  Ordered(v, b) /\ Followed(v, b) /\ Marked(v, b) /\ (Passed(m) => Passed(v))
<1> DEFINE k == Len(m.chan)
<1>1. m.chan \in Seq(Messages) /\ k \in Nat
      BY DEF Schedulers, Channels
<1>2. Len(v.chan) = k + 1 /\ v.chan[k + 1] = msg /\ \A i \in 1..k : v.chan[i] = m.chan[i]
      BY <1>1
<1>3. 1..Len(v.chan) = (1..k) \cup {k + 1} /\ \A i \in 1..k : i < k + 1 /\ i # k + 1
      BY <1>1, <1>2
<1>4. About(v, k + 1) /\ \A i \in 1..k : About(v, i) <=> About(m, i)
      BY <1>2 DEF About
<1>5. /\ m.pos \in Nat /\ b[s].rev \in Nat /\ m.initial \in Nat
      /\ \A u \in Schedule : b[u].rev \in Nat /\ m.tasks[u].rev \in Nat
      BY SMTT(30) DEF Schedulers, Buckets, Items
<1>6. \A i \in 1..k : About(m, i) => /\ m.chan[i].rev \in Nat /\ m.chan[i].name \in Schedule
                                     /\ m.chan[i].rev <= m.pos
      <2> SUFFICES ASSUME NEW i \in 1..k, About(m, i)
                   PROVE  /\ m.chan[i].rev \in Nat /\ m.chan[i].name \in Schedule
                          /\ m.chan[i].rev <= m.pos
          OBVIOUS
      <2>1. m.chan[i] \in Messages /\ m.chan[i] # Nil
            BY <1>1, SMTT(30) DEF About
      <2>2. QED
            BY <2>1 DEF Messages, MemberOK, Ordered
<1>7. Ordered(v, b)
      <2>1. \A i, j \in 1..Len(v.chan) :
              i < j /\ About(v, i) /\ About(v, j) => v.chan[i].rev < v.chan[j].rev
            <3> SUFFICES ASSUME NEW i \in 1..(k + 1), NEW j \in 1..(k + 1), i < j,
                                About(v, i), About(v, j)
                         PROVE  v.chan[i].rev < v.chan[j].rev
                BY <1>2
            <3>1. i \in 1..k
                  BY <1>1, SMTT(30)
            <3>2. CASE j \in 1..k
                  BY <1>2, <1>4, <3>1, <3>2 DEF MemberOK, Ordered
            <3>3. CASE j = k + 1
                  BY <1>2, <1>4, <1>5, <1>6, <3>1, <3>3, SMTT(30)
            <3>4. QED
                  BY <1>1, <3>2, <3>3
      <2>2. ASSUME NEW i \in 1..Len(v.chan), About(v, i)
            PROVE  /\ v.chan[i].rev <= v.pos /\ v.chan[i].rev <= b[v.chan[i].name].rev
                   /\ v.tasks[v.chan[i].name].rev < v.chan[i].rev
                   /\ v.chan[i].rev = b[v.chan[i].name].rev =>
                        v.chan[i].kind = (IF b[v.chan[i].name].deleted THEN "delete" ELSE "put")
            <3>1. CASE i \in 1..k
                  <4>1. /\ v.chan[i] = m.chan[i] /\ About(m, i)
                        /\ m.chan[i].rev \in Nat /\ m.chan[i].rev <= m.pos
                        BY <1>2, <1>4, <1>6, <2>2, <3>1
                  <4>2. m.chan[i].rev <= v.pos
                        BY <1>5, <4>1, SMTT(30)
                  <4>3. QED
                        BY <3>1, <4>1, <4>2 DEF MemberOK, Ordered
            <3>2. CASE i = k + 1
                  <4>1. m.tasks[s].rev <= m.pos
                        BY DEF MemberOK, Ordered
                  <4>2. QED
                        BY <1>2, <1>5, <3>2, <4>1, SMTT(30)
            <3>3. QED
                  BY <1>3, <2>2, <3>1, <3>2, ZenonT(30)
      <2>3. \A u \in Schedule : v.tasks[u].rev <= v.pos /\ v.tasks[u].rev <= b[u].rev
            <3>1. \A u \in Schedule : m.tasks[u].rev <= m.pos /\ m.tasks[u].rev <= b[u].rev
                  BY DEF MemberOK, Ordered
            <3>2. QED
                  BY <1>5, <3>1
      <2>4. QED
            BY <2>1, <2>2, <2>3, ZenonT(30) DEF Ordered
<1>8. Followed(v, b)
      <2> SUFFICES ASSUME NEW u \in Schedule, ~b[u].deleted
                   PROVE  b[u].rev > v.pos \/ InChannel(v, u, b[u].rev) \/ Applied(v, u, b[u].rev)
          BY DEF Followed
      <2>1. b[u].rev > m.pos \/ InChannel(m, u, b[u].rev) \/ Applied(m, u, b[u].rev)
            BY DEF MemberOK, Followed
      <2>2. CASE u = s
            BY <1>2, <1>3, <1>4, <2>2 DEF InChannel
      <2>3. CASE u # s /\ b[u].rev > m.pos
            BY <1>5, <2>3
      <2>4. CASE InChannel(m, u, b[u].rev)
            BY <1>2, <1>3, <1>4, <2>4 DEF InChannel
      <2>5. CASE Applied(m, u, b[u].rev)
            BY <2>5 DEF Applied
      <2>6. QED
            BY <2>1, <2>2, <2>3, <2>4, <2>5
<1>9. m.marker => b[s].rev > m.initial
      BY <1>5 DEF MemberOK, Marked
<1>10. Marked(v, b)
      <2>1. v.marker => \A u \in Schedule : b[u].rev <= v.initial => b[u].rev <= v.pos
            BY <1>5 DEF MemberOK, Marked
      <2>2. \A i \in 1..Len(v.chan) : ~About(v, i) => v.marker
            BY <1>3, <1>4 DEF MemberOK, Marked
      <2>3. ASSUME NEW i \in 1..Len(v.chan), NEW j \in 1..Len(v.chan), i < j, ~About(v, i)
            PROVE  About(v, j) /\ v.chan[j].rev > v.initial
            <3>1. i \in 1..k /\ ~About(m, i)
                  BY <1>1, <1>2, <1>4, <2>3, SMTT(30)
            <3>2. CASE j \in 1..k
                  BY <1>2, <1>4, <2>3, <3>1, <3>2 DEF MemberOK, Marked
            <3>3. CASE j = k + 1
                  BY <1>2, <1>4, <1>9, <3>1, <3>3 DEF MemberOK, Marked
            <3>4. QED
                  BY <1>3, <3>2, <3>3, SMTT(30)
      <2>4. QED
            BY <2>1, <2>2, <2>3 DEF Marked
<1>11. Passed(m) => Passed(v)
      BY <1>2, <1>3, <1>4, <1>9 DEF Passed
<1>12. QED
      BY <1>7, <1>8, <1>10, <1>11

\* It passes on the marker, when every initial value went before.
LEMMA ForwardMarker ==
  ASSUME NEW m \in Schedulers, NEW v \in Schedulers, NEW b \in Buckets, MemberOK(m, b), ~m.marker,
         \A s \in Schedule : b[s].rev <= m.initial => b[s].rev <= m.pos,
         v.chan = Append(m.chan, Nil), v.pos = m.pos, v.initial = m.initial, v.marker,
         v.tasks = m.tasks, v.cron = m.cron
  PROVE  Ordered(v, b) /\ Followed(v, b) /\ Marked(v, b)
<1> DEFINE k == Len(m.chan)
<1>1. m.chan \in Seq(Messages) /\ k \in Nat
      BY DEF Schedulers, Channels
<1>2. Len(v.chan) = k + 1 /\ v.chan[k + 1] = Nil /\ \A i \in 1..k : v.chan[i] = m.chan[i]
      BY <1>1 DEF Messages
<1>3. 1..Len(v.chan) = (1..k) \cup {k + 1} /\ \A i \in 1..k : i < k + 1 /\ i # k + 1
      BY <1>1, <1>2
<1>4. ~About(v, k + 1) /\ \A i \in 1..k : About(v, i) <=> About(m, i)
      BY <1>2, ZenonT(30) DEF About
<1>5. Ordered(v, b)
      BY <1>2, <1>3, <1>4, ZenonT(30) DEF MemberOK, Ordered
<1>6. Followed(v, b)
      BY <1>2, <1>3, <1>4 DEF MemberOK, Followed, InChannel, Applied
<1>7. \A i \in 1..k : About(v, i)
      BY <1>4 DEF MemberOK, Marked
<1>8. \A i, j \in 1..Len(v.chan) : i < j => i \in 1..k
      BY <1>1, <1>2
<1>9. Marked(v, b)
      BY <1>7, <1>8 DEF Marked
<1>10. QED
      BY <1>5, <1>6, <1>9

\* The messages behind the head of the channel.
LEMMA TailOf ==
  ASSUME NEW m \in Schedulers, NEW v \in Schedulers, m.chan # <<>>, v.chan = Tail(m.chan)
  PROVE  /\ Len(m.chan) \in Nat /\ 1 \in 1..Len(m.chan) /\ Head(m.chan) = m.chan[1]
         /\ Head(m.chan) \in Messages /\ Len(v.chan) = Len(m.chan) - 1
         /\ \A i \in 1..Len(v.chan) : /\ i + 1 \in 1..Len(m.chan) /\ 1 < i + 1
                                      /\ v.chan[i] = m.chan[i + 1]
                                      /\ About(v, i) <=> About(m, i + 1)
         /\ \A i \in 1..Len(m.chan) : i # 1 =>
              \E j \in 1..Len(v.chan) : i = j + 1
<1>1. m.chan \in Seq(Messages)
      BY DEF Schedulers, Channels
<1>2. /\ Len(m.chan) \in Nat /\ Len(m.chan) > 0 /\ Head(m.chan) = m.chan[1]
      /\ Len(v.chan) = Len(m.chan) - 1 /\ m.chan[1] \in Messages
      BY <1>1
<1>3. \A i \in 1..Len(v.chan) : i + 1 \in 1..Len(m.chan) /\ 1 < i + 1 /\ v.chan[i] = m.chan[i + 1]
      BY <1>1, <1>2
<1>4. ASSUME NEW i \in 1..Len(m.chan), i # 1
      PROVE  \E j \in 1..Len(v.chan) : i = j + 1
      <2>1. i - 1 \in 1..Len(v.chan) /\ i = (i - 1) + 1
            BY <1>2, <1>4
      <2>2. QED
            BY <2>1
<1>5. 1 \in 1..Len(m.chan)
      BY <1>2
<1>6. QED
      BY <1>2, <1>3, <1>4, <1>5 DEF About

\* What is behind the head stays as it was.
LEMMA MarksStay ==
  ASSUME NEW m \in Schedulers, NEW v \in Schedulers, NEW b \in Buckets, MemberOK(m, b),
         m.chan # <<>>, v.chan = Tail(m.chan), v.pos = m.pos, v.initial = m.initial,
         v.marker = m.marker
  PROVE  /\ Marked(v, b) /\ (Passed(m) => Passed(v))
         /\ \A i, j \in 1..Len(v.chan) :
              i < j /\ About(v, i) /\ About(v, j) => v.chan[i].rev < v.chan[j].rev
<1>1. \A i \in 1..Len(v.chan) : /\ i + 1 \in 1..Len(m.chan) /\ v.chan[i] = m.chan[i + 1]
                               /\ About(v, i) <=> About(m, i + 1)
      BY TailOf
<1>2. \A i, j \in 1..Len(v.chan) : i < j => i + 1 < j + 1
      OBVIOUS
<1>3. /\ \A i \in 1..Len(m.chan) : ~About(m, i) => m.marker
      /\ \A i, j \in 1..Len(m.chan) : i < j /\ ~About(m, i) => About(m, j) /\ m.chan[j].rev > m.initial
      /\ m.marker => \A s \in Schedule : b[s].rev <= m.initial => b[s].rev <= m.pos
      /\ \A i, j \in 1..Len(m.chan) :
           i < j /\ About(m, i) /\ About(m, j) => m.chan[i].rev < m.chan[j].rev
      BY DEF MemberOK, Marked, Ordered
<1>4. Marked(v, b)
      <2>1. \A i \in 1..Len(v.chan) : ~About(v, i) => v.marker
            BY <1>1, <1>3
      <2>2. \A i, j \in 1..Len(v.chan) : i < j /\ ~About(v, i) => About(v, j) /\ v.chan[j].rev > v.initial
            BY <1>1, <1>2, <1>3
      <2>3. QED
            BY <1>3, <2>1, <2>2 DEF Marked
<1>5. Passed(m) => Passed(v)
      BY <1>1 DEF Passed
<1>6. \A i, j \in 1..Len(v.chan) :
        i < j /\ About(v, i) /\ About(v, j) => v.chan[i].rev < v.chan[j].rev
      BY <1>1, <1>2, <1>3
<1>7. QED
      BY <1>4, <1>5, <1>6

\* The goroutine receives the marker.
LEMMA TakeMarker ==
  ASSUME NEW m \in Schedulers, NEW v \in Schedulers, NEW b \in Buckets, MemberOK(m, b),
         m.chan # <<>>, Head(m.chan) = Nil, v.chan = Tail(m.chan), v.pos = m.pos,
         v.initial = m.initial, v.marker = m.marker, v.tasks = m.tasks, v.cron = m.cron
  PROVE  Ordered(v, b) /\ Followed(v, b) /\ Marked(v, b) /\ Passed(v)
<1>1. /\ 1 \in 1..Len(m.chan) /\ ~About(m, 1)
      /\ \A i \in 1..Len(v.chan) : /\ i + 1 \in 1..Len(m.chan) /\ 1 < i + 1
                                   /\ v.chan[i] = m.chan[i + 1] /\ (About(v, i) <=> About(m, i + 1))
      /\ \A i \in 1..Len(m.chan) : i # 1 => \E j \in 1..Len(v.chan) : i = j + 1
      BY TailOf, ZenonT(30) DEF About
<1>2. Ordered(v, b)
      <2>1. /\ \A i \in 1..Len(m.chan) : About(m, i) =>
                  /\ m.chan[i].rev <= m.pos /\ m.chan[i].rev <= b[m.chan[i].name].rev
                  /\ m.tasks[m.chan[i].name].rev < m.chan[i].rev
                  /\ m.chan[i].rev = b[m.chan[i].name].rev =>
                       m.chan[i].kind = (IF b[m.chan[i].name].deleted THEN "delete" ELSE "put")
            /\ \A s \in Schedule : m.tasks[s].rev <= m.pos /\ m.tasks[s].rev <= b[s].rev
            BY ZenonT(30) DEF MemberOK, Ordered
      <2>2. \A i \in 1..Len(v.chan) : About(v, i) =>
              /\ v.chan[i].rev <= v.pos /\ v.chan[i].rev <= b[v.chan[i].name].rev
              /\ v.tasks[v.chan[i].name].rev < v.chan[i].rev
              /\ v.chan[i].rev = b[v.chan[i].name].rev =>
                   v.chan[i].kind = (IF b[v.chan[i].name].deleted THEN "delete" ELSE "put")
            BY <1>1, <2>1
      <2>3. \A i, j \in 1..Len(v.chan) :
              i < j /\ About(v, i) /\ About(v, j) => v.chan[i].rev < v.chan[j].rev
            BY MarksStay, ZenonT(30)
      <2>4. \A s \in Schedule : v.tasks[s].rev <= v.pos /\ v.tasks[s].rev <= b[s].rev
            BY <2>1
      <2>5. QED
            BY <2>2, <2>3, <2>4, ZenonT(30) DEF Ordered
<1>3. Followed(v, b)
      <2> SUFFICES ASSUME NEW s \in Schedule, ~b[s].deleted
                   PROVE  b[s].rev > v.pos \/ InChannel(v, s, b[s].rev) \/ Applied(v, s, b[s].rev)
          BY DEF Followed
      <2>1. b[s].rev > m.pos \/ InChannel(m, s, b[s].rev) \/ Applied(m, s, b[s].rev)
            BY DEF MemberOK, Followed
      <2>2. CASE InChannel(m, s, b[s].rev)
            <3>1. PICK i \in 1..Len(m.chan) :
                    About(m, i) /\ m.chan[i].name = s /\ m.chan[i].rev = b[s].rev
                  BY <2>2 DEF InChannel
            <3>2. PICK j \in 1..Len(v.chan) : i = j + 1
                  BY <1>1, <3>1, ZenonT(30)
            <3>3. QED
                  BY <1>1, <3>1, <3>2, ZenonT(30) DEF InChannel
      <2>3. QED
            BY <2>1, <2>2 DEF Applied
<1>4. Passed(v)
      BY <1>1, ZenonT(30) DEF MemberOK, Marked, Passed
<1>5. QED
      BY <1>2, <1>3, <1>4, MarksStay

\* The other schedules keep their items and cron entries.
OthersStay(m, v, msg) ==
  \A s \in Schedule : s # msg.name =>
    /\ v.tasks[s] = m.tasks[s]
    /\ <<m.tasks[s].cronID, s>> \in m.cron => <<m.tasks[s].cronID, s>> \in v.cron

\* It receives a schedule or its removal.
LEMMA TakeItem ==
  ASSUME NEW m \in Schedulers, NEW v \in Schedulers, NEW b \in Buckets, MemberOK(m, b),
         m.chan # <<>>, v.chan = Tail(m.chan), v.pos = m.pos, v.initial = m.initial,
         v.marker = m.marker, NEW msg \in Messages, msg = Head(m.chan), msg # Nil, OthersStay(m, v, msg),
         \/ /\ msg.kind = "put" /\ v.tasks[msg.name].rev = msg.rev
            /\ <<v.tasks[msg.name].cronID, msg.name>> \in v.cron
         \/ msg.kind = "delete" /\ v.tasks[msg.name] = m.tasks[msg.name]
  PROVE  Ordered(v, b) /\ Followed(v, b) /\ Marked(v, b) /\ (Passed(m) => Passed(v))
<1>1. /\ 1 \in 1..Len(m.chan) /\ m.chan[1] = msg /\ About(m, 1) /\ msg \in Messages
      /\ \A i \in 1..Len(v.chan) : /\ i + 1 \in 1..Len(m.chan) /\ 1 < i + 1
                                   /\ v.chan[i] = m.chan[i + 1] /\ (About(v, i) <=> About(m, i + 1))
      /\ \A i \in 1..Len(m.chan) : i # 1 => \E j \in 1..Len(v.chan) : i = j + 1
      BY TailOf, ZenonT(30) DEF About
<1>2. /\ msg.rev \in Nat /\ msg.name \in Schedule /\ msg.kind \in {"put", "delete"}
      /\ m.pos \in Nat /\ \A u \in Schedule : b[u].rev \in Nat /\ m.tasks[u].rev \in Nat
      BY <1>1, ZenonT(30) DEF Messages, Schedulers, Buckets, Items
<1>3. /\ msg.rev <= m.pos /\ msg.rev <= b[msg.name].rev /\ m.tasks[msg.name].rev < msg.rev
      /\ msg.rev = b[msg.name].rev => msg.kind = (IF b[msg.name].deleted THEN "delete" ELSE "put")
      BY <1>1, ZenonT(30) DEF MemberOK, Ordered
<1>4. \A i \in 1..Len(v.chan) : About(v, i) => msg.rev < v.chan[i].rev
      BY <1>1, ZenonT(30) DEF MemberOK, Ordered
<1>5. Ordered(v, b)
      <2>1. ASSUME NEW i \in 1..Len(v.chan), About(v, i)
            PROVE  /\ v.chan[i].rev <= v.pos /\ v.chan[i].rev <= b[v.chan[i].name].rev
                   /\ v.tasks[v.chan[i].name].rev < v.chan[i].rev
                   /\ v.chan[i].rev = b[v.chan[i].name].rev =>
                        v.chan[i].kind = (IF b[v.chan[i].name].deleted THEN "delete" ELSE "put")
            <3>1. /\ v.chan[i].rev <= v.pos /\ v.chan[i].rev <= b[v.chan[i].name].rev
                  /\ m.tasks[v.chan[i].name].rev < v.chan[i].rev
                  /\ v.chan[i].rev = b[v.chan[i].name].rev =>
                       v.chan[i].kind = (IF b[v.chan[i].name].deleted THEN "delete" ELSE "put")
                  <4> DEFINE j == i + 1
                  <4>1. j \in 1..Len(m.chan) /\ v.chan[i] = m.chan[j] /\ About(m, j)
                        BY <1>1, <2>1, ZenonT(30)
                  <4> HIDE DEF j
                  <4>2. QED
                        BY <4>1, ZenonT(30) DEF MemberOK, Ordered
            <3>2. v.chan[i].name \in Schedule
                  <4>1. v.chan[i] \in Messages /\ v.chan[i] # Nil
                        BY <2>1, SMTT(30) DEF Schedulers, Channels, About
                  <4>2. QED
                        BY <4>1, ZenonT(30) DEF Messages
            <3>3. v.tasks[v.chan[i].name].rev < v.chan[i].rev
                  BY <1>4, <2>1, <3>1, <3>2, ZenonT(30) DEF OthersStay
            <3>4. QED
                  BY <3>1, <3>3, SMTT(30)
      <2>2. \A s \in Schedule : v.tasks[s].rev <= v.pos /\ v.tasks[s].rev <= b[s].rev
            <3>1. \A s \in Schedule : m.tasks[s].rev <= m.pos /\ m.tasks[s].rev <= b[s].rev
                  BY ZenonT(30) DEF MemberOK, Ordered
            <3>2. QED
                  BY <1>3, <3>1, ZenonT(30) DEF OthersStay
      <2>3. QED
            BY <2>1, <2>2, MarksStay, ZenonT(30) DEF Ordered
<1>6. Followed(v, b)
      <2> SUFFICES ASSUME NEW s \in Schedule, ~b[s].deleted
                   PROVE  b[s].rev > v.pos \/ InChannel(v, s, b[s].rev) \/ Applied(v, s, b[s].rev)
          BY ZenonT(30) DEF Followed
      <2>1. b[s].rev > m.pos \/ InChannel(m, s, b[s].rev) \/ Applied(m, s, b[s].rev)
            BY ZenonT(30) DEF MemberOK, Followed
      <2>2. CASE InChannel(m, s, b[s].rev)
            <3>1. PICK i \in 1..Len(m.chan) :
                    About(m, i) /\ m.chan[i].name = s /\ m.chan[i].rev = b[s].rev
                  BY <2>2, ZenonT(30) DEF InChannel
            <3>2. CASE i = 1
                  BY <1>1, <1>3, <3>1, <3>2, SMTT(30) DEF Applied
            <3>3. CASE i # 1
                  <4>1. PICK j \in 1..Len(v.chan) : i = j + 1
                        BY <1>1, <3>1, <3>3, ZenonT(30)
                  <4>2. QED
                        BY <1>1, <3>1, <4>1, ZenonT(30) DEF InChannel
            <3>4. QED
                  BY <3>2, <3>3, ZenonT(30)
      <2>3. CASE Applied(m, s, b[s].rev)
            <3>1. m.tasks[s].rev = b[s].rev /\ b[s].rev \in Nat
                  BY <2>3, ZenonT(30) DEF Applied, Buckets
            <3>2. m.tasks[msg.name].rev < b[msg.name].rev
                  BY <1>2, <1>3, SMTT(30)
            <3>3. s # msg.name
                  BY <3>1, <3>2, SMTT(30)
            <3>4. <<m.tasks[s].cronID, s>> \in v.cron /\ v.tasks[s] = m.tasks[s]
                  BY <2>3, <3>3 DEF Applied, OthersStay
            <3>5. QED
                  BY <3>1, <3>4, ZenonT(30) DEF Applied
      <2>4. QED
            BY <2>1, <2>2, <2>3, ZenonT(30)
<1>7. QED
      BY <1>5, <1>6, MarksStay, ZenonT(30)

\* Members of the sets above.
LEMMA Members ==
  /\ "new" \in Runs /\ "loading" \in Runs /\ "running" \in Runs /\ "returned" \in Runs
  /\ "none" \in Watchers /\ "select" \in Watchers /\ "continue" \in Watchers
  /\ "return" \in Watchers /\ "done" \in Watchers
BY DEF Runs, Watchers

LEMMA MemberType ==
  ASSUME SchedulerInv, NEW n \in Scheduler
  PROVE  /\ sched[n] \in Schedulers /\ MemberOK(sched[n], bucket) /\ bucket \in Buckets
         /\ sched[n].pos <= lastRev /\ sched[n].initial <= lastRev
         /\ sched[n].run = "new" =>
              sched[n].watcher = "none" /\ sched[n].due = {} /\ sched[n].jobs = {}
<1>1. /\ sched[n] \in Schedulers /\ MemberOK(sched[n], bucket) /\ bucket \in Buckets
      /\ sched[n].pos <= lastRev /\ sched[n].initial <= lastRev
      BY DEF SchedulerInv
<1>2. NewScheduler.watcher = "none" /\ NewScheduler.due = {} /\ NewScheduler.jobs = {}
      BY DEF NewScheduler
<1>3. QED
      BY <1>1, <1>2 DEF MemberOK

\* The marker went by, or nobody has to know yet.
Ready(m) == m.ready \/ m.watcher = "continue" \/ m.run \in {"running", "returned"}

\* A step of a member that is no step of its watch.
LEMMA QuietStep ==
  ASSUME SchedulerInv, NEW n \in Scheduler, NEW v \in Schedulers, sched' = [sched EXCEPT ![n] = v],
         UNCHANGED <<bucket, lastRev>>,
         v.pos = sched[n].pos, v.initial = sched[n].initial, v.marker = sched[n].marker,
         v.chan = sched[n].chan, v.tasks = sched[n].tasks, v.cron = sched[n].cron, v.run # "new",
         v.cancelled \/ ( /\ ~sched[n].cancelled /\ (v.closed => sched[n].closed)
                          /\ (v.watcher \in {"return", "done"} => v.watcher = sched[n].watcher)
                          /\ (Ready(v) => Ready(sched[n])) )
  PROVE  SchedulerInv'
<1>1. /\ sched[n] \in Schedulers /\ MemberOK(sched[n], bucket) /\ bucket \in Buckets
      /\ v.pos <= lastRev /\ v.initial <= lastRev
      BY MemberType
<1>2. Ordered(v, bucket) /\ Followed(v, bucket) /\ Marked(v, bucket)
      /\ (Passed(v) <=> Passed(sched[n]))
      BY <1>1, WatchStays
<1>3. Waited(v)
      BY <1>1, <1>2 DEF Waited, MemberOK, Ready
<1>4. MemberOK(v, bucket)
      BY <1>2, <1>3 DEF MemberOK
<1>5. QED
      BY <1>1, <1>4, MemberMoves, ZenonT(30)

\* ScheduledTasksWatch ends.
LEMMA CloseWatchStep ==
  ASSUME SchedulerInv, NEW n \in Scheduler, CloseWatch(n)
  PROVE  SchedulerInv'
<1> DEFINE m == sched[n]
           v == [m EXCEPT !.closed = TRUE]
<1>1. m \in Schedulers /\ m.watcher # "none" /\ m.cancelled /\ m.run # "new" /\ MemberOK(m, bucket)
      BY MemberType DEF CloseWatch
<1>2. sched' = [sched EXCEPT ![n] = v] /\ UNCHANGED <<bucket, lastRev>>
      BY DEF CloseWatch, Become, Local
<1> HIDE DEF m
<1>3. v \in Schedulers
      BY <1>1, Members, ZenonT(30) DEF Schedulers
<1>4. /\ v.pos = m.pos /\ v.initial = m.initial /\ v.marker = m.marker
      /\ v.chan = m.chan /\ v.tasks = m.tasks /\ v.cron = m.cron
      BY <1>1 DEF Schedulers
<1>5. /\ (v.cancelled <=> m.cancelled) /\ (v.ready <=> m.ready) /\ v.run = m.run /\ v.watcher = m.watcher
      /\ v.closed
      BY <1>1 DEF Schedulers
<1> HIDE DEF v
<1>6. QED
      BY <1>1, <1>2, <1>3, <1>4, <1>5, QuietStep, ZenonT(30) DEF m, Ready, MemberOK, Waited

\* The goroutine sees that the context is done.
LEMMA WatchDoneStep ==
  ASSUME SchedulerInv, NEW n \in Scheduler, WatchDone(n)
  PROVE  SchedulerInv'
<1> DEFINE m == sched[n]
           v == [m EXCEPT !.watcher = "return"]
<1>1. m \in Schedulers /\ m.watcher = "select" /\ m.cancelled /\ m.run # "new" /\ MemberOK(m, bucket)
      BY MemberType DEF WatchDone
<1>2. sched' = [sched EXCEPT ![n] = v] /\ UNCHANGED <<bucket, lastRev>>
      BY DEF WatchDone, Become, Local
<1> HIDE DEF m
<1>3. v \in Schedulers
      BY <1>1, Members DEF Schedulers
<1>4. /\ v.pos = m.pos /\ v.initial = m.initial /\ v.marker = m.marker
      /\ v.chan = m.chan /\ v.tasks = m.tasks /\ v.cron = m.cron
      BY <1>1 DEF Schedulers
<1>5. /\ (v.closed <=> m.closed) /\ (v.cancelled <=> m.cancelled) /\ (v.ready <=> m.ready) /\ v.run = m.run
      /\ v.watcher = "return"
      BY <1>1 DEF Schedulers
<1> HIDE DEF v
<1>6. QED
      BY <1>1, <1>2, <1>3, <1>4, <1>5, QuietStep, ZenonT(30) DEF m, Ready, MemberOK, Waited

\* Run starts cron.
LEMMA LoadedStep ==
  ASSUME SchedulerInv, NEW n \in Scheduler, Loaded(n)
  PROVE  SchedulerInv'
<1> DEFINE m == sched[n]
           v == [m EXCEPT !.run = "running", !.ready = FALSE]
<1>1. m \in Schedulers /\ m.run = "loading" /\ m.ready /\ m.run # "new" /\ MemberOK(m, bucket)
      BY MemberType DEF Loaded
<1>2. sched' = [sched EXCEPT ![n] = v] /\ UNCHANGED <<bucket, lastRev>>
      BY DEF Loaded, Become, Local
<1> HIDE DEF m
<1>3. v \in Schedulers
      BY <1>1, Members, ZenonT(30) DEF Schedulers
<1>4. /\ v.pos = m.pos /\ v.initial = m.initial /\ v.marker = m.marker
      /\ v.chan = m.chan /\ v.tasks = m.tasks /\ v.cron = m.cron
      BY <1>1 DEF Schedulers
<1>5. /\ (v.closed <=> m.closed) /\ (v.cancelled <=> m.cancelled) /\ v.watcher = m.watcher
      /\ v.run = "running" /\ ~v.ready
      BY <1>1 DEF Schedulers
<1> HIDE DEF v
<1>6. QED
      BY <1>1, <1>2, <1>3, <1>4, <1>5, QuietStep, ZenonT(30) DEF m, Ready, MemberOK, Waited

\* Run returns.
LEMMA RunReturnsStep ==
  ASSUME SchedulerInv, NEW n \in Scheduler, RunReturns(n)
  PROVE  SchedulerInv'
<1> DEFINE m == sched[n]
           v == [m EXCEPT !.run = "returned", !.stopped = TRUE]
<1>1. m \in Schedulers /\ m.run = "running" /\ m.run # "new" /\ MemberOK(m, bucket)
      BY MemberType DEF RunReturns
<1>2. sched' = [sched EXCEPT ![n] = v] /\ UNCHANGED <<bucket, lastRev>>
      BY DEF RunReturns, Become, Local
<1> HIDE DEF m
<1>3. v \in Schedulers
      BY <1>1, Members, ZenonT(30) DEF Schedulers
<1>4. /\ v.pos = m.pos /\ v.initial = m.initial /\ v.marker = m.marker
      /\ v.chan = m.chan /\ v.tasks = m.tasks /\ v.cron = m.cron
      BY <1>1 DEF Schedulers
<1>5. /\ (v.closed <=> m.closed) /\ (v.cancelled <=> m.cancelled) /\ (v.ready <=> m.ready) /\ v.watcher = m.watcher
      /\ v.run = "returned"
      BY <1>1 DEF Schedulers
<1> HIDE DEF v
<1>6. QED
      BY <1>1, <1>2, <1>3, <1>4, <1>5, QuietStep, ZenonT(30) DEF m, Ready, MemberOK, Waited

\* Stop.
LEMMA StopStep ==
  ASSUME SchedulerInv, NEW n \in Scheduler, Stop(n)
  PROVE  SchedulerInv'
<1> DEFINE m == sched[n]
           v == [m EXCEPT !.stopped = TRUE]
<1>1. m \in Schedulers /\ m.run # "new" /\ m.run # "new" /\ MemberOK(m, bucket)
      BY MemberType DEF Stop, Ends
<1>2. sched' = [sched EXCEPT ![n] = v] /\ UNCHANGED <<bucket, lastRev>>
      BY DEF Stop, Ends, Become, Local
<1> HIDE DEF m
<1>3. v \in Schedulers
      BY <1>1, Members, ZenonT(30) DEF Schedulers
<1>4. /\ v.pos = m.pos /\ v.initial = m.initial /\ v.marker = m.marker
      /\ v.chan = m.chan /\ v.tasks = m.tasks /\ v.cron = m.cron
      BY <1>1 DEF Schedulers
<1>5. /\ (v.closed <=> m.closed) /\ (v.cancelled <=> m.cancelled) /\ (v.ready <=> m.ready) /\ v.run = m.run /\ v.watcher = m.watcher
      BY <1>1, SMTT(30) DEF Schedulers
<1> HIDE DEF v
<1>6. QED
      BY <1>1, <1>2, <1>3, <1>4, <1>5, QuietStep, ZenonT(30) DEF m, Ready, MemberOK, Waited

\* The caller cancels its context.
LEMMA CancelStep ==
  ASSUME SchedulerInv, NEW n \in Scheduler, Cancel(n)
  PROVE  SchedulerInv'
<1> DEFINE m == sched[n]
           v == [m EXCEPT !.cancelled = TRUE]
<1>1. m \in Schedulers /\ m.run # "new" /\ m.run # "new" /\ MemberOK(m, bucket)
      BY MemberType DEF Cancel, Ends
<1>2. sched' = [sched EXCEPT ![n] = v] /\ UNCHANGED <<bucket, lastRev>>
      BY DEF Cancel, Ends, Become, Local
<1> HIDE DEF m
<1>3. v \in Schedulers
      BY <1>1, Members, ZenonT(30) DEF Schedulers
<1>4. /\ v.pos = m.pos /\ v.initial = m.initial /\ v.marker = m.marker
      /\ v.chan = m.chan /\ v.tasks = m.tasks /\ v.cron = m.cron
      BY <1>1 DEF Schedulers
<1>5. /\ (v.closed <=> m.closed) /\ (v.ready <=> m.ready) /\ v.run = m.run /\ v.watcher = m.watcher
      /\ v.cancelled
      BY <1>1 DEF Schedulers
<1> HIDE DEF v
<1>6. QED
      BY <1>1, <1>2, <1>3, <1>4, <1>5, QuietStep, ZenonT(30) DEF m, Ready, MemberOK, Waited

\* The goroutine sends on ready.
LEMMA SendReadyStep ==
  ASSUME SchedulerInv, NEW n \in Scheduler, SendReady(n)
  PROVE  SchedulerInv'
<1> DEFINE m == sched[n]
           w == IF m.watcher = "continue" THEN "select" ELSE "done"
           v == [m EXCEPT !.ready = TRUE, !.watcher = w]
<1>1. /\ m \in Schedulers /\ m.watcher \in {"continue", "return"} /\ m.run # "new"
      /\ MemberOK(m, bucket)
      BY MemberType DEF SendReady
<1>2. sched' = [sched EXCEPT ![n] = v] /\ UNCHANGED <<bucket, lastRev>>
      BY DEF SendReady, Become, Local
<1>3. /\ w \in Watchers /\ (m.watcher = "continue" => w = "select")
      BY Members
<1> HIDE DEF m, w
<1>4. v \in Schedulers
      BY <1>1, <1>3, ZenonT(30) DEF Schedulers
<1>5. /\ v.pos = m.pos /\ v.initial = m.initial /\ v.marker = m.marker
      /\ v.chan = m.chan /\ v.tasks = m.tasks /\ v.cron = m.cron
      BY <1>1 DEF Schedulers
<1>6. /\ (v.closed <=> m.closed) /\ (v.cancelled <=> m.cancelled) /\ v.run = m.run
      /\ v.watcher = w
      BY <1>1 DEF Schedulers
<1> HIDE DEF v
<1>7. QED
      BY <1>1, <1>2, <1>3, <1>4, <1>5, <1>6, QuietStep, ZenonT(30) DEF m, Ready, MemberOK, Waited

\* A job looks whether to create a task, or creates it.
LEMMA JobStep ==
  ASSUME SchedulerInv, NEW n \in Scheduler, NEW e,
         (e \in sched[n].due /\ RunJob(n, e)) \/ (e \in sched[n].jobs /\ EnqueueJob(n, e))
  PROVE  SchedulerInv'
<1> DEFINE m == sched[n]
<1>1. m \in Schedulers /\ m.run # "new" /\ MemberOK(m, bucket)
      BY MemberType
<1>2. ASSUME NEW due \in SUBSET CronEntries, NEW jobs \in SUBSET CronEntries,
             sched' = [sched EXCEPT ![n] = [m EXCEPT !.due = due, !.jobs = jobs]],
             UNCHANGED <<bucket, lastRev>>
      PROVE  SchedulerInv'
      <2> DEFINE v == [m EXCEPT !.due = due, !.jobs = jobs]
      <2>1. sched' = [sched EXCEPT ![n] = v] /\ UNCHANGED <<bucket, lastRev>>
            BY <1>2
      <2> HIDE DEF m
      <2>2. v \in Schedulers
            BY <1>1, ZenonT(30) DEF Schedulers
      <2>3. /\ v.pos = m.pos /\ v.initial = m.initial /\ v.marker = m.marker
            /\ v.chan = m.chan /\ v.tasks = m.tasks /\ v.cron = m.cron
            BY <1>1 DEF Schedulers
      <2>4. /\ (v.closed <=> m.closed) /\ (v.cancelled <=> m.cancelled) /\ (v.ready <=> m.ready)
            /\ v.run = m.run /\ v.watcher = m.watcher
            BY <1>1 DEF Schedulers
      <2> HIDE DEF v
      <2>5. Ready(v) <=> Ready(m)
            BY <2>4 DEF Ready
      <2>6. QED
            BY <1>1, <2>1, <2>2, <2>3, <2>4, <2>5, QuietStep, ZenonT(30) DEF m
<1>3. m.due \subseteq CronEntries /\ m.jobs \subseteq CronEntries
      BY <1>1, SMTT(30) DEF Schedulers
<1>4. CASE e \in m.due /\ RunJob(n, e)
      <2> DEFINE due == m.due \ {e}
                 creates == m.tasks[e[2]].rev > 0 /\ n \in leaders
                 jobs == IF creates THEN m.jobs \cup {e} ELSE m.jobs
      <2>1. /\ sched' = [sched EXCEPT ![n] = [m EXCEPT !.due = due, !.jobs = jobs]]
            /\ UNCHANGED <<bucket, lastRev>>
            BY <1>4 DEF RunJob, Become, Local
      <2>2. due \in SUBSET CronEntries /\ jobs \in SUBSET CronEntries
            BY <1>3, <1>4, SMTT(30)
      <2> HIDE DEF due, jobs
      <2>3. QED
            BY <1>2, <2>1, <2>2, ZenonT(30)
<1>5. CASE e \in m.jobs /\ EnqueueJob(n, e)
      <2> DEFINE jobs == m.jobs \ {e}
                 due == m.due
      <2>1. sched' = [sched EXCEPT ![n] = [m EXCEPT !.jobs = jobs]] /\ UNCHANGED <<bucket, lastRev>>
            BY <1>5 DEF EnqueueJob, Become
      <2>2. jobs \in SUBSET CronEntries /\ due \in SUBSET CronEntries
            BY <1>3
      <2> HIDE DEF jobs
      <2>3. [m EXCEPT !.jobs = jobs] = [m EXCEPT !.due = due, !.jobs = jobs]
            BY <1>1, ZenonT(30) DEF Schedulers
      <2>4. QED
            BY <1>2, <2>1, <2>2, <2>3, ZenonT(30)
<1>6. QED
      BY <1>4, <1>5

\* The schedules come due on every member.
LEMMA ComeDueStep ==
  ASSUME SchedulerInv, ComeDue
  PROVE  SchedulerInv'
<1>1. /\ UNCHANGED <<bucket, lastRev>>
      /\ sched' = [n \in Scheduler |-> IF CronRuns(n) THEN [sched[n] EXCEPT !.due = sched[n].cron]
                                       ELSE sched[n]]
      BY DEF ComeDue
<1>2. ASSUME NEW n \in Scheduler
      PROVE  /\ sched'[n] \in Schedulers /\ MemberOK(sched'[n], bucket)
             /\ sched'[n].pos <= lastRev /\ sched'[n].initial <= lastRev
      <2> DEFINE m == sched[n]
                 v == [m EXCEPT !.due = m.cron]
      <2>1. /\ m \in Schedulers /\ MemberOK(m, bucket) /\ bucket \in Buckets
            /\ m.pos <= lastRev /\ m.initial <= lastRev
            BY MemberType
      <2>2. CASE ~CronRuns(n)
            BY <1>1, <2>1, <2>2
      <2>3. CASE CronRuns(n)
            <3>1. sched'[n] = v /\ m.run = "running"
                  BY <1>1, <2>3 DEF CronRuns
            <3> HIDE DEF m
            <3>2. v \in Schedulers
                  BY <2>1 DEF Schedulers
            <3>3. /\ v.pos = m.pos /\ v.initial = m.initial /\ v.marker = m.marker
                  /\ v.chan = m.chan /\ v.tasks = m.tasks /\ v.cron = m.cron
                  BY <2>1 DEF Schedulers
            <3>4. /\ (v.closed <=> m.closed) /\ (v.cancelled <=> m.cancelled)
                  /\ (v.ready <=> m.ready) /\ v.run = m.run /\ v.watcher = m.watcher
                  BY <2>1 DEF Schedulers
            <3> HIDE DEF v
            <3>5. Ordered(v, bucket) /\ Followed(v, bucket) /\ Marked(v, bucket)
                  /\ (Passed(v) <=> Passed(m))
                  BY <2>1, <3>2, <3>3, WatchStays, ZenonT(30)
            <3>6. MemberOK(v, bucket)
                  BY <2>1, <3>1, <3>4, <3>5 DEF MemberOK, Waited
            <3>7. QED
                  BY <2>1, <3>1, <3>2, <3>3, <3>6
      <2>4. QED
            BY <2>2, <2>3
<1>3. sched' \in [Scheduler -> Schedulers]
      BY <1>1, <1>2
<1>4. /\ bucket' \in Buckets /\ lastRev' \in Nat /\ bucket' = bucket /\ lastRev' = lastRev
      /\ \A s \in Schedule : bucket[s].rev <= lastRev /\ (bucket[s].rev = 0 => bucket[s].deleted)
      /\ \A s, u \in Schedule : bucket[s].rev = bucket[u].rev /\ bucket[s].rev # 0 => s = u
      BY <1>1 DEF SchedulerInv
<1>5. QED
      BY <1>2, <1>3, <1>4, InvariantHolds

\* A step of the watch of a member.
LEMMA WatchStep ==
  ASSUME SchedulerInv, NEW n \in Scheduler, NEW v \in Schedulers, sched' = [sched EXCEPT ![n] = v],
         UNCHANGED <<bucket, lastRev>>, v.pos <= lastRev, v.initial = sched[n].initial,
         Ordered(v, bucket), Followed(v, bucket), Marked(v, bucket), v.run # "new",
         Passed(sched[n]) => Passed(v), v.cancelled <=> sched[n].cancelled,
         v.closed <=> sched[n].closed, v.ready <=> sched[n].ready, v.run = sched[n].run,
         v.watcher = sched[n].watcher \/ (v.watcher = "continue" /\ (Passed(v) \/ v.cancelled))
  PROVE  SchedulerInv'
<1>1. MemberOK(sched[n], bucket) /\ v.initial <= lastRev
      BY MemberType
<1>2. Waited(v)
      BY <1>1 DEF Waited, MemberOK
<1>3. MemberOK(v, bucket)
      BY <1>2 DEF MemberOK
<1>4. QED
      BY <1>1, <1>3, MemberMoves, ZenonT(30)

\* ScheduledTasksWatch passes on a revision or the marker.
LEMMA ForwardUpdateStep ==
  ASSUME SchedulerInv, NEW n \in Scheduler, ForwardUpdate(n)
  PROVE  SchedulerInv'
<1> DEFINE m == sched[n]
<1>1. /\ m \in Schedulers /\ m.run # "new" /\ MemberOK(m, bucket) /\ bucket \in Buckets
      /\ m.pos <= lastRev /\ UNCHANGED <<bucket, lastRev>> /\ m.chan \in Channels
      /\ m.pos \in Nat /\ m.initial \in Nat
      BY MemberType, ZenonT(30) DEF ForwardUpdate, Local, Schedulers
<1>2. CASE /\ InitialDone(n) /\ ~m.marker
           /\ Become(n, [m EXCEPT !.chan = Append(m.chan, Nil), !.marker = TRUE])
      <2> DEFINE chan == Append(m.chan, Nil)
                 v == [m EXCEPT !.chan = chan, !.marker = TRUE]
      <2>1. sched' = [sched EXCEPT ![n] = v]
            BY <1>2 DEF Become
      <2>2. chan \in Channels /\ chan = Append(m.chan, Nil)
            BY <1>1 DEF Channels, Messages
      <2>3. \A s \in Schedule : bucket[s].rev <= m.initial => bucket[s].rev <= m.pos
            BY <1>1, <1>2 DEF InitialDone, Pending, Buckets
      <2>4. ~m.marker
            BY <1>2
      <2> HIDE DEF m, chan
      <2>5. v \in Schedulers
            BY <1>1, <2>2, ZenonT(30) DEF Schedulers
      <2>6. /\ v.pos = m.pos /\ v.initial = m.initial /\ v.marker
            /\ v.chan = chan /\ v.tasks = m.tasks /\ v.cron = m.cron
            BY <1>1 DEF Schedulers
      <2>7. /\ (v.closed <=> m.closed) /\ (v.cancelled <=> m.cancelled) /\ (v.ready <=> m.ready)
            /\ v.run = m.run /\ v.watcher = m.watcher
            BY <1>1, ZenonT(30) DEF Schedulers
      <2> HIDE DEF v
      <2>8. Ordered(v, bucket) /\ Followed(v, bucket) /\ Marked(v, bucket)
            BY <1>1, <2>2, <2>3, <2>4, <2>5, <2>6, ForwardMarker, ZenonT(30)
      <2>9. Passed(m) => Passed(v)
            BY <2>4 DEF Passed
      <2>10. QED
            BY <1>1, <2>1, <2>5, <2>6, <2>7, <2>8, <2>9, WatchStep, ZenonT(30) DEF m
<1>3. ASSUME NEW s \in Pending(n), \A u \in Pending(n) : bucket[s].rev <= bucket[u].rev,
             Become(n, [m EXCEPT !.chan = Append(m.chan, Update(s)), !.pos = bucket[s].rev])
      PROVE  SchedulerInv'
      <2> DEFINE msg == Update(s)
                 chan == Append(m.chan, msg)
                 pos == bucket[s].rev
                 v == [m EXCEPT !.chan = chan, !.pos = pos]
      <2>1. sched' = [sched EXCEPT ![n] = v]
            BY <1>3 DEF Become
      <2>2. /\ s \in Schedule /\ bucket[s].rev > m.pos
            /\ \A u \in Schedule : bucket[u].rev > m.pos => bucket[s].rev <= bucket[u].rev
            BY <1>3, ZenonT(30) DEF Pending
      <2>3. pos \in Nat /\ pos <= lastRev /\ pos = bucket[s].rev
            BY <1>1, <2>2, ZenonT(30) DEF Buckets, SchedulerInv
      <2>4. /\ msg \in Messages /\ msg # Nil /\ msg.name = s /\ msg.rev = bucket[s].rev
            /\ msg.kind = (IF bucket[s].deleted THEN "delete" ELSE "put")
            BY <1>1, <2>2, <2>3, ZenonT(30) DEF Update, Messages, Nil
      <2> HIDE DEF msg
      <2>5. chan \in Channels /\ chan = Append(m.chan, msg)
            BY <1>1, <2>4 DEF Channels
      <2> HIDE DEF m, chan, pos
      <2>6. v \in Schedulers
            BY <1>1, <2>3, <2>5, ZenonT(30) DEF Schedulers
      <2>7. /\ v.pos = pos /\ v.initial = m.initial /\ v.marker = m.marker
            /\ v.chan = chan /\ v.tasks = m.tasks /\ v.cron = m.cron
            BY <1>1 DEF Schedulers
      <2>8. /\ (v.closed <=> m.closed) /\ (v.cancelled <=> m.cancelled) /\ (v.ready <=> m.ready)
            /\ v.run = m.run /\ v.watcher = m.watcher
            BY <1>1 DEF Schedulers
      <2> HIDE DEF v
      <2>9. \A t, u \in Schedule : bucket[t].rev = bucket[u].rev /\ bucket[t].rev # 0 => t = u
            BY ZenonT(30) DEF SchedulerInv
      <2>10. /\ Ordered(v, bucket) /\ Followed(v, bucket) /\ Marked(v, bucket)
             /\ (Passed(m) => Passed(v))
            <3>1. v.chan = Append(m.chan, msg) /\ v.pos = bucket[s].rev
                  BY <2>3, <2>5, <2>7
            <3>2. m \in Schedulers /\ bucket \in Buckets /\ MemberOK(m, bucket)
                  BY <1>1
            <3>3. QED
                  BY <2>2, <2>4, <2>6, <2>7, <2>9, <3>1, <3>2, ForwardItem, ZenonT(30)
      <2>11. QED
            BY <1>1, <2>1, <2>3, <2>6, <2>7, <2>8, <2>10, WatchStep, ZenonT(30) DEF m
<1>4. QED
      BY <1>2, <1>3, ZenonT(30) DEF ForwardUpdate

\* The goroutine receives the marker, or nil from the closed channel.
LEMMA WatchNil ==
  ASSUME SchedulerInv, NEW n \in Scheduler, NEW chan, sched[n].watcher = "select",
         \/ sched[n].chan = <<>> /\ sched[n].closed /\ chan = <<>>
         \/ sched[n].chan # <<>> /\ Head(sched[n].chan) = Nil /\ chan = Tail(sched[n].chan),
         sched' = [sched EXCEPT ![n] = [sched[n] EXCEPT !.chan = chan, !.watcher = "continue"]],
         UNCHANGED <<bucket, lastRev>>
  PROVE  SchedulerInv'
<1> DEFINE m == sched[n]
           v == [m EXCEPT !.chan = chan, !.watcher = "continue"]
<1>1. /\ m \in Schedulers /\ m.run # "new" /\ MemberOK(m, bucket) /\ bucket \in Buckets
      /\ m.pos <= lastRev /\ m.chan \in Channels
      BY MemberType DEF Schedulers
<1>2. sched' = [sched EXCEPT ![n] = v]
      OBVIOUS
<1>3. /\ \/ m.chan = <<>> /\ m.closed /\ chan = m.chan
         \/ m.chan # <<>> /\ Head(m.chan) = Nil /\ chan = Tail(m.chan)
      /\ chan \in Channels
      <2>1. \/ m.chan = <<>> /\ m.closed /\ chan = m.chan
            \/ m.chan # <<>> /\ Head(m.chan) = Nil /\ chan = Tail(m.chan)
            OBVIOUS
      <2> HIDE DEF m
      <2>2. m.chan # <<>> => Tail(m.chan) \in Channels
            BY <1>1 DEF Channels
      <2>3. QED
            BY <1>1, <2>1, <2>2, ZenonT(30)
<1> HIDE DEF m
<1>4. v \in Schedulers
      BY <1>1, <1>3, Members, ZenonT(30) DEF Schedulers
<1>5. /\ v.pos = m.pos /\ v.initial = m.initial /\ v.marker = m.marker
      /\ v.chan = chan /\ v.tasks = m.tasks /\ v.cron = m.cron
      BY <1>1 DEF Schedulers
<1>6. /\ (v.closed <=> m.closed) /\ (v.cancelled <=> m.cancelled) /\ (v.ready <=> m.ready)
      /\ v.run = m.run /\ v.watcher = "continue"
      BY <1>1 DEF Schedulers
<1> HIDE DEF v
<1>7. /\ Ordered(v, bucket) /\ Followed(v, bucket) /\ Marked(v, bucket)
      /\ (Passed(m) => Passed(v)) /\ (Passed(v) \/ v.cancelled)
      <2>1. CASE m.chan = <<>> /\ m.closed /\ chan = m.chan
            <3>1. v.cancelled
                  BY <1>1, <1>6, <2>1 DEF MemberOK, Waited
            <3>2. QED
                  BY <1>1, <1>4, <1>5, <2>1, <3>1, WatchStays, ZenonT(30)
      <2>2. CASE m.chan # <<>> /\ Head(m.chan) = Nil /\ chan = Tail(m.chan)
            BY <1>1, <1>4, <1>5, <2>2, TakeMarker, ZenonT(30)
      <2>3. QED
            BY <1>3, <2>1, <2>2
<1>8. QED
      BY <1>1, <1>2, <1>4, <1>5, <1>6, <1>7, WatchStep, ZenonT(30) DEF m

\* It receives a schedule: the new cron entry is the one s.tasks knows.
LEMMA AddItem ==
  ASSUME NEW m \in Schedulers, NEW s \in Schedule, NEW rev \in Nat
  PROVE  LET v == addItem(m, s, rev)
         IN  /\ v \in Schedulers /\ v.pos = m.pos /\ v.initial = m.initial /\ v.marker = m.marker
             /\ v.chan = m.chan /\ (v.closed <=> m.closed) /\ (v.cancelled <=> m.cancelled)
             /\ (v.ready <=> m.ready) /\ v.run = m.run /\ v.watcher = m.watcher
             /\ v.tasks[s].rev = rev /\ <<v.tasks[s].cronID, s>> \in v.cron
             /\ m.cron \subseteq v.cron /\ v.cron \subseteq m.cron \cup {<<v.tasks[s].cronID, s>>}
             /\ \A u \in Schedule : u # s => v.tasks[u] = m.tasks[u]
<1> DEFINE id == m.lastID + 1
           cron == m.cron \cup {<<id, s>>}
           tasks == [m.tasks EXCEPT ![s] = [rev |-> rev, cronID |-> id]]
           v == [m EXCEPT !.lastID = id, !.cron = cron, !.tasks = tasks]
<1>1. id \in Nat /\ m.tasks \in Items /\ m.cron \subseteq CronEntries
      BY DEF Schedulers
<1>2. addItem(m, s, rev) = v
      BY DEF addItem
<1> HIDE DEF id
<1>3. /\ cron \in SUBSET CronEntries /\ m.cron \subseteq cron /\ <<id, s>> \in cron
      /\ cron \subseteq m.cron \cup {<<id, s>>}
      BY <1>1 DEF CronEntries
<1>4. /\ tasks \in Items /\ tasks[s].rev = rev /\ tasks[s].cronID = id
      /\ \A u \in Schedule : u # s => tasks[u] = m.tasks[u]
      BY <1>1 DEF Items
<1> HIDE DEF cron, tasks
<1>5. v \in Schedulers
      BY <1>1, <1>3, <1>4, ZenonT(30) DEF Schedulers
<1>6. /\ v.pos = m.pos /\ v.initial = m.initial /\ v.marker = m.marker
      /\ v.chan = m.chan /\ (v.closed <=> m.closed) /\ (v.cancelled <=> m.cancelled)
      /\ (v.ready <=> m.ready) /\ v.run = m.run /\ v.watcher = m.watcher
      /\ v.tasks = tasks /\ v.cron = cron
      BY ZenonT(30) DEF Schedulers
<1> HIDE DEF v
<1>7. QED
      BY <1>2, <1>3, <1>4, <1>5, <1>6, ZenonT(30)

\* It receives a removal: the cron entries of other schedules stay.
LEMMA DeleteItem ==
  ASSUME NEW m \in Schedulers, NEW s \in Schedule
  PROVE  LET v == deleteItem(m, s)
         IN  /\ v \in Schedulers /\ v.pos = m.pos /\ v.initial = m.initial /\ v.marker = m.marker
             /\ v.chan = m.chan /\ (v.closed <=> m.closed) /\ (v.cancelled <=> m.cancelled)
             /\ (v.ready <=> m.ready) /\ v.run = m.run /\ v.watcher = m.watcher
             /\ v.tasks = m.tasks /\ v.cron = {e \in m.cron : e # <<m.tasks[s].cronID, s>>}
             /\ \A u \in Schedule : u # s /\ <<m.tasks[u].cronID, u>> \in m.cron =>
                  <<m.tasks[u].cronID, u>> \in v.cron
<1> DEFINE gone == <<m.tasks[s].cronID, s>>
           cron == {e \in m.cron : e # gone}
           v == [m EXCEPT !.cron = cron]
<1>1. deleteItem(m, s) = v
      BY DEF deleteItem
<1>2. /\ cron \in SUBSET CronEntries
      /\ \A u \in Schedule : u # s /\ <<m.tasks[u].cronID, u>> \in m.cron =>
           <<m.tasks[u].cronID, u>> \in cron
      BY DEF Schedulers
<1> HIDE DEF cron
<1>3. v \in Schedulers
      BY <1>2 DEF Schedulers
<1>4. /\ v.pos = m.pos /\ v.initial = m.initial /\ v.marker = m.marker
      /\ v.chan = m.chan /\ (v.closed <=> m.closed) /\ (v.cancelled <=> m.cancelled)
      /\ (v.ready <=> m.ready) /\ v.run = m.run /\ v.watcher = m.watcher
      /\ v.tasks = m.tasks /\ v.cron = cron
      BY DEF Schedulers
<1> HIDE DEF v
<1>5. QED
      BY <1>1, <1>2, <1>3, <1>4 DEF cron, gone

\* The goroutine receives from the channel.
LEMMA WatchItemStep ==
  ASSUME SchedulerInv, NEW n \in Scheduler, WatchItem(n)
  PROVE  SchedulerInv'
<1> DEFINE m == sched[n]
           chan == IF m.chan = <<>> THEN <<>> ELSE Tail(m.chan)
           rest == [m EXCEPT !.chan = chan]
           item == IF m.chan = <<>> THEN Nil ELSE Head(m.chan)
<1>1. /\ m \in Schedulers /\ m.run # "new" /\ MemberOK(m, bucket) /\ bucket \in Buckets
      /\ m.pos <= lastRev /\ m.chan \in Channels /\ m.watcher = "select"
      /\ m.chan # <<>> \/ m.closed
      BY MemberType DEF WatchItem, Schedulers
<1>2. /\ UNCHANGED <<bucket, lastRev>>
      /\ sched' = [sched EXCEPT ![n] =
                      CASE item.kind = "nil" -> [rest EXCEPT !.watcher = "continue"]
                        [] item.kind = "delete" -> deleteItem(rest, item.name)
                        [] item.kind = "put" -> addItem(rest, item.name, item.rev)]
      BY ZenonT(30) DEF WatchItem, Become, Local
<1>3. item \in Messages
      BY <1>1 DEF Channels, Messages
<1>4. Nil.kind = "nil"
      BY SMTT(30) DEF Nil
<1>5. CASE item = Nil
      <2>1. sched' = [sched EXCEPT ![n] = [rest EXCEPT !.watcher = "continue"]]
            BY <1>2, <1>4, <1>5, ZenonT(30)
      <2>2. \/ m.chan = <<>> /\ m.closed /\ chan = <<>>
            \/ m.chan # <<>> /\ Head(m.chan) = Nil /\ chan = Tail(m.chan)
            BY <1>1, <1>5
      <2> HIDE DEF chan, item
      <2>3. [rest EXCEPT !.watcher = "continue"] = [m EXCEPT !.chan = chan, !.watcher = "continue"]
            OBVIOUS
      <2>4. QED
            BY <1>1, <1>2, <2>1, <2>2, <2>3, WatchNil, ZenonT(30)
<1>6. CASE item # Nil
      <2>1. /\ m.chan # <<>> /\ item = Head(m.chan) /\ chan = Tail(m.chan)
            /\ item.kind \in {"put", "delete"} /\ item.name \in Schedule /\ item.rev \in Nat
            BY <1>3, <1>6, ZenonT(30) DEF Messages
      <2>2. chan \in Channels
            BY <1>1, <2>1 DEF Channels
      <2> HIDE DEF item, chan, m
      <2>3. rest \in Schedulers
            BY <1>1, <2>2 DEF Schedulers
      <2>4. /\ rest.pos = m.pos /\ rest.initial = m.initial /\ rest.marker = m.marker
            /\ rest.chan = chan /\ rest.tasks = m.tasks /\ rest.cron = m.cron
            BY <1>1 DEF Schedulers
      <2>5. /\ (rest.closed <=> m.closed) /\ (rest.cancelled <=> m.cancelled)
            /\ (rest.ready <=> m.ready) /\ rest.run = m.run /\ rest.watcher = m.watcher
            BY <1>1 DEF Schedulers
      <2> HIDE DEF rest
      <2>6. CASE item.kind = "put"
            <3> DEFINE v == addItem(rest, item.name, item.rev)
            <3>1. sched' = [sched EXCEPT ![n] = v]
                  BY <1>2, <2>6
            <3>2. /\ v \in Schedulers /\ v.pos = m.pos /\ v.initial = m.initial
                  /\ v.marker = m.marker /\ v.chan = chan /\ (v.closed <=> m.closed)
                  /\ (v.cancelled <=> m.cancelled) /\ (v.ready <=> m.ready) /\ v.run = m.run
                  /\ v.watcher = m.watcher
                  BY <2>1, <2>3, <2>4, <2>5, AddItem, ZenonT(30)
            <3>3. /\ v.tasks[item.name].rev = item.rev
                  /\ <<v.tasks[item.name].cronID, item.name>> \in v.cron
                  /\ m.cron \subseteq v.cron
                  /\ \A u \in Schedule : u # item.name => v.tasks[u] = m.tasks[u]
                  <4> DEFINE s == item.name
                             rev == item.rev
                  <4>1. s \in Schedule /\ rev \in Nat
                        BY <2>1
                  <4> HIDE DEF s, rev
                  <4>2. LET w == addItem(rest, s, rev)
                        IN  /\ w.tasks[s].rev = rev /\ <<w.tasks[s].cronID, s>> \in w.cron
                            /\ rest.cron \subseteq w.cron
                            /\ \A u \in Schedule : u # s => w.tasks[u] = rest.tasks[u]
                        BY <2>3, <4>1, AddItem, SMTT(30)
                  <4>3. QED
                        BY <2>4, <4>2 DEF s, rev
            <3> HIDE DEF v
            <3>4. OthersStay(m, v, item)
                  BY <3>3, ZenonT(30) DEF OthersStay
            <3>5. /\ Ordered(v, bucket) /\ Followed(v, bucket) /\ Marked(v, bucket)
                  /\ (Passed(m) => Passed(v))
                  <4>1. v.chan = Tail(m.chan) /\ item \in Messages
                        BY <1>3, <2>1, <3>2, ZenonT(30)
                  <4>2. QED
                        BY <1>1, <1>6, <2>1, <2>6, <3>2, <3>3, <3>4, <4>1, TakeItem, ZenonT(30)
            <3>6. QED
                  BY <1>1, <1>2, <3>1, <3>2, <3>5, WatchStep, ZenonT(30) DEF m
      <2>7. CASE item.kind = "delete"
            <3> DEFINE v == deleteItem(rest, item.name)
            <3>1. sched' = [sched EXCEPT ![n] = v]
                  BY <1>2, <2>7, ZenonT(30)
            <3>2. /\ v \in Schedulers /\ v.pos = m.pos /\ v.initial = m.initial
                  /\ v.marker = m.marker /\ v.chan = chan /\ (v.closed <=> m.closed)
                  /\ (v.cancelled <=> m.cancelled) /\ (v.ready <=> m.ready) /\ v.run = m.run
                  /\ v.watcher = m.watcher
                  BY <2>1, <2>3, <2>4, <2>5, DeleteItem, ZenonT(30)
            <3>3. /\ v.tasks = m.tasks
                  /\ \A u \in Schedule : u # item.name /\ <<m.tasks[u].cronID, u>> \in m.cron =>
                       <<m.tasks[u].cronID, u>> \in v.cron
                  BY <2>1, <2>3, <2>4, DeleteItem, ZenonT(30)
            <3> HIDE DEF v
            <3>4. /\ Ordered(v, bucket) /\ Followed(v, bucket) /\ Marked(v, bucket)
                  /\ (Passed(m) => Passed(v))
                  <4>1. v.chan = Tail(m.chan) /\ item \in Messages
                        BY <1>3, <2>1, <3>2
                  <4>2. OthersStay(m, v, item) /\ v.tasks[item.name] = m.tasks[item.name]
                        BY <3>3, ZenonT(30) DEF OthersStay
                  <4>3. QED
                        BY <1>1, <1>6, <2>1, <2>7, <3>2, <4>1, <4>2, TakeItem, ZenonT(30)
            <3>5. QED
                  BY <1>1, <1>2, <3>1, <3>2, <3>4, WatchStep, ZenonT(30) DEF m
      <2>8. QED
            BY <2>1, <2>6, <2>7, ZenonT(30)
<1>7. QED
      BY <1>5, <1>6, ZenonT(30)

\* A scheduler that has not been started has nothing to follow yet.
LEMMA NewMembers ==
  ASSUME NEW b \in Buckets, NEW v \in Schedulers, NEW initial \in Nat,
         v.pos = 0, v.initial = initial, ~v.marker, v.chan = <<>>, ~v.closed, ~v.ready,
         v.tasks = [s \in Schedule |-> [rev |-> 0, cronID |-> 0]], v.run \in {"new", "loading"},
         v.watcher \in {"none", "select"}, v.run = "new" => v = NewScheduler,
         \A s \in Schedule : b[s].rev = 0 => b[s].deleted
  PROVE  MemberOK(v, b)
<1>1. 1..Len(v.chan) = {}
      OBVIOUS
<1>2. \A s \in Schedule : b[s].rev \in Nat /\ v.tasks[s].rev = 0
      BY DEF Buckets
<1>3. Ordered(v, b) /\ Marked(v, b)
      BY <1>1, <1>2 DEF Ordered, Marked
<1>4. Followed(v, b)
      BY <1>2 DEF Followed
<1>5. Waited(v)
      BY ZenonT(30) DEF Waited
<1>6. QED
      BY <1>3, <1>4, <1>5, ZenonT(30) DEF MemberOK

LEMMA NewSchedulerType ==
  /\ NewScheduler \in Schedulers
  /\ NewScheduler.pos = 0 /\ NewScheduler.initial = 0 /\ ~NewScheduler.marker
  /\ NewScheduler.chan = <<>> /\ ~NewScheduler.closed /\ ~NewScheduler.ready
  /\ NewScheduler.tasks = [s \in Schedule |-> [rev |-> 0, cronID |-> 0]]
  /\ NewScheduler.run = "new" /\ NewScheduler.watcher = "none"
<1> DEFINE tasks == [s \in Schedule |-> [rev |-> 0, cronID |-> 0]]
<1>1. tasks \in Items /\ <<>> \in Channels /\ {} \in SUBSET CronEntries /\ 0 \in Nat
      BY SMTT(30) DEF Items, Channels
<1>2. NewScheduler =
        [run |-> "new", watcher |-> "none", pos |-> 0, initial |-> 0, marker |-> FALSE,
         chan |-> <<>>, closed |-> FALSE, ready |-> FALSE, tasks |-> tasks, cron |-> {},
         lastID |-> 0, due |-> {}, jobs |-> {}, stopped |-> FALSE, cancelled |-> FALSE]
      BY ZenonT(30) DEF NewScheduler
<1> HIDE DEF tasks
<1>3. NewScheduler \in Schedulers
      BY <1>1, <1>2, Members DEF Schedulers
<1>4. QED
      BY <1>2, <1>3 DEF tasks

\* The process ends; it would start from nothing.
LEMMA CrashStep ==
  ASSUME SchedulerInv, NEW n \in Scheduler, Crash(n)
  PROVE  SchedulerInv'
<1>1. sched' = [sched EXCEPT ![n] = NewScheduler] /\ UNCHANGED <<bucket, lastRev>>
      BY SMTT(30) DEF Crash, Ends, Become
<1>2. bucket \in Buckets /\ lastRev \in Nat /\ \A s \in Schedule : bucket[s].rev = 0 => bucket[s].deleted
      BY DEF SchedulerInv
<1>3. MemberOK(NewScheduler, bucket)
      BY <1>2, NewSchedulerType, NewMembers
<1> DEFINE v == NewScheduler
<1>4. v \in Schedulers /\ v.pos <= lastRev /\ v.initial <= lastRev
      BY <1>2, NewSchedulerType
<1>5. sched' = [sched EXCEPT ![n] = v] /\ MemberOK(v, bucket)
      BY <1>1, <1>3
<1> HIDE DEF v
<1>6. QED
      BY <1>1, <1>4, <1>5, MemberMoves, ZenonT(30)

\* Run starts the watch: what the bucket has by then are initial values.
LEMMA RunStep ==
  ASSUME SchedulerInv, NEW n \in Scheduler, Run(n)
  PROVE  SchedulerInv'
<1> DEFINE m == sched[n]
           v == [m EXCEPT !.run = "loading", !.watcher = "select", !.initial = lastRev]
<1>1. sched' = [sched EXCEPT ![n] = v] /\ UNCHANGED <<bucket, lastRev>>
      BY DEF Run, Become, Local
<1>2. /\ bucket \in Buckets /\ lastRev \in Nat
      /\ \A s \in Schedule : bucket[s].rev = 0 => bucket[s].deleted
      BY DEF SchedulerInv
<1>3. m = NewScheduler /\ m \in Schedulers
      BY MemberType DEF Run, MemberOK
<1> HIDE DEF m
<1>4. v \in Schedulers
      BY <1>2, <1>3, Members, ZenonT(30) DEF Schedulers
<1>5. /\ v.pos = m.pos /\ v.initial = lastRev /\ (v.marker <=> m.marker) /\ v.chan = m.chan
      /\ (v.closed <=> m.closed) /\ (v.ready <=> m.ready) /\ v.tasks = m.tasks
      /\ v.run = "loading" /\ v.watcher = "select"
      BY <1>3 DEF Schedulers
<1> HIDE DEF v
<1>6. /\ v.pos = 0 /\ ~v.marker /\ v.chan = <<>> /\ ~v.closed /\ ~v.ready
      /\ v.tasks = [s \in Schedule |-> [rev |-> 0, cronID |-> 0]]
      BY <1>3, <1>5, NewSchedulerType, ZenonT(30)
<1>7. MemberOK(v, bucket)
      BY <1>2, <1>4, <1>5, <1>6, NewMembers, ZenonT(30)
<1>8. v.pos <= lastRev /\ v.initial <= lastRev
      BY <1>2, <1>5, <1>6
<1>9. QED
      BY <1>1, <1>4, <1>7, <1>8, MemberMoves, ZenonT(30)

\* A client writes: the revision is newer than all a member was given.
LEMMA WriteStep ==
  ASSUME SchedulerInv, NEW s \in Schedule, NEW deleted \in BOOLEAN, Write(s, deleted)
  PROVE  SchedulerInv'
<1> DEFINE r == lastRev + 1
           b == [bucket EXCEPT ![s] = [rev |-> r, deleted |-> deleted]]
<1>1. /\ lastRev' = r /\ bucket' = b /\ sched' = sched
      BY DEF Write
<1>2. /\ lastRev \in Nat /\ bucket \in Buckets /\ r \in Nat /\ r > lastRev
      /\ \A u \in Schedule : /\ bucket[u].rev \in Nat /\ bucket[u].rev <= lastRev
                             /\ (bucket[u].rev = 0 => bucket[u].deleted)
      /\ \A t, u \in Schedule : bucket[t].rev = bucket[u].rev /\ bucket[t].rev # 0 => t = u
      BY DEF SchedulerInv, Buckets
<1> HIDE DEF r
<1>3. /\ b \in Buckets /\ b[s].rev = r /\ \A u \in Schedule : u # s => b[u] = bucket[u]
      BY <1>2 DEF Buckets
<1> HIDE DEF b
<1>4. \A u \in Schedule : b[u].rev <= r /\ (b[u].rev = 0 => b[u].deleted)
      BY <1>2, <1>3
<1>5. \A t, u \in Schedule : b[t].rev = b[u].rev /\ b[t].rev # 0 => t = u
      BY <1>2, <1>3, SMTT(30)
<1>6. ASSUME NEW n \in Scheduler
      PROVE  /\ sched[n].pos <= r /\ sched[n].initial <= r /\ MemberOK(sched[n], b)
      <2> DEFINE m == sched[n]
      <2>1. /\ m \in Schedulers /\ MemberOK(m, bucket) /\ m.pos <= lastRev /\ m.initial <= lastRev
            /\ m.pos \in Nat /\ m.initial \in Nat
            BY MemberType DEF Schedulers
      <2> HIDE DEF m
      <2>2. \A i \in 1..Len(m.chan) : About(m, i) =>
              m.chan[i].rev \in Nat /\ m.chan[i].name \in Schedule
            <3> SUFFICES ASSUME NEW i \in 1..Len(m.chan), About(m, i)
                         PROVE  m.chan[i].rev \in Nat /\ m.chan[i].name \in Schedule
                OBVIOUS
            <3>1. m.chan[i] \in Messages /\ m.chan[i] # Nil
                  BY <2>1, SMTT(30) DEF Schedulers, Channels, About
            <3>2. QED
                  BY <3>1 DEF Messages
      <2>3. Ordered(m, b)
            <3>1. ASSUME NEW i \in 1..Len(m.chan), About(m, i)
                  PROVE  /\ m.chan[i].rev <= m.pos /\ m.chan[i].rev <= b[m.chan[i].name].rev
                         /\ m.tasks[m.chan[i].name].rev < m.chan[i].rev
                         /\ m.chan[i].rev = b[m.chan[i].name].rev =>
                              m.chan[i].kind = (IF b[m.chan[i].name].deleted THEN "delete" ELSE "put")
                  <4>1. /\ m.chan[i].rev <= m.pos /\ m.chan[i].rev <= bucket[m.chan[i].name].rev
                        /\ m.tasks[m.chan[i].name].rev < m.chan[i].rev
                        /\ m.chan[i].rev = bucket[m.chan[i].name].rev =>
                             m.chan[i].kind
                               = (IF bucket[m.chan[i].name].deleted THEN "delete" ELSE "put")
                        BY <2>1, <3>1, ZenonT(30) DEF MemberOK, Ordered
                  <4>2. m.chan[i].rev \in Nat /\ m.chan[i].name \in Schedule
                        BY <2>2, <3>1, ZenonT(30)
                  <4>3. CASE m.chan[i].name = s
                        BY <1>2, <1>3, <2>1, <4>1, <4>2, <4>3, SMTT(30)
                  <4>4. CASE m.chan[i].name # s
                        BY <1>3, <4>1, <4>2, <4>4, ZenonT(30)
                  <4>5. QED
                        BY <4>3, <4>4, ZenonT(30)
            <3>2. ASSUME NEW u \in Schedule PROVE m.tasks[u].rev <= m.pos /\ m.tasks[u].rev <= b[u].rev
                  <4>1. m.tasks[u].rev <= m.pos /\ m.tasks[u].rev <= bucket[u].rev /\ m.tasks[u].rev \in Nat
                        BY <2>1, ZenonT(30) DEF MemberOK, Ordered, Schedulers, Items
                  <4>2. QED
                        BY <1>2, <1>3, <2>1, <4>1, SMTT(30)
            <3>3. \A i, j \in 1..Len(m.chan) :
                    i < j /\ About(m, i) /\ About(m, j) => m.chan[i].rev < m.chan[j].rev
                  BY <2>1, ZenonT(30) DEF MemberOK, Ordered
            <3>4. QED
                  BY <3>1, <3>2, <3>3, ZenonT(30) DEF Ordered
      <2>4. Followed(m, b)
            <3> SUFFICES ASSUME NEW u \in Schedule, ~b[u].deleted
                         PROVE  b[u].rev > m.pos \/ InChannel(m, u, b[u].rev) \/ Applied(m, u, b[u].rev)
                BY ZenonT(30) DEF Followed
            <3>1. CASE u = s
                  BY <1>2, <1>3, <2>1, <3>1, SMTT(30)
            <3>2. CASE u # s
                  BY <1>3, <2>1, <3>2, ZenonT(30) DEF MemberOK, Followed
            <3>3. QED
                  BY <3>1, <3>2, ZenonT(30)
      <2>5. Marked(m, b)
            <3>1. m.marker => \A u \in Schedule : b[u].rev <= m.initial => b[u].rev <= m.pos
                  BY <1>2, <1>3, <2>1 DEF MemberOK, Marked
            <3>2. QED
                  BY <2>1, <3>1, ZenonT(30) DEF MemberOK, Marked
      <2>6. MemberOK(m, b)
            BY <2>1, <2>3, <2>4, <2>5, ZenonT(30) DEF MemberOK
      <2>7. QED
            BY <1>2, <2>1, <2>6, SMTT(30) DEF m
<1>7. sched' \in [Scheduler -> Schedulers]
      BY <1>1 DEF SchedulerInv
<1>8. QED
      BY <1>1, <1>2, <1>3, <1>4, <1>5, <1>6, <1>7, InvariantHolds, ZenonT(30)

LEMMA SchedulerInitially == Init => SchedulerInv
<1> SUFFICES ASSUME Init PROVE SchedulerInv
    OBVIOUS
<1>1. bucket \in Buckets /\ lastRev = 0 /\ \A s \in Schedule : bucket[s].rev = 0 /\ bucket[s].deleted
      BY DEF Init, Buckets
<1>2. sched \in [Scheduler -> Schedulers] /\ \A n \in Scheduler : sched[n] = NewScheduler
      BY NewSchedulerType, ZenonT(30) DEF Init
<1>3. MemberOK(NewScheduler, bucket)
      BY <1>1, NewSchedulerType, NewMembers, ZenonT(30)
<1>4. \A n \in Scheduler : sched[n].pos <= lastRev /\ sched[n].initial <= lastRev
      BY <1>1, <1>2, NewSchedulerType, SMTT(30)
<1>5. QED
      BY <1>1, <1>2, <1>3, <1>4 DEF SchedulerInv

LEMMA SchedulerStep == SchedulerInv /\ [Next]_vars => SchedulerInv'
<1> SUFFICES ASSUME SchedulerInv, [Next]_vars PROVE SchedulerInv'
    OBVIOUS
<1>1. ASSUME NEW s \in Schedule, CreateSchedule(s) \/ UpdateSchedule(s) \/ DeleteSchedule(s)
      PROVE  SchedulerInv'
      BY <1>1, WriteStep, ZenonT(30) DEF CreateSchedule, UpdateSchedule, DeleteSchedule
<1>2. ASSUME NEW n \in Scheduler, Run(n) \/ Step(n) \/ Stop(n) \/ Cancel(n) \/ Crash(n)
      PROVE  SchedulerInv'
      BY <1>2, RunStep, ForwardUpdateStep, CloseWatchStep, WatchItemStep, WatchDoneStep,
         SendReadyStep, LoadedStep, RunReturnsStep, StopStep, CancelStep, CrashStep, ZenonT(30) DEF Step
<1>3. ASSUME NEW n \in Scheduler,
             (\E e \in sched[n].due : RunJob(n, e)) \/ (\E e \in sched[n].jobs : EnqueueJob(n, e))
      PROVE  SchedulerInv'
      BY <1>3, JobStep, ZenonT(30)
<1>4. ASSUME UNCHANGED <<bucket, lastRev, sched>> PROVE SchedulerInv'
      <2>1. \A n \in Scheduler : /\ sched[n].pos <= lastRev /\ sched[n].initial <= lastRev
                                 /\ MemberOK(sched[n], bucket)
            BY ZenonT(30) DEF SchedulerInv
      <2>2. /\ bucket \in Buckets /\ lastRev \in Nat /\ sched \in [Scheduler -> Schedulers]
            /\ \A s \in Schedule : bucket[s].rev <= lastRev /\ (bucket[s].rev = 0 => bucket[s].deleted)
            /\ \A s, u \in Schedule : bucket[s].rev = bucket[u].rev /\ bucket[s].rev # 0 => s = u
            BY DEF SchedulerInv
      <2>3. QED
            BY <1>4, <2>1, <2>2, InvariantHolds, ZenonT(30)
<1>5. ASSUME NEW n \in Scheduler, OnWon(n) \/ OnLost(n) \/ OnLostShutdown(n) PROVE SchedulerInv'
      <2>1. UNCHANGED <<bucket, lastRev, sched>>
            BY <1>5 DEF OnWon, OnLost, OnLostShutdown, Remote
      <2>2. QED
            BY <1>4, <2>1, ZenonT(30)
<1>6. CASE UNCHANGED vars
      <2>1. UNCHANGED <<bucket, lastRev, sched>>
            BY <1>6 DEF vars
      <2>2. QED
            BY <1>4, <2>1
<1>7. QED
      BY <1>1, <1>2, <1>3, <1>5, <1>6, ComeDueStep, ZenonT(30) DEF Next

LEMMA SchedulerInvariant == Spec => []SchedulerInv
BY SchedulerInitially, SchedulerStep, PTL DEF Spec

\* prepareAndWatch loses no change: a scheduler that has seen all of them has a
\* cron entry for every schedule and the last revision of it, for any number of
\* schedules, changes, members and restarts.
THEOREM SchedulersFollow == Spec => []FollowsBucket
<1>1. ASSUME SchedulerInv PROVE FollowsBucket
      <2> SUFFICES ASSUME NEW n \in Scheduler, CaughtUp(n), NEW s \in Schedule, ~bucket[s].deleted
                   PROVE  Entries(n, s) # {} /\ sched[n].tasks[s].rev = bucket[s].rev
          BY ZenonT(30) DEF FollowsBucket
      <2> DEFINE m == sched[n]
      <2>1. /\ m \in Schedulers /\ bucket \in Buckets /\ Followed(m, bucket)
            BY <1>1, MemberType, ZenonT(30) DEF MemberOK
      <2>2. m.chan = <<>> /\ ~(bucket[s].rev > m.pos)
            BY ZenonT(30) DEF CaughtUp, Pending
      <2>3. Applied(m, s, bucket[s].rev)
            BY <2>1, <2>2 DEF Followed, InChannel
      <2>4. <<m.tasks[s].cronID, s>> \in Entries(n, s)
            BY <2>3 DEF Applied, Entries
      <2>5. QED
            BY <2>3, <2>4, ZenonT(30) DEF Applied
<1>2. QED
      BY <1>1, SchedulerInvariant, PTL

\* prepareAndWatch waits for the initial values: Run starts cron only when every
\* schedule there was has its entry.
THEOREM SchedulersLoadFirst == Spec => []LoadedBeforeCron
<1>1. ASSUME SchedulerInv PROVE LoadedBeforeCron
      <2> SUFFICES ASSUME NEW n \in Scheduler, sched[n].run = "running", ~sched[n].cancelled,
                          NEW s \in Schedule, bucket[s].rev <= sched[n].initial, ~bucket[s].deleted
                   PROVE  Entries(n, s) # {}
          BY DEF LoadedBeforeCron
      <2> DEFINE m == sched[n]
      <2>1. /\ m \in Schedulers /\ bucket \in Buckets /\ MemberOK(m, bucket)
            BY <1>1, MemberType, ZenonT(30)
      <2>2. Passed(m)
            BY <2>1 DEF MemberOK, Waited
      <2>3. bucket[s].rev \in Nat /\ m.pos \in Nat /\ m.initial \in Nat
            BY <2>1, ZenonT(30) DEF Schedulers, Buckets
      <2>4. bucket[s].rev <= m.pos
            BY <2>1, <2>2, ZenonT(30) DEF MemberOK, Marked, Passed
      <2>5. ~InChannel(m, s, bucket[s].rev)
            BY <2>2, <2>3, SMTT(30) DEF InChannel, Passed
      <2>6. Applied(m, s, bucket[s].rev)
            BY <2>1, <2>3, <2>4, <2>5 DEF MemberOK, Followed
      <2>7. <<m.tasks[s].cronID, s>> \in Entries(n, s)
            BY <2>6, ZenonT(30) DEF Applied, Entries
      <2>8. QED
            BY <2>7
<1>2. QED
      BY <1>1, SchedulerInvariant, PTL

----------------------------------------------------------------------------
\* What a member has no entry for does not depend on what comes later.
LEMMA RemovedBefore ==
  ASSUME NEW m \in Schedulers, NEW v \in Schedulers, NEW msg \in Messages, NEW s,
         v.chan = Append(m.chan, msg), v.cron = m.cron,
         NEW k \in 1..(Len(m.chan) + 1), Removed(m, s, k)
  PROVE  Removed(v, s, k)
<1>1. m.chan \in Seq(Messages) /\ Len(m.chan) \in Nat
      BY DEF Schedulers, Channels
<1>2. \A i \in 1..(k - 1) : v.chan[i] = m.chan[i]
      BY <1>1
<1>3. \A i \in 1..(k - 1) : /\ Puts(v, s, i) <=> Puts(m, s, i)
                            /\ Removes(v, s, i) <=> Removes(m, s, i)
      BY <1>2 DEF Puts, Removes
<1>4. \A i \in 1..(k - 1) : \A j \in (i + 1)..(k - 1) : j \in 1..(k - 1)
      BY <1>1, SMTT(30)
<1>5. QED
      BY <1>3, <1>4, ZenonT(30) DEF Removed

\* ScheduledTasksWatch passes on a message: a save only after the removal.
LEMMA SingleForward ==
  ASSUME NEW m \in Schedulers, NEW v \in Schedulers, NEW msg \in Messages, NEW s, NEW b,
         v.chan = Append(m.chan, msg), v.cron = m.cron, v.tasks = m.tasks, Single(m, s, b),
         \/ /\ msg # Nil /\ msg.name = s /\ b.rev <= v.pos
            /\ \/ msg.kind = "put" /\ ~b.deleted /\ ~(b.rev <= m.pos)
               \/ msg.kind = "delete" /\ b.deleted
         \/ /\ msg = Nil \/ msg.name # s
            /\ b.rev <= v.pos <=> b.rev <= m.pos
  PROVE  Single(v, s, b)
<1> DEFINE n == Len(m.chan)
<1>1. m.chan \in Seq(Messages) /\ n \in Nat
      BY DEF Schedulers, Channels
<1>2. /\ Len(v.chan) = n + 1 /\ v.chan[n + 1] = msg
      /\ \A i \in 1..n : v.chan[i] = m.chan[i]
      BY <1>1
<1>3. /\ \A k \in 1..n : Puts(m, s, k) => Removed(m, s, k)
      /\ (b.deleted <=> b.rev <= m.pos) => Removed(m, s, n + 1)
      /\ \A e \in v.cron : e[2] = s => e[1] = v.tasks[s].cronID
      BY DEF Single
<1>4. \A k \in 1..(n + 1) : Removed(m, s, k) => Removed(v, s, k)
      BY RemovedBefore, ZenonT(30)
<1>5. \A k \in 1..n : Puts(v, s, k) => Removed(v, s, k)
      BY <1>1, <1>2, <1>3, <1>4, SMTT(30) DEF Puts
<1>6. Nil.kind = "nil"
      BY DEF Nil
<1>7. n + 1 \in 1..(n + 1) /\ (n + 1) + 1 - 1 = n + 1 /\ (n + 1) - 1 = n
      BY <1>1
<1>8. Puts(v, s, n + 1) => Removed(v, s, n + 1)
      BY <1>2, <1>3, <1>4, <1>6, <1>7, ZenonT(30) DEF Puts
<1>9. (b.deleted <=> b.rev <= v.pos) => Removed(v, s, (n + 1) + 1)
      <2>1. CASE msg # Nil /\ msg.name = s /\ msg.kind = "delete"
            <3>1. Removes(v, s, n + 1) /\ ((n + 1) + 1)..((n + 1) + 1 - 1) = {}
                  BY <1>1, <1>2, <2>1 DEF Removes
            <3>2. QED
                  BY <1>7, <3>1, SMTT(30) DEF Removed
      <2>2. CASE msg # Nil /\ msg.name = s /\ msg.kind = "put"
            BY <2>2, ZenonT(30)
      <2>3. CASE msg = Nil \/ msg.name # s
            <3>1. SUFFICES ASSUME b.deleted <=> b.rev <= v.pos PROVE Removed(v, s, (n + 1) + 1)
                  BY ZenonT(30)
            <3>2. Removed(v, s, n + 1) /\ ~Puts(v, s, n + 1)
                  BY <1>2, <1>3, <1>4, <1>6, <1>7, <2>3, <3>1, ZenonT(30) DEF Puts
            <3>3. \A i, j \in Int : j \in (i + 1)..(n + 1) => j \in (i + 1)..n \/ j = n + 1
                  BY <1>1
            <3>4. \A j \in 1..(n + 1) : j \in 1..n \/ j = n + 1
                  BY <1>1
            <3>5. \A i \in 1..n : i \in 1..(n + 1) /\ i \in Int /\ \A j \in (i + 1)..(n + 1) : j \in Int
                  BY <1>1, SMTT(30)
            <3>6. QED
                  BY <1>7, <3>2, <3>3, <3>4, <3>5, SMTT(30) DEF Removed
      <2>4. QED
            BY <2>1, <2>2, <2>3, ZenonT(30)
<1>10. QED
      <2>1. \A k \in 1..(n + 1) : k \in 1..n \/ k = n + 1
            BY <1>1
      <2>2. QED
            BY <1>2, <1>3, <1>5, <1>8, <1>9, <2>1, ZenonT(30) DEF Single

\* The goroutine receives a message about s or another: what it does to the
\* entries of s is what a save, a removal or neither does.
Handles(m, v, s, msg) ==
  \/ /\ msg # Nil /\ msg.name = s /\ msg.kind = "put"
     /\ \A e \in v.cron : e[2] = s => e \in m.cron \/ e[1] = v.tasks[s].cronID
  \/ /\ msg # Nil /\ msg.name = s /\ msg.kind = "delete" /\ v.tasks[s] = m.tasks[s]
     /\ \A e \in v.cron : e[2] = s => e \in m.cron /\ e # <<m.tasks[s].cronID, s>>
  \/ /\ msg = Nil \/ msg.name # s
     /\ v.tasks[s] = m.tasks[s] /\ \A e \in v.cron : e[2] = s => e \in m.cron

LEMMA SingleTake ==
  ASSUME NEW m \in Schedulers, NEW v \in Schedulers, NEW msg \in Messages, NEW s \in Schedule, NEW b,
         m.chan # <<>>, msg = Head(m.chan), v.chan = Tail(m.chan), v.pos = m.pos, Single(m, s, b),
         Handles(m, v, s, msg)
  PROVE  Single(v, s, b)
<1> DEFINE n == Len(v.chan)
<1>1. n \in Nat /\ Len(m.chan) = n + 1 /\ m.chan[1] = msg
      BY DEF Schedulers, Channels
<1>2. \A i \in 1..n : v.chan[i] = m.chan[i + 1]
      BY DEF Schedulers, Channels
<1>3. \A i \in 1..n : /\ Puts(v, s, i) <=> Puts(m, s, i + 1)
                      /\ Removes(v, s, i) <=> Removes(m, s, i + 1)
      BY <1>2, ZenonT(30) DEF Puts, Removes
<1>4. /\ \A e \in m.cron : e[2] = s => e[1] = m.tasks[s].cronID
      /\ \A k \in 1..(n + 1) : Puts(m, s, k) => Removed(m, s, k)
      /\ (b.deleted <=> b.rev <= m.pos) => Removed(m, s, (n + 1) + 1)
      BY <1>1, ZenonT(30) DEF Single
<1>5. Nil.kind = "nil"
      BY DEF Nil
<1>6. Removes(m, s, 1) => \A e \in v.cron : e[2] # s
      <2> SUFFICES ASSUME Removes(m, s, 1), NEW e \in v.cron, e[2] = s PROVE FALSE
          OBVIOUS
      <2>1. msg # Nil /\ msg.name = s /\ msg.kind = "delete"
            BY <1>1, <1>5, ZenonT(30) DEF Removes
      <2>2. e \in m.cron /\ e # <<m.tasks[s].cronID, s>>
            BY <2>1, ZenonT(30) DEF Handles
      <2>3. e[1] = m.tasks[s].cronID /\ e \in Nat \X Schedule
            BY <1>4, <2>2, ZenonT(30) DEF Schedulers, CronEntries
      <2>4. QED
            BY <2>2, <2>3, SMTT(30)
<1>7. Puts(m, s, 1) => \A e \in m.cron : e[2] # s
      <2>1. 1 \in 1..(n + 1) /\ 1..(1 - 1) = {}
            BY <1>1, SMTT(30)
      <2>2. QED
            BY <1>4, <2>1, ZenonT(30) DEF Removed
<1>8. ASSUME NEW k \in 1..(n + 1), Removed(m, s, k + 1) PROVE Removed(v, s, k)
      <2>1. CASE \E i \in 1..k : Removes(m, s, i) /\ \A j \in (i + 1)..k : ~Puts(m, s, j)
            <3>1. PICK i \in 1..k : Removes(m, s, i) /\ \A j \in (i + 1)..k : ~Puts(m, s, j)
                  BY <2>1, ZenonT(30)
            <3>2. CASE i = 1
                  <4>1. \A j \in 1..(k - 1) : j \in 1..n /\ j + 1 \in (i + 1)..k
                        BY <1>1, <3>2, SMTT(30)
                  <4>2. \A j \in 1..(k - 1) : ~Puts(v, s, j)
                        BY <1>3, <3>1, <4>1, ZenonT(30)
                  <4>3. QED
                        BY <1>6, <3>1, <3>2, <4>2, ZenonT(30) DEF Removed
            <3>3. CASE i # 1
                  <4> DEFINE h == i - 1
                  <4>1. h \in 1..(k - 1) /\ h \in 1..n /\ h + 1 = i
                        BY <1>1, <3>3
                  <4>2. \A j \in (h + 1)..(k - 1) : j \in 1..n /\ j + 1 \in (i + 1)..k
                        BY <1>1, <3>3
                  <4> HIDE DEF h
                  <4>3. Removes(v, s, h) /\ \A j \in (h + 1)..(k - 1) : ~Puts(v, s, j)
                        BY <1>3, <3>1, <4>1, <4>2, ZenonT(30)
                  <4>4. QED
                        BY <4>1, <4>3, ZenonT(30) DEF Removed
            <3>4. QED
                  BY <3>2, <3>3, ZenonT(30)
      <2>2. CASE (\A e \in m.cron : e[2] # s) /\ \A j \in 1..k : ~Puts(m, s, j)
            <3>1. 1 \in 1..k /\ \A j \in 1..(k - 1) : j \in 1..n /\ j + 1 \in 1..k
                  BY <1>1
            <3>2. \A j \in 1..(k - 1) : ~Puts(v, s, j)
                  BY <1>3, <2>2, <3>1, ZenonT(30)
            <3>3. ~(msg # Nil /\ msg.name = s /\ msg.kind = "put")
                  BY <1>1, <2>2, <3>1, ZenonT(30) DEF Puts
            <3>4. \A e \in v.cron : e[2] # s
                  BY <2>2, <3>3, ZenonT(30) DEF Handles
            <3>5. QED
                  BY <3>2, <3>4, ZenonT(30) DEF Removed
      <2>3. (k + 1) - 1 = k
            BY <1>1
      <2>4. QED
            BY <1>8, <2>1, <2>2, <2>3, ZenonT(30) DEF Removed
<1>9. \A e \in v.cron : e[2] = s => e[1] = v.tasks[s].cronID
      <2> SUFFICES ASSUME NEW e \in v.cron, e[2] = s PROVE e[1] = v.tasks[s].cronID
          BY ZenonT(30)
      <2>1. CASE msg # Nil /\ msg.name = s /\ msg.kind = "put"
            <3>1. Puts(m, s, 1)
                  BY <1>1, <2>1, ZenonT(30) DEF Puts
            <3>2. QED
                  BY <1>7, <2>1, <3>1, ZenonT(30) DEF Handles
      <2>2. CASE ~(msg # Nil /\ msg.name = s /\ msg.kind = "put")
            BY <1>4, <2>2, ZenonT(30) DEF Handles
      <2>3. QED
            BY <2>1, <2>2, ZenonT(30)
<1>10. \A k \in 1..n : Puts(v, s, k) => Removed(v, s, k)
      <2> SUFFICES ASSUME NEW k \in 1..n, Puts(v, s, k) PROVE Removed(v, s, k)
          OBVIOUS
      <2>1. k \in 1..(n + 1) /\ k + 1 \in 1..(n + 1)
            BY <1>1
      <2>2. QED
            BY <1>3, <1>4, <1>8, <2>1, ZenonT(30)
<1>11. (b.deleted <=> b.rev <= v.pos) => Removed(v, s, n + 1)
      <2>1. n + 1 \in 1..(n + 1)
            BY <1>1, SMTT(30)
      <2>2. QED
            BY <1>4, <1>8, <2>1, ZenonT(30)
<1>12. QED
      BY <1>9, <1>10, <1>11, ZenonT(30) DEF Single

\* The steps that leave alone what a member was told and keeps.
LEMMA QuietMember ==
  ASSUME SchedulerInv, NEW n \in Scheduler,
         \/ Run(n) \/ CloseWatch(n) \/ WatchDone(n) \/ SendReady(n) \/ Loaded(n) \/ RunReturns(n)
         \/ (\E e \in sched[n].due : RunJob(n, e)) \/ (\E e \in sched[n].jobs : EnqueueJob(n, e))
         \/ Stop(n) \/ Cancel(n)
  PROVE  \E v : /\ sched' = [sched EXCEPT ![n] = v]
                /\ v.chan = sched[n].chan /\ v.cron = sched[n].cron
                /\ v.tasks = sched[n].tasks /\ v.pos = sched[n].pos
<1> DEFINE m == sched[n]
<1>1. m \in Schedulers
      BY MemberType, ZenonT(30)
<1>2. CASE Run(n)
      <2> DEFINE v == [m EXCEPT !.run = "loading", !.watcher = "select", !.initial = lastRev]
      <2>1. sched' = [sched EXCEPT ![n] = v]
            BY <1>2, Zenon DEF Run, Become
      <2> HIDE DEF m
      <2>2. v.chan = m.chan /\ v.cron = m.cron /\ v.tasks = m.tasks /\ v.pos = m.pos
            BY <1>1, ZenonT(30) DEF Schedulers
      <2> HIDE DEF v
      <2>3. QED
            BY <2>1, <2>2, Zenon DEF m
<1>3. CASE CloseWatch(n)
      <2> DEFINE v == [m EXCEPT !.closed = TRUE]
      <2>1. sched' = [sched EXCEPT ![n] = v]
            BY <1>3, Zenon DEF CloseWatch, Become
      <2> HIDE DEF m
      <2>2. v.chan = m.chan /\ v.cron = m.cron /\ v.tasks = m.tasks /\ v.pos = m.pos
            BY <1>1, ZenonT(30) DEF Schedulers
      <2> HIDE DEF v
      <2>3. QED
            BY <2>1, <2>2, Zenon DEF m
<1>4. CASE WatchDone(n)
      <2> DEFINE v == [m EXCEPT !.watcher = "return"]
      <2>1. sched' = [sched EXCEPT ![n] = v]
            BY <1>4, Zenon DEF WatchDone, Become
      <2> HIDE DEF m
      <2>2. v.chan = m.chan /\ v.cron = m.cron /\ v.tasks = m.tasks /\ v.pos = m.pos
            BY <1>1, ZenonT(30) DEF Schedulers
      <2> HIDE DEF v
      <2>3. QED
            BY <2>1, <2>2, Zenon DEF m
<1>5. CASE Loaded(n)
      <2> DEFINE v == [m EXCEPT !.run = "running", !.ready = FALSE]
      <2>1. sched' = [sched EXCEPT ![n] = v]
            BY <1>5, Zenon DEF Loaded, Become
      <2> HIDE DEF m
      <2>2. v.chan = m.chan /\ v.cron = m.cron /\ v.tasks = m.tasks /\ v.pos = m.pos
            BY <1>1, ZenonT(30) DEF Schedulers
      <2> HIDE DEF v
      <2>3. QED
            BY <2>1, <2>2, Zenon DEF m
<1>6. CASE RunReturns(n)
      <2> DEFINE v == [m EXCEPT !.run = "returned", !.stopped = TRUE]
      <2>1. sched' = [sched EXCEPT ![n] = v]
            BY <1>6, Zenon DEF RunReturns, Become
      <2> HIDE DEF m
      <2>2. v.chan = m.chan /\ v.cron = m.cron /\ v.tasks = m.tasks /\ v.pos = m.pos
            BY <1>1, ZenonT(30) DEF Schedulers
      <2> HIDE DEF v
      <2>3. QED
            BY <2>1, <2>2, Zenon DEF m
<1>7. CASE Stop(n)
      <2> DEFINE v == [m EXCEPT !.stopped = TRUE]
      <2>1. sched' = [sched EXCEPT ![n] = v]
            BY <1>7, Zenon DEF Stop, Become
      <2> HIDE DEF m
      <2>2. v.chan = m.chan /\ v.cron = m.cron /\ v.tasks = m.tasks /\ v.pos = m.pos
            BY <1>1, ZenonT(30) DEF Schedulers
      <2> HIDE DEF v
      <2>3. QED
            BY <2>1, <2>2, Zenon DEF m
<1>8. CASE Cancel(n)
      <2> DEFINE v == [m EXCEPT !.cancelled = TRUE]
      <2>1. sched' = [sched EXCEPT ![n] = v]
            BY <1>8, Zenon DEF Cancel, Become
      <2> HIDE DEF m
      <2>2. v.chan = m.chan /\ v.cron = m.cron /\ v.tasks = m.tasks /\ v.pos = m.pos
            BY <1>1, ZenonT(30) DEF Schedulers
      <2> HIDE DEF v
      <2>3. QED
            BY <2>1, <2>2, Zenon DEF m
<1>9. CASE SendReady(n)
      <2> DEFINE watcher == IF m.watcher = "continue" THEN "select" ELSE "done"
                 v == [m EXCEPT !.ready = TRUE, !.watcher = watcher]
      <2>1. sched' = [sched EXCEPT ![n] = v]
            BY <1>9, Zenon DEF SendReady, Become
      <2> HIDE DEF m, watcher
      <2>2. v.chan = m.chan /\ v.cron = m.cron /\ v.tasks = m.tasks /\ v.pos = m.pos
            BY <1>1, ZenonT(30) DEF Schedulers
      <2> HIDE DEF v
      <2>3. QED
            BY <2>1, <2>2, Zenon DEF m
<1>10. CASE \E e \in m.due : RunJob(n, e)
      <2>1. PICK e : sched' = [sched EXCEPT ![n] =
                       [m EXCEPT !.due = m.due \ {e},
                                 !.jobs = IF m.tasks[e[2]].rev > 0 /\ n \in leaders
                                          THEN m.jobs \cup {e} ELSE m.jobs]]
            BY <1>10, Zenon DEF RunJob, Become
      <2> DEFINE due == m.due \ {e}
                 jobs == IF m.tasks[e[2]].rev > 0 /\ n \in leaders THEN m.jobs \cup {e} ELSE m.jobs
                 v == [m EXCEPT !.due = due, !.jobs = jobs]
      <2>2. sched' = [sched EXCEPT ![n] = v]
            BY <2>1, Zenon
      <2> HIDE DEF m, due, jobs
      <2>3. v.chan = m.chan /\ v.cron = m.cron /\ v.tasks = m.tasks /\ v.pos = m.pos
            BY <1>1, ZenonT(30) DEF Schedulers
      <2> HIDE DEF v
      <2>4. QED
            BY <2>2, <2>3, Zenon DEF m
<1>11. CASE \E e \in m.jobs : EnqueueJob(n, e)
      <2>1. PICK e : sched' = [sched EXCEPT ![n] = [m EXCEPT !.jobs = m.jobs \ {e}]]
            BY <1>11, Zenon DEF EnqueueJob, Become
      <2> DEFINE jobs == m.jobs \ {e}
                 v == [m EXCEPT !.jobs = jobs]
      <2>2. sched' = [sched EXCEPT ![n] = v]
            BY <2>1, Zenon
      <2> HIDE DEF m, jobs
      <2>3. v.chan = m.chan /\ v.cron = m.cron /\ v.tasks = m.tasks /\ v.pos = m.pos
            BY <1>1, ZenonT(30) DEF Schedulers
      <2> HIDE DEF v
      <2>4. QED
            BY <2>2, <2>3, Zenon DEF m
<1>12. QED
      BY <1>2, <1>3, <1>4, <1>5, <1>6, <1>7, <1>8, <1>9, <1>10, <1>11, ZenonT(30)

LEMMA SameView ==
  ASSUME NEW m, NEW v, NEW s, NEW b, Single(m, s, b),
         v.chan = m.chan, v.cron = m.cron, v.tasks = m.tasks, v.pos = m.pos
  PROVE  Single(v, s, b)
<1>1. \A i : (Puts(v, s, i) <=> Puts(m, s, i)) /\ (Removes(v, s, i) <=> Removes(m, s, i))
      BY Zenon DEF Puts, Removes
<1>2. \A k : Removed(m, s, k) => Removed(v, s, k)
      BY <1>1 DEF Removed
<1>3. QED
      BY <1>1, <1>2 DEF Single

\* The invariant in the next state.
LEMMA SingleHolds ==
  ASSUME \A n \in Scheduler, s \in Schedule : Single(sched'[n], s, bucket'[s])
  PROVE  SingleEntries'
BY Zenon DEF SingleEntries, Single, Removed, Puts, Removes

LEMMA SingleMoves ==
  ASSUME SchedulerInv, SingleEntries, NEW n \in Scheduler, NEW v, sched' = [sched EXCEPT ![n] = v],
         bucket' = bucket, \A s \in Schedule : Single(v, s, bucket[s])
  PROVE  SingleEntries'
<1>1. sched \in [Scheduler -> Schedulers]
      BY DEF SchedulerInv
<1>2. sched'[n] = v /\ \A k \in Scheduler : k # n => sched'[k] = sched[k]
      BY <1>1
<1>3. \A k \in Scheduler, s \in Schedule : Single(sched'[k], s, bucket'[s])
      BY <1>2, Zenon DEF SingleEntries
<1>4. QED
      BY <1>3, SingleHolds, ZenonT(30)

LEMMA SingleQuiet ==
  ASSUME SchedulerInv, SingleEntries, bucket' = bucket, NEW n \in Scheduler,
         \/ Run(n) \/ CloseWatch(n) \/ WatchDone(n) \/ SendReady(n) \/ Loaded(n) \/ RunReturns(n)
         \/ (\E e \in sched[n].due : RunJob(n, e)) \/ (\E e \in sched[n].jobs : EnqueueJob(n, e))
         \/ Stop(n) \/ Cancel(n)
  PROVE  SingleEntries'
<1>1. PICK v : /\ sched' = [sched EXCEPT ![n] = v]
               /\ v.chan = sched[n].chan /\ v.cron = sched[n].cron
               /\ v.tasks = sched[n].tasks /\ v.pos = sched[n].pos
      BY QuietMember, Zenon
<1>2. \A s \in Schedule : Single(v, s, bucket[s])
      BY <1>1, SameView, Zenon DEF SingleEntries
<1>3. QED
      BY <1>1, <1>2, SingleMoves, Zenon

\* ScheduledTasksWatch passes on the oldest revision that is to be delivered,
\* or the marker.
LEMMA SingleForwardStep ==
  ASSUME SchedulerInv, SingleEntries, NEW n \in Scheduler, ForwardUpdate(n)
  PROVE  SingleEntries'
<1> DEFINE m == sched[n]
<1>1. /\ m \in Schedulers /\ bucket \in Buckets /\ bucket' = bucket /\ m.chan \in Channels /\ m.pos \in Nat
      /\ \A s \in Schedule : bucket[s].rev \in Nat /\ Single(m, s, bucket[s])
      BY MemberType, ZenonT(30) DEF ForwardUpdate, Local, Schedulers, Buckets, SingleEntries
<1>2. CASE /\ InitialDone(n) /\ ~m.marker
           /\ Become(n, [m EXCEPT !.chan = Append(m.chan, Nil), !.marker = TRUE])
      <2> DEFINE chan == Append(m.chan, Nil)
                 v == [m EXCEPT !.chan = chan, !.marker = TRUE]
      <2>1. sched' = [sched EXCEPT ![n] = v]
            BY <1>2, Zenon DEF Become
      <2>2. Nil \in Messages /\ chan \in Channels
            BY <1>1 DEF Channels, Messages
      <2> HIDE DEF m
      <2>3. chan = Append(m.chan, Nil)
            OBVIOUS
      <2> HIDE DEF chan
      <2>4. v \in Schedulers /\ v.chan = chan /\ v.cron = m.cron /\ v.tasks = m.tasks /\ v.pos = m.pos
            BY <1>1, <2>2, ZenonT(30) DEF Schedulers
      <2> HIDE DEF v
      <2>5. v.chan = Append(m.chan, Nil)
            BY <2>3, <2>4, Zenon
      <2>6. \A s \in Schedule : Single(v, s, bucket[s])
            BY <1>1, <2>2, <2>4, <2>5, SingleForward, ZenonT(30)
      <2>7. QED
            BY <1>1, <2>1, <2>6, SingleMoves, Zenon
<1>3. ASSUME NEW t \in Pending(n), \A u \in Pending(n) : bucket[t].rev <= bucket[u].rev,
             Become(n, [m EXCEPT !.chan = Append(m.chan, Update(t)), !.pos = bucket[t].rev])
      PROVE  SingleEntries'
      <2> DEFINE msg == Update(t)
                 chan == Append(m.chan, msg)
                 pos == bucket[t].rev
                 v == [m EXCEPT !.chan = chan, !.pos = pos]
      <2>1. sched' = [sched EXCEPT ![n] = v]
            BY <1>3, Zenon DEF Become
      <2>2. /\ t \in Schedule /\ bucket[t].rev > m.pos
            /\ \A u \in Schedule : bucket[u].rev > m.pos => bucket[t].rev <= bucket[u].rev
            BY <1>3, ZenonT(30) DEF Pending
      <2>3. pos \in Nat /\ pos = bucket[t].rev
            BY <1>1, <2>2, ZenonT(30)
      <2>4. /\ msg \in Messages /\ msg # Nil /\ msg.name = t
            /\ msg.kind = (IF bucket[t].deleted THEN "delete" ELSE "put")
            BY <1>1, <2>2, <2>3, ZenonT(30) DEF Update, Messages, Nil, Buckets
      <2> HIDE DEF msg
      <2>5. chan \in Channels /\ chan = Append(m.chan, msg)
            BY <1>1, <2>4 DEF Channels
      <2> HIDE DEF m, chan, pos
      <2>6. v \in Schedulers /\ v.chan = chan /\ v.cron = m.cron /\ v.tasks = m.tasks /\ v.pos = pos
            BY <1>1, <2>3, <2>5, ZenonT(30) DEF Schedulers
      <2> HIDE DEF v
      <2>7. ASSUME NEW s \in Schedule PROVE Single(v, s, bucket[s])
            <3>1. v.chan = Append(m.chan, msg) /\ Single(m, s, bucket[s])
                  BY <1>1, <2>5, <2>6, Zenon
            <3>2. CASE s = t
                  <4>1. bucket[s].rev <= v.pos /\ ~(bucket[s].rev <= m.pos)
                        BY <1>1, <2>2, <2>3, <2>6, <3>2, SMTT(30)
                  <4>2. \/ msg.kind = "put" /\ ~bucket[s].deleted
                        \/ msg.kind = "delete" /\ bucket[s].deleted
                        BY <2>4, <3>2, Zenon
                  <4>3. QED
                        BY <1>1, <2>4, <2>6, <3>1, <3>2, <4>1, <4>2, SingleForward, ZenonT(30)
            <3>3. CASE s # t
                  <4>1. \A x, y \in Schedule : bucket[x].rev = bucket[y].rev /\ bucket[x].rev # 0 => x = y
                        BY ZenonT(30) DEF SchedulerInv
                  <4>2. bucket[s].rev <= v.pos <=> bucket[s].rev <= m.pos
                        <5>1. bucket[s].rev # bucket[t].rev \/ bucket[s].rev = 0
                              BY <2>2, <3>3, <4>1, Zenon
                        <5>2. QED
                              BY <1>1, <2>2, <2>3, <2>6, <5>1, SMTT(30)
                  <4>3. QED
                        BY <1>1, <2>4, <2>6, <3>1, <3>3, <4>2, SingleForward, ZenonT(30)
            <3>4. QED
                  BY <3>2, <3>3, Zenon
      <2>8. QED
            BY <1>1, <2>1, <2>7, SingleMoves, Zenon
<1>4. QED
      BY <1>2, <1>3, ZenonT(30) DEF ForwardUpdate

\* addItem keeps the channel and adds one entry, and leaves the other schedules
\* alone.
LEMMA AddKeeps ==
  ASSUME NEW m \in Schedulers, NEW s \in Schedule, NEW rev \in Nat
  PROVE  LET w == addItem(m, s, rev)
         IN  /\ w \in Schedulers /\ w.chan = m.chan /\ w.pos = m.pos
             /\ w.cron \subseteq m.cron \cup {<<w.tasks[s].cronID, s>>}
BY AddItem, ZenonT(120)

LEMMA AddLeaves ==
  ASSUME NEW m \in Schedulers, NEW s \in Schedule, NEW rev \in Nat, NEW u \in Schedule, u # s
  PROVE  addItem(m, s, rev).tasks[u] = m.tasks[u]
BY DEF addItem, Schedulers

\* The goroutine receives from the channel.
LEMMA SingleItemStep ==
  ASSUME SchedulerInv, SingleEntries, NEW n \in Scheduler, WatchItem(n)
  PROVE  SingleEntries'
<1> DEFINE m == sched[n]
           chan == IF m.chan = <<>> THEN <<>> ELSE Tail(m.chan)
           rest == [m EXCEPT !.chan = chan]
           item == IF m.chan = <<>> THEN Nil ELSE Head(m.chan)
<1>1. /\ m \in Schedulers /\ m.chan \in Channels /\ \A s \in Schedule : Single(m, s, bucket[s])
      BY MemberType DEF SingleEntries, Schedulers
<1>2. /\ bucket' = bucket
      /\ sched' = [sched EXCEPT ![n] =
                      CASE item.kind = "nil" -> [rest EXCEPT !.watcher = "continue"]
                        [] item.kind = "delete" -> deleteItem(rest, item.name)
                        [] item.kind = "put" -> addItem(rest, item.name, item.rev)]
      BY DEF WatchItem, Become, Local
<1>3. item \in Messages /\ Nil.kind = "nil"
      BY <1>1 DEF Channels, Messages, Nil
<1>4. chan \in Channels /\ (m.chan = <<>> => chan = m.chan)
      BY <1>1 DEF Channels
<1>5. m.chan # <<>> => item = Head(m.chan) /\ chan = Tail(m.chan)
      OBVIOUS
<1>6. m.chan = <<>> => item = Nil
      OBVIOUS
<1> HIDE DEF chan, item, m
<1>7. /\ rest \in Schedulers /\ rest.chan = chan /\ rest.tasks = m.tasks /\ rest.cron = m.cron
      /\ rest.pos = m.pos
      BY <1>1, <1>4 DEF Schedulers
<1>8. CASE item = Nil
      <2> DEFINE v == [rest EXCEPT !.watcher = "continue"]
      <2>1. sched' = [sched EXCEPT ![n] = v]
            BY <1>2, <1>3, <1>8, ZenonT(30)
      <2> HIDE DEF rest
      <2>2. v \in Schedulers /\ v.chan = chan /\ v.tasks = m.tasks /\ v.cron = m.cron /\ v.pos = m.pos
            BY <1>7, Members DEF Schedulers
      <2> HIDE DEF v
      <2>3. ASSUME NEW s \in Schedule PROVE Single(v, s, bucket[s])
            <3>1. CASE m.chan = <<>>
                  BY <1>1, <1>4, <2>2, <3>1, SameView, ZenonT(30)
            <3>2. CASE m.chan # <<>>
                  <4>1. Handles(m, v, s, item)
                        BY <1>8, <2>2, ZenonT(30) DEF Handles
                  <4>2. QED
                        BY <1>1, <1>3, <1>5, <2>2, <3>2, <4>1, SingleTake, ZenonT(30)
            <3>3. QED
                  BY <3>1, <3>2, ZenonT(30)
      <2>4. QED
            BY <1>2, <2>1, <2>3, SingleMoves, Zenon
<1>9. CASE item # Nil
      <2>1. /\ m.chan # <<>> /\ item = Head(m.chan) /\ chan = Tail(m.chan)
            /\ item.kind \in {"put", "delete"} /\ item.name \in Schedule /\ item.rev \in Nat
            BY <1>3, <1>5, <1>6, <1>9, ZenonT(30) DEF Messages
      <2> DEFINE t == item.name
                 rev == item.rev
      <2>2. t \in Schedule /\ rev \in Nat /\ item.name = t
            BY <2>1
      <2> HIDE DEF rest
      <2>3. CASE item.kind = "put"
            <3> DEFINE v == addItem(rest, t, rev)
            <3>1. sched' = [sched EXCEPT ![n] = v]
                  BY <1>2, <2>3, ZenonT(30)
            <3> HIDE DEF t, rev
            <3>2. /\ v \in Schedulers /\ v.chan = rest.chan /\ v.pos = rest.pos
                  /\ v.cron \subseteq rest.cron \cup {<<v.tasks[t].cronID, t>>}
                  /\ \A u \in Schedule : u # t => v.tasks[u] = rest.tasks[u]
                  <4>1. rest \in Schedulers /\ t \in Schedule /\ rev \in Nat
                        BY <1>7, <2>2
                  <4>2. LET w == addItem(rest, t, rev)
                        IN  /\ w \in Schedulers /\ w.chan = rest.chan /\ w.pos = rest.pos
                            /\ w.cron \subseteq rest.cron \cup {<<w.tasks[t].cronID, t>>}
                        BY <4>1, AddKeeps, ZenonT(30)
                  <4>3. ASSUME NEW u \in Schedule, u # t
                        PROVE  addItem(rest, t, rev).tasks[u] = rest.tasks[u]
                        BY <4>1, <4>3, AddLeaves, ZenonT(30)
                  <4>4. QED
                        BY <4>2, <4>3, ZenonT(30)
            <3> HIDE DEF v
            <3>3. ASSUME NEW s \in Schedule PROVE Handles(m, v, s, item)
                  BY <1>7, <1>9, <2>2, <2>3, <3>2, SMTT(30) DEF Handles
            <3>4. \A s \in Schedule : Single(v, s, bucket[s])
                  <4>1. v.chan = Tail(m.chan) /\ v.pos = m.pos
                        BY <1>7, <2>1, <3>2, ZenonT(30)
                  <4>2. QED
                        BY <1>1, <1>3, <2>1, <3>2, <3>3, <4>1, SingleTake, ZenonT(30)
            <3>5. QED
                  BY <1>2, <3>1, <3>4, SingleMoves, Zenon
      <2>4. CASE item.kind = "delete"
            <3> DEFINE v == deleteItem(rest, t)
            <3>1. sched' = [sched EXCEPT ![n] = v]
                  BY <1>2, <2>4, ZenonT(30)
            <3> HIDE DEF t, rev
            <3>2. /\ v \in Schedulers /\ v.chan = rest.chan /\ v.pos = rest.pos
                  /\ v.tasks = rest.tasks
                  /\ v.cron = {e \in rest.cron : e # <<rest.tasks[t].cronID, t>>}
                  BY <1>7, <2>2, DeleteItem, SMTT(30)
            <3> HIDE DEF v
            <3>3. ASSUME NEW s \in Schedule PROVE Handles(m, v, s, item)
                  BY <1>7, <1>9, <2>2, <2>4, <3>2, ZenonT(30) DEF Handles
            <3>4. \A s \in Schedule : Single(v, s, bucket[s])
                  <4>1. v.chan = Tail(m.chan) /\ v.pos = m.pos
                        BY <1>7, <2>1, <3>2, ZenonT(30)
                  <4>2. QED
                        BY <1>1, <1>3, <2>1, <3>2, <3>3, <4>1, SingleTake, ZenonT(30)
            <3>5. QED
                  BY <1>2, <3>1, <3>4, SingleMoves, Zenon
      <2>5. QED
            BY <2>1, <2>3, <2>4, ZenonT(30)
<1>10. QED
      BY <1>8, <1>9, SMTT(30)

\* A member that has been told nothing.
LEMMA SingleNew ==
  ASSUME NEW s, NEW b
  PROVE  Single(NewScheduler, s, b)
<1>1. NewScheduler.chan = <<>> /\ NewScheduler.cron = {}
      BY DEF NewScheduler
<1>2. Len(NewScheduler.chan) = 0 /\ 1..0 = {} /\ 0 + 1 = 1 /\ 1..(1 - 1) = {}
      BY <1>1
<1>3. Removed(NewScheduler, s, 1)
      BY <1>1, <1>2 DEF Removed
<1>4. QED
      BY <1>1, <1>2, <1>3, ZenonT(30) DEF Single

\* A patient client writes.
LEMMA SingleWriteStep ==
  ASSUME SchedulerInv, SingleEntries, Patient, NEW s \in Schedule, NEW deleted \in BOOLEAN,
         Write(s, deleted)
  PROVE  SingleEntries'
<1>1. /\ sched' = sched /\ bucket \in Buckets /\ lastRev \in Nat
      /\ bucket' = [bucket EXCEPT ![s] = [rev |-> lastRev + 1, deleted |-> deleted]]
      BY DEF Write, SchedulerInv
<1>2. /\ bucket'[s].rev = lastRev + 1 /\ (bucket'[s].deleted <=> deleted)
      /\ \A u \in Schedule : u # s => bucket'[u] = bucket[u]
      BY <1>1 DEF Buckets
<1>3. ASSUME NEW n \in Scheduler PROVE Single(sched[n], s, bucket'[s])
      <2> DEFINE m == sched[n]
      <2>1. /\ Single(m, s, bucket[s]) /\ m.pos <= lastRev /\ m.pos \in Nat /\ MemberOK(m, bucket)
            BY MemberType, ZenonT(30) DEF SingleEntries, Schedulers
      <2>2. ~(bucket'[s].rev <= m.pos)
            BY <1>1, <1>2, <2>1, SMTT(30)
      <2>3. CASE deleted
            BY <1>2, <2>1, <2>2, <2>3, ZenonT(30) DEF Single
      <2>4. CASE ~deleted /\ m.run = "new"
            BY <2>1, <2>4, SingleNew, ZenonT(30) DEF MemberOK
      <2>5. CASE ~deleted /\ m.run # "new"
            <3>1. bucket[s].rev <= lastRev /\ bucket[s].rev \in Nat
                  BY DEF SchedulerInv, Buckets
            <3>2. bucket'[s] # bucket[s]
                  BY <1>1, <1>2, <3>1, SMTT(30)
            <3>3. bucket[s].deleted /\ m.pos >= bucket[s].rev
                  BY <1>2, <2>5, <3>2, ZenonT(30) DEF Patient
            <3>4. bucket[s].rev <= m.pos
                  BY <2>1, <3>1, <3>3
            <3>5. QED
                  BY <2>1, <3>3, <3>4, ZenonT(30) DEF Single
      <2>6. QED
            BY <2>3, <2>4, <2>5, ZenonT(30)
<1>4. \A n \in Scheduler, u \in Schedule : Single(sched'[n], u, bucket'[u])
      BY <1>1, <1>2, <1>3, ZenonT(30) DEF SingleEntries
<1>5. QED
      BY <1>4, SingleHolds, ZenonT(30)

LEMMA SingleStep ==
  SchedulerInv /\ SingleEntries /\ [Next]_vars /\ [Patient]_vars => SingleEntries'
<1> SUFFICES ASSUME SchedulerInv, SingleEntries, [Next]_vars, [Patient]_vars PROVE SingleEntries'
    OBVIOUS
<1>1. CASE UNCHANGED <<bucket, sched>>
      <2>1. \A n \in Scheduler, s \in Schedule : Single(sched'[n], s, bucket'[s])
            BY <1>1 DEF SingleEntries
      <2>2. QED
            BY <2>1, SingleHolds, ZenonT(30)
<1>2. CASE UNCHANGED vars
      BY <1>1, <1>2 DEF vars
<1>3. ASSUME NEW s \in Schedule, CreateSchedule(s) \/ UpdateSchedule(s) \/ DeleteSchedule(s)
      PROVE  SingleEntries'
      <2>1. PICK deleted \in BOOLEAN : Write(s, deleted)
            BY <1>3, ZenonT(30) DEF CreateSchedule, UpdateSchedule, DeleteSchedule
      <2>2. CASE Patient
            BY <2>1, <2>2, SingleWriteStep, ZenonT(30)
      <2>3. QED
            BY <1>2, <2>2, ZenonT(30)
<1>4. ASSUME NEW n \in Scheduler,
             \/ Run(n) \/ CloseWatch(n) \/ WatchDone(n) \/ SendReady(n) \/ Loaded(n) \/ RunReturns(n)
             \/ (\E e \in sched[n].due : RunJob(n, e)) \/ (\E e \in sched[n].jobs : EnqueueJob(n, e))
             \/ Stop(n) \/ Cancel(n)
      PROVE  SingleEntries'
      <2>1. bucket' = bucket
            BY <1>4, Zenon DEF Run, CloseWatch, WatchDone, SendReady, Loaded, RunReturns, RunJob,
               EnqueueJob, Stop, Cancel, Ends, Local
      <2>2. QED
            BY <1>4, <2>1, SingleQuiet
<1>5. ASSUME NEW n \in Scheduler, Crash(n) PROVE SingleEntries'
      <2>1. sched' = [sched EXCEPT ![n] = NewScheduler] /\ bucket' = bucket
            BY <1>5 DEF Crash, Ends, Become
      <2>2. \A s \in Schedule : Single(NewScheduler, s, bucket[s])
            BY SingleNew, ZenonT(30)
      <2>3. QED
            BY <2>1, <2>2, SingleMoves, Zenon
<1>6. ASSUME NEW n \in Scheduler, OnWon(n) \/ OnLost(n) \/ OnLostShutdown(n) PROVE SingleEntries'
      BY <1>1, <1>6 DEF OnWon, OnLost, OnLostShutdown, Remote
<1>7. CASE ComeDue
      <2>1. /\ bucket' = bucket
            /\ sched' = [n \in Scheduler |-> IF CronRuns(n) THEN [sched[n] EXCEPT !.due = sched[n].cron]
                                             ELSE sched[n]]
            BY <1>7 DEF ComeDue
      <2>2. ASSUME NEW n \in Scheduler
            PROVE  /\ sched'[n].chan = sched[n].chan /\ sched'[n].cron = sched[n].cron
                   /\ sched'[n].tasks = sched[n].tasks /\ sched'[n].pos = sched[n].pos
            <3>1. sched[n] \in Schedulers
                  BY MemberType
            <3>2. sched'[n] = sched[n] \/ sched'[n] = [sched[n] EXCEPT !.due = sched[n].cron]
                  BY <2>1, ZenonT(30)
            <3>3. QED
                  BY <3>1, <3>2, ZenonT(30) DEF Schedulers
      <2>3. \A n \in Scheduler, s \in Schedule : Single(sched'[n], s, bucket[s])
            BY <2>2, SameView DEF SingleEntries
      <2>4. QED
            BY <2>1, <2>3, SingleHolds
<1>8. ASSUME NEW n \in Scheduler, ForwardUpdate(n) \/ WatchItem(n) PROVE SingleEntries'
      BY <1>8, SingleForwardStep, SingleItemStep, Zenon
<1>9. CASE Next
      BY <1>3, <1>4, <1>5, <1>6, <1>7, <1>8, <1>9, ZenonT(30) DEF Next, Step
<1>10. QED
      BY <1>2, <1>9, Zenon

LEMMA SingleInitially == Init => SingleEntries
BY SingleNew DEF Init, SingleEntries

LEMMA SingleInvariant == Spec /\ [][Patient]_vars => []SingleEntries
BY SingleInitially, SingleStep, SchedulerInvariant, PTL DEF Spec

\* What the documentation says of changed schedules holds for clients that save
\* a schedule again only when its removal was delivered to every member: then
\* prepareAndWatch leaves a member that has seen every change one cron entry for
\* each schedule, however its messages are delayed.
THEOREM PatienceKeepsOneEntry == Spec /\ [][Patient]_vars => []OneEntryPerSchedule
<1>1. ASSUME SchedulerInv, SingleEntries PROVE OneEntryPerSchedule
      <2> SUFFICES ASSUME NEW n \in Scheduler, NEW s \in Schedule
                   PROVE  Cardinality(Entries(n, s)) <= 1
          BY DEF OneEntryPerSchedule
      <2> DEFINE x == <<sched[n].tasks[s].cronID, s>>
      <2>1. \A e \in Entries(n, s) : e = x
            <3> SUFFICES ASSUME NEW e \in Entries(n, s) PROVE e = x
                OBVIOUS
            <3>1. e \in sched[n].cron /\ e[2] = s /\ e \in Nat \X Schedule
                  BY <1>1, MemberType, ZenonT(30) DEF Entries, Schedulers, CronEntries
            <3>2. e[1] = sched[n].tasks[s].cronID
                  BY <1>1, <3>1, ZenonT(30) DEF SingleEntries, Single
            <3>3. QED
                  BY <3>1, <3>2
      <2>2. Entries(n, s) = {} \/ Entries(n, s) = {x}
            BY <2>1
      <2> HIDE DEF x
      <2>3. Cardinality({}) = 0 /\ Cardinality({x}) = 1
            BY FS_EmptySet, FS_Singleton, ZenonT(30)
      <2>4. QED
            BY <2>2, <2>3
<1>2. QED
      BY <1>1, SingleInvariant, SchedulerInvariant, PTL

\* And a schedule that is removed leaves no cron entry behind.
THEOREM PatienceLeavesNone == Spec /\ [][Patient]_vars => []RemovedNotScheduled
<1>1. ASSUME SchedulerInv, SingleEntries PROVE RemovedNotScheduled
      <2> SUFFICES ASSUME NEW n \in Scheduler, CaughtUp(n), NEW s \in Schedule, bucket[s].deleted
                   PROVE  Entries(n, s) = {}
          BY ZenonT(30) DEF RemovedNotScheduled
      <2> DEFINE m == sched[n]
      <2>1. m.chan = <<>> /\ ~(bucket[s].rev > m.pos) /\ bucket[s].rev \in Nat /\ m.pos \in Nat
            BY <1>1, MemberType, ZenonT(30) DEF CaughtUp, Pending, Schedulers, Buckets
      <2>2. bucket[s].rev <= m.pos /\ Len(m.chan) + 1 = 1 /\ 1..(1 - 1) = {}
            BY <2>1
      <2>3. Removed(m, s, 1)
            BY <1>1, <2>2, ZenonT(30) DEF SingleEntries, Single
      <2>4. \A e \in m.cron : e[2] # s
            BY <2>2, <2>3 DEF Removed
      <2>5. QED
            BY <2>4 DEF Entries
<1>2. QED
      BY <1>1, SingleInvariant, SchedulerInvariant, PTL

=============================================================================
