-------------------------- MODULE ElectionProofs --------------------------
(***************************************************************************)
(* The election keeps its promise to the scheduler, for every set of       *)
(* members, every TTL, timeout and back-off that leave a leader the time   *)
(* for a second attempt, and any number of faults; and the observer agrees *)
(* with the election whatever the times, losses and deletions are.         *)
(***************************************************************************)
EXTENDS Election, TLAPS

\* The interval of NewElection: longer than a request waits, shorter than the
\* record lives.
LEMMA CampaignInterval ==
  /\ cInterval \in Nat /\ 0 < cInterval
  /\ Timeout <= cInterval /\ cInterval < TTL
BY ElectionAssumption, SMTT(30) DEF cInterval

\* Waiting times and lost messages start at 0.
LEMMA Bounds ==
  /\ 0 \in 0..MaxLost /\ 0 \in 0..Timeout /\ Timeout \in 0..Timeout
  /\ \A w \in 0..Timeout : w \in Nat
  /\ \A l \in 0..MaxLost : l \in Nat
BY ElectionAssumption

\* The intervals of a member are times.
LEMMA Times ==
  ASSUME NEW m \in Member, m.bo # <<>> => m.tries < Len(m.bo)
  PROVE  /\ Interval(m) \in Nat
         /\ First(m) \in Nat /\ 0 < First(m)
         /\ Slack(m) \in Nat
         /\ m.tries = 0 => Interval(m) = First(m)
         /\ m.bo = <<>> => Interval(m) = cInterval /\ First(m) = cInterval
<1>1. m.bo \in Seq(Nat \ {0}) /\ m.tries \in Nat
      BY ElectionAssumption DEF Member
<1>2. CASE m.bo = <<>>
      BY <1>1, <1>2, CampaignInterval DEF Interval, First, Slack
<1>3. CASE m.bo # <<>>
  <2>1. Len(m.bo) \in Nat /\ Len(m.bo) > 0 /\ m.tries < Len(m.bo)
        BY <1>1, <1>3
  <2>2. m.bo[1] \in Nat \ {0} /\ m.bo[m.tries + 1] \in Nat \ {0}
        BY <1>1, <2>1, SMTT(30)
  <2>3. QED
        BY <1>3, <1>1, <2>2, ElectionAssumption DEF Interval, First, Slack
<1>4. QED
      BY <1>2, <1>3

LEMMA Intervals ==
  ASSUME NEW m \in Member, MemberOK(m)
  PROVE  /\ Interval(m) \in Nat
         /\ First(m) \in Nat /\ 0 < First(m)
         /\ Slack(m) \in Nat
         /\ m.state = "leader" \/ m.tries = 0 => Interval(m) = First(m)
         /\ m.bo = <<>> => Interval(m) = cInterval /\ First(m) = cInterval
BY Times DEF MemberOK

\* The end of a tick: the goroutine sleeps, and a leader for its first interval
\* at most.
LEMMA RestOK ==
  ASSUME NEW m \in Member,
         m.bo # <<>> => m.tries < Len(m.bo),
         m.bo = <<>> => m.ticker <= cInterval,
         m.state = "leader" => m.tries = 0
  PROVE  /\ Rest(m) \in Member
         /\ Rest(m).pc = "sleep" /\ Rest(m).state = m.state /\ Rest(m).bo = m.bo
         /\ Rest(m).notifyNext <=> m.notifyNext
         /\ Rest(m).cancelled <=> m.cancelled
         /\ Rest(m).leader <=> m.leader
         /\ Rest(m).lost = m.lost /\ Rest(m).tries = m.tries
         /\ Rest(m).ticker = IF m.bo = <<>> THEN m.ticker ELSE Interval(m)
         /\ m.tries = 0 => Rest(m).ticker <= First(m)
         /\ (m.leader <=> m.state = "leader" /\ ~m.notifyNext) => MemberOK(Rest(m))
<1>1. /\ Rest(m) \in Member
      /\ Rest(m).pc = "sleep" /\ Rest(m).state = m.state /\ Rest(m).bo = m.bo
      /\ Rest(m).tries = m.tries
      /\ Rest(m).notifyNext <=> m.notifyNext
      /\ Rest(m).cancelled <=> m.cancelled
      /\ Rest(m).leader <=> m.leader
      /\ Rest(m).lost = m.lost
      /\ Rest(m).ticker = IF m.bo = <<>> THEN m.ticker ELSE Interval(m)
      BY Times, ZenonT(30) DEF Rest, Member, PC
<1>2. m.tries = 0 => Rest(m).ticker <= First(m)
      BY <1>1, Times
<1>3. First(Rest(m)) = First(m)
      BY <1>1 DEF First
<1>4. ASSUME m.leader <=> m.state = "leader" /\ ~m.notifyNext
      PROVE  MemberOK(Rest(m))
      BY <1>1, <1>2, <1>3, <1>4 DEF MemberOK
<1>5. QED
      BY <1>1, <1>2, <1>4

\* A failed campaign counts a try at most.
LEMMA FailedFields ==
  ASSUME NEW m \in Member, MemberOK(m)
  PROVE  /\ Failed(m) \in Member
         /\ Failed(m).pc = m.pc /\ Failed(m).state = m.state
         /\ Failed(m).notifyNext = m.notifyNext /\ Failed(m).bo = m.bo
         /\ Failed(m).ticker = m.ticker /\ Failed(m).wait = m.wait
         /\ Failed(m).cancelled = m.cancelled /\ Failed(m).leader = m.leader
         /\ Failed(m).lost = m.lost
         /\ m.bo # <<>> => Failed(m).tries < Len(m.bo)
         /\ m.state = "leader" => Failed(m).tries = m.tries
<1>1. m.tries \in Nat /\ m.bo \in Seq(Nat \ {0})
      BY ElectionAssumption DEF Member
<1>2. CASE m.state = "candidate" /\ m.tries + 1 < Len(m.bo)
  <2>1. Failed(m) = [m EXCEPT !.tries = m.tries + 1]
        BY <1>2 DEF Failed
  <2>2. QED
        BY <2>1, <1>1, <1>2, SMTT(30) DEF Member
<1>3. CASE ~(m.state = "candidate" /\ m.tries + 1 < Len(m.bo))
  <2>1. Failed(m) = m
        BY <1>3 DEF Failed
  <2>2. QED
        BY <2>1 DEF MemberOK
<1>4. QED
      BY <1>2, <1>3

\* A step of one member leaves the others alone.
LEMMA Sets ==
  ASSUME TypeOK, NEW n \in Node, NEW m \in Member, SetMember(n, m)
  PROVE  /\ node' \in [Node -> Member]
         /\ node'[n] = m
         /\ \A k \in Node \ {n} : node'[k] = node[k]
BY DEF TypeOK, SetMember

\* The time until a member is certain is a time.
LEMMA CertainNat ==
  ASSUME NEW m \in Member, MemberOK(m)
  PROVE  Certain(m) \in Nat /\ Spare(m) \in Nat
<1>1. m.ticker \in Nat /\ m.wait \in Nat
      BY ElectionAssumption DEF Member
<1>2. Spare(m) \in Nat
      BY Intervals DEF Spare
<1>3. QED
      BY <1>1, <1>2, Intervals, SMTT(30) DEF Certain

\* A leader that lost a message campaigns again before its record expires.
LEMMA Pace ==
  ASSUME NEW m \in Member, MemberOK(m), Paced
  PROVE  First(m) + Slack(m) < TTL
<1>1. m.bo \in Backoffs
      BY DEF Member
<1>2. QED
      BY <1>1, CampaignInterval, ElectionAssumption DEF Paced, First, Slack

----------------------------------------------------------------------------
\* What every step keeps.
Kept == ObjectsOK' /\ (Paced /\ ToldApart => ToldApart')

\* A step of one member that leaves the key alone: a member that was told it
\* leads is no longer in doubt than before, and one that is waiting to be told
\* goes on waiting.
LEMMA KeepKey ==
  ASSUME ObjectsOK, NEW n \in Node, NEW m \in Member, SetMember(n, m),
         key' = key, faults' \in 0..MaxFaults,
         MemberOK(m), m.bo = node[n].bo,
         m.leader \/ m.pc = "onWon" => Told(n) /\ (Paced => Certain(m) <= Certain(node[n])),
         key.rev = n =>
           /\ KnowsKey(m)
           /\ node[n].pc = "sleep" /\ node[n].notifyNext /\ node[n].ticker > 0 =>
                m.pc = "sleep" /\ m.notifyNext /\ m.ticker >= node[n].ticker
  PROVE  Kept
<1>1. /\ node' \in [Node -> Member]
      /\ node'[n] = m
      /\ \A k \in Node \ {n} : node'[k] = node[k]
      BY Sets DEF ObjectsOK
<1>2. TypeOK'
      BY <1>1 DEF ObjectsOK, TypeOK
<1>3. (\A k \in Node : MemberOK(node[k]) /\ (key.rev = k => KnowsKey(node[k])))'
      BY <1>1 DEF ObjectsOK
<1>4. ObjectsOK'
      BY <1>2, <1>3 DEF ObjectsOK
<1>. SUFFICES ASSUME Paced, ToldApart
              PROVE  ToldApart'
      BY <1>4 DEF Kept
<1>5. (\A k, j \in Node : node[k].bo = node[j].bo)'
      BY <1>1 DEF ToldApart
<1>6. \A k \in Node : Told(k)' => Told(k)
      BY <1>1 DEF Told
<1>7. ASSUME NEW k \in Node, Told(k)'
      PROVE  KeyInv(k)'
  <2>1. KeyInv(k) /\ Told(k)
        BY <1>6, <1>7 DEF ToldApart
  <2>2. node[k] \in Member /\ MemberOK(node[k]) /\ node'[k] \in Member /\ MemberOK(node'[k])
        BY <1>1, <1>3 DEF ObjectsOK, TypeOK
  <2>3. First(node'[k]) = First(node[k]) /\ Slack(node'[k]) = Slack(node[k])
        BY <1>1 DEF First, Slack
  <2>4. Certain(node'[k]) <= Certain(node[k])
        BY <1>1, <1>7, <2>2, CertainNat DEF Told
  <2>5. key \in Key /\ TTL \in Nat
        BY ElectionAssumption DEF ObjectsOK, TypeOK
  <2>6. Certain(node'[k]) \in Nat /\ Certain(node[k]) \in Nat /\ First(node[k]) \in Nat /\ Slack(node[k]) \in Nat
        BY <2>2, CertainNat, Intervals, SMTT(30)
  <2>7. ASSUME NEW j \in Node \ {k}, key.rev = j
        PROVE  node'[j].notifyNext /\ node'[j].pc = "sleep" /\ Certain(node'[k]) < node'[j].ticker
    <3>1. node[j].notifyNext /\ node[j].pc = "sleep" /\ Certain(node[k]) < node[j].ticker
          BY <2>1, <2>7 DEF KeyInv
    <3>2. node[j].ticker \in Nat /\ node'[j].ticker \in Nat
          BY <1>1 DEF ObjectsOK, TypeOK, Member
    <3>3. QED
          BY <3>1, <3>2, <2>4, <2>6, <2>7, <1>1
  <2>8. QED
        BY <2>1, <2>3, <2>4, <2>5, <2>6, <2>7 DEF KeyInv, Key
<1>8. \A k, j \in Node : Told(k)' /\ Told(j)' => k = j
      BY <1>6 DEF ToldApart
<1>9. QED
      BY <1>5, <1>7, <1>8, <1>4 DEF ToldApart

\* Nobody knows the revision of the key any more: it was just written, or the
\* member that knew it forgot it and is not in doubt.
LEMMA LoseKey ==
  ASSUME ObjectsOK, NEW n \in Node, NEW m \in Member, SetMember(n, m),
         key' \in Key, key'.rev = Unknown, faults' \in 0..MaxFaults,
         MemberOK(m), m.bo = node[n].bo,
         m.leader \/ m.pc = "onWon" => Told(n) /\ (Paced => Certain(m) <= Certain(node[n])),
         \/ key'.age = 0
         \/ /\ key.rev = n /\ key'.age = key.age
            /\ m.leader \/ m.pc = "onWon" => Certain(m) = 0
  PROVE  Kept
<1>1. /\ node' \in [Node -> Member]
      /\ node'[n] = m
      /\ \A k \in Node \ {n} : node'[k] = node[k]
      BY Sets DEF ObjectsOK
<1>2. TypeOK'
      BY <1>1 DEF ObjectsOK, TypeOK
<1>3. (\A k \in Node : MemberOK(node[k]) /\ (key.rev = k => KnowsKey(node[k])))'
      BY <1>1, ElectionAssumption DEF ObjectsOK, Unknown
<1>4. ObjectsOK'
      BY <1>2, <1>3 DEF ObjectsOK
<1>. SUFFICES ASSUME Paced, ToldApart
              PROVE  ToldApart'
      BY <1>4 DEF Kept
<1>5. (\A k, j \in Node : node[k].bo = node[j].bo)'
      BY <1>1 DEF ToldApart
<1>6. \A k \in Node : Told(k)' => Told(k)
      BY <1>1 DEF Told
<1>7. ASSUME NEW k \in Node, Told(k)'
      PROVE  KeyInv(k)'
  <2>1. KeyInv(k) /\ Told(k)
        BY <1>6, <1>7 DEF ToldApart
  <2>2. node[k] \in Member /\ MemberOK(node[k]) /\ node'[k] \in Member /\ MemberOK(node'[k])
        BY <1>1, <1>3 DEF ObjectsOK, TypeOK
  <2>3. First(node'[k]) = First(node[k]) /\ Slack(node'[k]) = Slack(node[k])
        BY <1>1 DEF First, Slack
  <2>4. Certain(node'[k]) <= Certain(node[k])
        BY <1>1, <1>7, <2>2, CertainNat DEF Told
  <2>5. key \in Key /\ TTL \in Nat
        BY ElectionAssumption DEF ObjectsOK, TypeOK
  <2>6. Certain(node'[k]) \in Nat /\ Certain(node[k]) \in Nat /\ First(node[k]) \in Nat
        /\ Slack(node[k]) \in Nat /\ 0 < First(node[k])
        BY <2>2, CertainNat, Intervals, SMTT(30)
  <2>7. First(node[k]) + Slack(node[k]) < TTL
        BY <2>2, Pace
  <2>8. key'.age + Certain(node'[k]) < TTL + First(node[k])
    <3>1. CASE key'.age = 0
          BY <3>1, <2>1, <2>4, <2>5, <2>6, <2>7 DEF KeyInv
    <3>2. CASE key.rev = n /\ key'.age = key.age /\ k = n
      <4>1. Certain(node'[k]) = 0 \/ key'.age = 0
            BY <1>1, <1>7, <3>2 DEF Told
      <4>2. key.age \in 0..TTL
            BY <2>5 DEF Key
      <4>3. QED
            BY <4>1, <4>2, <3>1, <3>2, <2>5, <2>6
    <3>3. CASE key.rev = n /\ key'.age = key.age /\ k # n
      <4>1. node[n].pc = "sleep" /\ Certain(node[k]) < node[n].ticker
            BY <2>1, <3>3 DEF KeyInv
      <4>2. node[n] \in Member /\ MemberOK(node[n]) /\ KnowsKey(node[n])
            BY <3>3 DEF ObjectsOK, TypeOK
      <4>3. node[n].ticker \in Nat /\ node[n].ticker <= First(node[n])
            BY <4>1, <4>2 DEF MemberOK, KnowsKey, Member
      <4>4. First(node[n]) = First(node[k])
            BY DEF First, ToldApart
      <4>5. key.age \in 0..TTL
            BY <2>5 DEF Key
      <4>6. QED
            BY <4>1, <4>3, <4>4, <4>5, <3>3, <2>4, <2>5, <2>6
    <3>4. QED
          BY <3>1, <3>2, <3>3
  <2>9. QED
        BY <2>1, <2>3, <2>4, <2>5, <2>6, <2>8, ElectionAssumption, SMTT(30) DEF KeyInv, Absent, Unknown
<1>8. \A k, j \in Node : Told(k)' /\ Told(j)' => k = j
      BY <1>6 DEF ToldApart
<1>9. QED
      BY <1>5, <1>7, <1>8, <1>4 DEF ToldApart

----------------------------------------------------------------------------
\* What the invariant says of one member.
LEMMA OneMember ==
  ASSUME ObjectsOK, NEW n \in Node
  PROVE  /\ node[n] \in Member /\ MemberOK(node[n])
         /\ Interval(node[n]) \in Nat /\ First(node[n]) \in Nat /\ Slack(node[n]) \in Nat
         /\ node[n].state = "leader" => Interval(node[n]) = First(node[n])
         /\ node[n].bo = <<>> => Interval(node[n]) = cInterval
         /\ Certain(node[n]) \in Nat /\ Spare(node[n]) \in Nat
         /\ key.rev = n => KnowsKey(node[n])
         /\ faults \in 0..MaxFaults /\ TypeOK /\ key \in Key
BY Intervals, CertainNat DEF ObjectsOK, TypeOK

\* The goroutine starts.
LEMMA StartStep ==
  ASSUME ObjectsOK, NEW n \in Node, Start(n)
  PROVE  Kept
<1> DEFINE m == [node[n] EXCEPT !.pc = "splay", !.state = "candidate", !.cancelled = FALSE]
<1>1. m \in Member /\ MemberOK(m) /\ m.bo = node[n].bo /\ ~m.leader /\ m.pc # "onWon"
      BY OneMember, ZenonT(30) DEF Start, Member, MemberOK, PC
<1>2. key.rev # n
      BY OneMember DEF Start, KnowsKey
<1>3. SetMember(n, m) /\ key' = key /\ faults' \in 0..MaxFaults
      BY OneMember DEF Start
<1> HIDE DEF m
<1>4. QED
      BY <1>1, <1>2, <1>3, KeepKey

\* The ticker starts, or fires: the member is about to campaign.
LEMMA TryFields ==
  ASSUME NEW m \in Member, MemberOK(m), m.pc \in {"splay", "sleep"}, NEW t \in Member,
         t = [m EXCEPT !.pc = "try", !.ticker = Interval(m)]
  PROVE  /\ MemberOK(t) /\ t.bo = m.bo /\ t.pc = "try" /\ t.state = m.state
         /\ t.leader <=> m.leader
         /\ t.cancelled <=> m.cancelled
         /\ t.lost = m.lost
<1>1. /\ t.pc = "try" /\ t.ticker = Interval(m) /\ t.bo = m.bo /\ t.state = m.state
      /\ t.tries = m.tries /\ t.lost = m.lost
      /\ t.leader <=> m.leader
      /\ t.cancelled <=> m.cancelled
      /\ t.notifyNext <=> m.notifyNext
      BY DEF Member
<1>2. Interval(m) \in Nat /\ (m.bo = <<>> => Interval(m) = cInterval) /\ cInterval \in Nat
      BY Intervals, CampaignInterval
<1>3. MemberOK(t)
      BY <1>1, <1>2 DEF MemberOK
<1>4. QED
      BY <1>1, <1>3

\* The splay is over.
LEMMA BeginStep ==
  ASSUME ObjectsOK, NEW n \in Node, Begin(n)
  PROVE  Kept
<1> DEFINE m == [node[n] EXCEPT !.pc = "try", !.ticker = Interval(node[n])]
<1>1. m \in Member
      BY OneMember, ZenonT(30) DEF Begin, Member, PC
<1>2. /\ MemberOK(m) /\ m.bo = node[n].bo /\ m.pc = "try"
      /\ m.leader <=> node[n].leader
      BY <1>1, OneMember, TryFields, ZenonT(30) DEF Begin
<1>3. key.rev # n /\ ~node[n].leader
      BY OneMember DEF Begin, KnowsKey, MemberOK
<1>4. SetMember(n, m) /\ key' = key /\ faults' \in 0..MaxFaults
      BY OneMember DEF Begin
<1> HIDE DEF m
<1>5. QED
      BY <1>1, <1>2, <1>3, <1>4, KeepKey

\* The ticker fires.
LEMMA TickStep ==
  ASSUME ObjectsOK, NEW n \in Node, Tick(n)
  PROVE  Kept
<1> DEFINE m == [node[n] EXCEPT !.pc = "try", !.ticker = Interval(node[n])]
<1>1. m \in Member
      BY OneMember, ZenonT(30) DEF Tick, Member, PC
<1>2. /\ MemberOK(m) /\ m.bo = node[n].bo /\ m.pc = "try" /\ m.state = node[n].state
      /\ m.leader <=> node[n].leader
      /\ m.cancelled <=> node[n].cancelled
      /\ m.lost = node[n].lost
      BY <1>1, OneMember, TryFields, ZenonT(60) DEF Tick
<1>3. SetMember(n, m) /\ key' = key /\ faults' \in 0..MaxFaults
      BY OneMember, SMTT(30) DEF Tick
<1> HIDE DEF m
<1>4. Certain(m) <= Certain(node[n])
      BY <1>1, <1>2, OneMember, SMTT(30) DEF Tick, Certain, Spare, First, Slack
<1>5. key.rev = n => KnowsKey(m)
      BY <1>2, OneMember DEF KnowsKey
<1>6. QED
      BY <1>1, <1>2, <1>3, <1>4, <1>5, KeepKey DEF Tick, Told

\* A campaign that fails.
LEMMA CampaignFailsStep ==
  ASSUME ObjectsOK, NEW n \in Node, Campaign(n), key.rev # Absent
  PROVE  Kept
<1> DEFINE f == Failed(node[n])
           b == [f EXCEPT !.lost = 0]
           m == Rest(b)
<1>1. /\ f \in Member /\ f.bo = node[n].bo /\ f.state = "candidate"
      /\ ~f.leader /\ f.ticker = node[n].ticker
      /\ f.bo # <<>> => f.tries < Len(f.bo)
      BY OneMember, FailedFields, SMTT(30) DEF Campaign, MemberOK
<1> HIDE DEF f
<1>2. /\ b \in Member /\ b.bo = f.bo /\ b.state = f.state /\ b.tries = f.tries /\ b.ticker = f.ticker
      /\ b.leader <=> f.leader
      BY <1>1, Bounds DEF Member
<1>3. b.bo = <<>> => b.ticker <= cInterval
      BY <1>1, <1>2, OneMember DEF MemberOK
<1>4. SetMember(n, m) /\ key' = key /\ faults' \in 0..MaxFaults
      BY OneMember DEF Campaign, NoFault, f
<1> HIDE DEF b
<1>5. m \in Member /\ MemberOK(m) /\ m.bo = node[n].bo /\ ~m.leader /\ m.pc = "sleep"
      BY <1>1, <1>2, <1>3, RestOK
<1>6. key.rev # n
      BY OneMember DEF Campaign, KnowsKey
<1> HIDE DEF m
<1>7. QED
      BY <1>4, <1>5, <1>6, KeepKey

\* A request that is not sent.
LEMMA TryCancelledStep ==
  ASSUME ObjectsOK, NEW n \in Node, TryCancelled(n)
  PROVE  Kept
<1> DEFINE b == Failed(node[n])
           m == Rest(b)
<1>1. /\ b \in Member /\ b.bo = node[n].bo /\ b.state = node[n].state /\ b.cancelled
      /\ b.leader <=> node[n].leader
      /\ b.notifyNext <=> node[n].notifyNext
      /\ b.bo # <<>> => b.tries < Len(b.bo)
      /\ b.bo = <<>> => b.ticker <= cInterval
      /\ b.state = "leader" => b.tries = 0
      BY OneMember, FailedFields, SMTT(30) DEF TryCancelled, MemberOK
<1>2. b.leader <=> b.state = "leader" /\ ~b.notifyNext
      BY <1>1, OneMember DEF TryCancelled, MemberOK
<1>3. SetMember(n, m) /\ key' = key /\ faults' \in 0..MaxFaults
      BY OneMember DEF TryCancelled
<1> HIDE DEF b
<1>4. /\ m \in Member /\ MemberOK(m) /\ m.bo = node[n].bo /\ m.pc = "sleep" /\ m.cancelled
      /\ m.leader <=> node[n].leader
      /\ m.state = node[n].state
      BY <1>1, <1>2, RestOK
<1> HIDE DEF m
<1>5. Certain(m) <= Certain(node[n])
      BY <1>4, OneMember DEF Certain
<1>6. key.rev = n => KnowsKey(m)
      BY <1>4, OneMember DEF KnowsKey
<1>7. QED
      BY <1>3, <1>4, <1>5, <1>6, KeepKey, SMTT(30) DEF TryCancelled, Told

\* A request whose answer does not come in time.
LEMMA GiveUpStep ==
  ASSUME ObjectsOK, NEW n \in Node, GiveUp(n)
  PROVE  Kept
<1> DEFINE f == Failed(node[n])
           b == [f EXCEPT !.wait = 0]
           m == Rest(b)
<1>1. /\ f \in Member /\ f.bo = node[n].bo /\ f.state = node[n].state
      /\ f.cancelled <=> node[n].cancelled
      /\ f.leader <=> node[n].leader
      /\ f.notifyNext <=> node[n].notifyNext
      /\ f.bo # <<>> => f.tries < Len(f.bo)
      /\ f.ticker = node[n].ticker /\ f.lost = node[n].lost
      /\ f.state = "leader" => f.tries = 0
      BY OneMember, FailedFields, SMTT(30) DEF GiveUp, MemberOK
<1> HIDE DEF f
<1>2. /\ b \in Member /\ b.bo = f.bo /\ b.state = f.state /\ b.tries = f.tries
      /\ b.ticker = f.ticker /\ b.lost = f.lost
      /\ b.cancelled <=> f.cancelled
      /\ b.leader <=> f.leader
      /\ b.notifyNext <=> f.notifyNext
      BY <1>1, Bounds DEF Member
<1>3. /\ b.bo = <<>> => b.ticker <= cInterval
      /\ b.leader <=> b.state = "leader" /\ ~b.notifyNext
      /\ b.lost > 0
      BY <1>1, <1>2, OneMember DEF GiveUp, MemberOK
<1>4. SetMember(n, m) /\ key' = key /\ faults' \in 0..MaxFaults
      BY OneMember DEF GiveUp, f
<1> HIDE DEF b
<1>5. /\ m \in Member /\ MemberOK(m) /\ m.bo = node[n].bo /\ m.pc = "sleep"
      /\ m.leader <=> node[n].leader
      /\ m.cancelled <=> node[n].cancelled
      /\ m.state = node[n].state /\ m.lost > 0
      /\ m.bo = <<>> => m.ticker = node[n].ticker
      /\ m.leader => m.ticker <= First(b)
      BY <1>1, <1>2, <1>3, RestOK
<1>6. First(b) = First(node[n])
      BY <1>1, <1>2 DEF First
<1> HIDE DEF m
<1>7. m.leader => Certain(m) <= Certain(node[n])
  <2>1. Spare(m) = 0
        BY <1>5, Bounds DEF Spare, Member
  <2>2. m.ticker \in Nat /\ node[n].ticker \in Nat /\ node[n].wait \in Nat
        BY <1>5, OneMember, Bounds, ZenonT(30) DEF Member
  <2>3. m.leader /\ ~m.cancelled /\ m.bo = <<>> => Certain(m) <= Certain(node[n])
        BY <2>1, <2>2, <1>5 DEF GiveUp, Certain
  <2>4. m.leader /\ ~m.cancelled /\ m.bo # <<>> => Certain(m) <= Certain(node[n])
        BY <2>1, <2>2, <1>5, <1>6, OneMember, SMTT(30) DEF GiveUp, Certain
  <2>5. m.cancelled => Certain(m) <= Certain(node[n])
        BY <1>5 DEF GiveUp, Certain
  <2>6. QED
        BY <2>3, <2>4, <2>5
<1>8. key.rev = n => KnowsKey(m)
      BY <1>5, OneMember DEF KnowsKey
<1>9. QED
      BY <1>4, <1>5, <1>7, <1>8, KeepKey DEF GiveUp, Told

\* A leader that steps down, and is to be told of it if it was told that it leads.
LEMMA SteppedDownFields ==
  ASSUME NEW m \in Member, MemberOK(m), m.pc = "try", m.state = "leader"
  PROVE  /\ SteppedDown(m) \in Member /\ MemberOK(SteppedDown(m)) /\ SteppedDown(m).bo = m.bo
         /\ SteppedDown(m).pc \in {"sleep", "onLost"}
         /\ SteppedDown(m).leader <=> m.leader
         /\ SteppedDown(m).leader => Certain(SteppedDown(m)) = 0
<1> DEFINE b == [m EXCEPT !.state = "candidate", !.tries = 0, !.notifyNext = FALSE, !.lost = 0]
           o == [b EXCEPT !.pc = "onLost"]
<1>1. /\ b \in Member /\ b.bo = m.bo /\ b.state = "candidate" /\ b.tries = 0
      /\ b.ticker = m.ticker
      /\ b.leader <=> m.leader
      BY Bounds, ZenonT(30) DEF Member
<1>2. (b.bo # <<>> => b.tries < Len(b.bo)) /\ (b.bo = <<>> => b.ticker = cInterval)
      BY <1>1, ElectionAssumption DEF MemberOK, Member
<1>3. SteppedDown(m) = IF m.notifyNext THEN Rest(b) ELSE o
      BY DEF SteppedDown
<1>4. /\ o \in Member /\ o.bo = b.bo /\ o.pc = "onLost" /\ o.state = "candidate"
      /\ o.tries = 0 /\ o.ticker = b.ticker
      /\ o.leader <=> b.leader
      BY <1>1, ZenonT(30) DEF Member, PC
<1> HIDE DEF b, o
<1>5. CASE m.notifyNext
  <2>1. ~b.leader /\ ~m.leader
        BY <1>1, <1>5 DEF MemberOK
  <2>2. cInterval \in Nat
        BY CampaignInterval
  <2>3. Rest(b) \in Member /\ MemberOK(Rest(b)) /\ Rest(b).bo = m.bo
        /\ ~Rest(b).leader /\ Rest(b).pc = "sleep"
        BY <1>1, <1>2, <2>1, <2>2, RestOK
  <2>4. QED
        BY <1>3, <1>5, <2>1, <2>3
<1>6. CASE ~m.notifyNext
  <2>1. MemberOK(o)
        BY <1>1, <1>2, <1>4, CampaignInterval DEF MemberOK
  <2>2. Certain(o) = 0
        BY <1>4, SMTT(30) DEF Certain
  <2>3. QED
        BY <1>1, <1>3, <1>4, <1>6, <2>1, <2>2
<1>7. QED
      BY <1>5, <1>6

\* The update of a leader is refused.
LEMMA StepDownStep ==
  ASSUME ObjectsOK, NEW n \in Node, StepDown(n)
  PROVE  Kept
<1> DEFINE m == SteppedDown(node[n])
<1>1. /\ m \in Member /\ MemberOK(m) /\ m.bo = node[n].bo /\ m.pc # "onWon"
      /\ m.leader <=> node[n].leader
      /\ m.leader => Certain(m) = 0
      BY OneMember, SteppedDownFields DEF StepDown
<1>2. SetMember(n, m) /\ key' = key /\ key.rev # n /\ faults' \in 0..MaxFaults
      BY OneMember DEF StepDown
<1> HIDE DEF m
<1>3. m.leader => Told(n) /\ Certain(m) <= Certain(node[n])
      BY <1>1, OneMember DEF Told
<1>4. QED
      BY <1>1, <1>2, <1>3, KeepKey

\* OnWon runs.
LEMMA WonStep ==
  ASSUME ObjectsOK, NEW n \in Node, Won(n)
  PROVE  Kept
<1> DEFINE r == Rest(node[n])
           m == [r EXCEPT !.leader = TRUE]
<1>1. /\ node[n].pc = "onWon" /\ node[n].state = "leader" /\ ~node[n].notifyNext
      /\ node[n].lost = 0 /\ node[n].tries = 0
      BY OneMember, SMTT(30) DEF Won, MemberOK
<1>2. /\ r \in Member /\ r.pc = "sleep" /\ r.state = "leader" /\ r.bo = node[n].bo
      /\ ~r.notifyNext
      /\ r.cancelled <=> node[n].cancelled
      /\ r.lost = 0 /\ r.ticker <= First(node[n]) /\ r.tries = 0
      BY <1>1, OneMember, RestOK, SMTT(30) DEF MemberOK
<1>3. r.ticker <= cInterval \/ r.bo # <<>>
      BY <1>1, <1>2, OneMember, Intervals
<1> HIDE DEF r
<1>4. /\ m \in Member /\ m.pc = "sleep" /\ m.state = "leader" /\ m.bo = node[n].bo
      /\ ~m.notifyNext /\ m.leader
      /\ m.cancelled <=> node[n].cancelled
      /\ m.lost = 0 /\ m.ticker = r.ticker /\ m.tries = 0
      BY <1>2, ZenonT(30) DEF Member
<1>5. SetMember(n, m) /\ key' = key /\ faults' \in 0..MaxFaults
      BY OneMember DEF Won, r
<1> HIDE DEF m
<1>6. First(m) = First(node[n]) /\ Slack(m) = Slack(node[n])
      BY <1>4 DEF First, Slack
<1>7. MemberOK(m)
  <2>1. m.bo # <<>> => m.tries < Len(m.bo)
        BY <1>1, <1>4, OneMember, SMTT(30) DEF MemberOK
  <2>2. QED
        BY <2>1, <1>2, <1>3, <1>4, <1>6 DEF MemberOK
<1>8. Certain(m) <= Certain(node[n])
  <2>1. Spare(m) = Spare(node[n])
        BY <1>1, <1>4, <1>6, SMTT(30) DEF Spare
  <2>2. m.ticker \in Nat /\ Spare(node[n]) \in Nat /\ First(node[n]) \in Nat
        BY <1>4, OneMember DEF Member
  <2>3. QED
        BY <1>1, <1>2, <1>4, <2>1, <2>2, SMTT(30) DEF Certain
<1>9. KnowsKey(m)
      BY <1>4 DEF KnowsKey
<1>10. QED
      BY <1>1, <1>4, <1>5, <1>7, <1>8, <1>9, KeepKey DEF Told

\* OnLost runs.
LEMMA LostStep ==
  ASSUME ObjectsOK, NEW n \in Node, Lost(n)
  PROVE  Kept
<1>1. key.rev # n /\ key' = key /\ faults' \in 0..MaxFaults /\ node[n].state = "candidate"
      BY OneMember DEF Lost, KnowsKey, MemberOK
<1>2. CASE node[n].pc = "onLost"
  <2> DEFINE r == Rest(node[n])
             m == [r EXCEPT !.leader = FALSE]
  <2>1. /\ r \in Member /\ r.pc = "sleep" /\ r.state = "candidate" /\ r.bo = node[n].bo
        /\ r.tries = node[n].tries
        /\ r.ticker = IF node[n].bo = <<>> THEN node[n].ticker ELSE Interval(node[n])
        BY <1>1, OneMember, RestOK, SMTT(30) DEF MemberOK
  <2> HIDE DEF r
  <2>2. /\ m \in Member /\ m.pc = "sleep" /\ m.state = "candidate" /\ m.bo = node[n].bo
        /\ ~m.leader /\ m.tries = node[n].tries /\ m.ticker = r.ticker
        BY <2>1, ZenonT(30) DEF Member
  <2>3. SetMember(n, m)
        BY <1>2 DEF Lost, r
  <2> HIDE DEF m
  <2>4. MemberOK(m)
        BY <2>1, <2>2, OneMember DEF MemberOK
  <2>5. QED
        BY <1>1, <2>2, <2>3, <2>4, KeepKey, SMTT(30)
<1>3. CASE node[n].pc = "shutdownLost"
  <2> DEFINE m == [node[n] EXCEPT !.pc = "stopped", !.leader = FALSE]
  <2>1. /\ m \in Member /\ m.pc = "stopped" /\ m.state = "candidate" /\ m.bo = node[n].bo
        /\ ~m.leader /\ m.tries = node[n].tries /\ m.ticker = node[n].ticker
        BY <1>1, OneMember, ZenonT(30) DEF Member, PC
  <2>2. SetMember(n, m)
        BY <1>3 DEF Lost
  <2> HIDE DEF m
  <2>3. MemberOK(m)
        BY <2>1, OneMember DEF MemberOK
  <2>4. QED
        BY <1>1, <2>1, <2>2, <2>3, KeepKey
<1>4. QED
      BY <1>2, <1>3 DEF Lost

\* The context is cancelled.
LEMMA StopStep ==
  ASSUME ObjectsOK, NEW n \in Node, StopElection(n)
  PROVE  Kept
<1> DEFINE m == [node[n] EXCEPT !.cancelled = TRUE]
<1>1. /\ m \in Member /\ m.cancelled
      /\ m.pc = node[n].pc /\ m.state = node[n].state /\ m.bo = node[n].bo
      /\ m.notifyNext <=> node[n].notifyNext
      /\ m.leader <=> node[n].leader
      /\ m.tries = node[n].tries /\ m.ticker = node[n].ticker /\ m.lost = node[n].lost
      /\ m.wait = node[n].wait
      BY OneMember, ZenonT(30) DEF Member
<1>2. SetMember(n, m) /\ key' = key /\ faults' \in 0..MaxFaults
      BY OneMember, ElectionAssumption, SMTT(30) DEF StopElection, Fault
<1> HIDE DEF m
<1>3. First(m) = First(node[n])
      BY <1>1, SMTT(30) DEF First
<1>4. MemberOK(m)
      BY <1>1, <1>3, OneMember DEF MemberOK
<1>5. Certain(m) <= Certain(node[n])
      BY <1>1, OneMember, SMTT(30) DEF Certain
<1>6. key.rev = n => KnowsKey(m)
      BY <1>1, OneMember DEF KnowsKey
<1>7. m.ticker \in Nat
      BY <1>1 DEF Member
<1>8. QED
      BY <1>1, <1>2, <1>4, <1>5, <1>6, <1>7, KeepKey DEF Told

\* The member that stops or crashes forgets what it knew of the key.
LEMMA ForgetStep ==
  ASSUME ObjectsOK, NEW n \in Node, NEW m \in Member, SetMember(n, m), Forget(n),
         faults' \in 0..MaxFaults, MemberOK(m), m.bo = node[n].bo,
         m.leader \/ m.pc = "onWon" => Told(n) /\ Certain(m) = 0
  PROVE  Kept
<1>1. m.leader \/ m.pc = "onWon" => Certain(m) <= Certain(node[n])
      BY OneMember
<1>2. CASE key.rev = n
  <2>1. key' = [key EXCEPT !.rev = Unknown]
        BY <1>2 DEF Forget
  <2>2. key' \in Key /\ key'.rev = Unknown /\ key'.age = key.age
        BY <2>1, OneMember DEF Key
  <2>3. QED
        BY <1>1, <1>2, <2>2, LoseKey
<1>3. CASE key.rev # n
  <2>1. key' = key
        BY <1>3 DEF Forget
  <2>2. QED
        BY <1>1, <1>3, <2>1, KeepKey
<1>4. QED
      BY <1>2, <1>3

\* campaign returns.
LEMMA ShutdownStep ==
  ASSUME ObjectsOK, NEW n \in Node, Shutdown(n)
  PROVE  Kept
<1> DEFINE wasLeader == node[n].state = "leader" /\ ~node[n].notifyNext
           m == [node[n] EXCEPT !.pc = IF wasLeader THEN "shutdownLost" ELSE "stopped",
                                !.state = "candidate"]
<1>1. node[n].cancelled /\ (node[n].leader <=> wasLeader)
      BY OneMember DEF Shutdown, MemberOK
<1>2. /\ m \in Member /\ m.cancelled
      /\ m.pc = IF wasLeader THEN "shutdownLost" ELSE "stopped"
      /\ m.state = "candidate" /\ m.bo = node[n].bo
      /\ m.leader <=> wasLeader
      /\ m.tries = node[n].tries /\ m.ticker = node[n].ticker
      BY <1>1, OneMember, ZenonT(30) DEF Member, PC
<1>3. SetMember(n, m) /\ Forget(n) /\ faults' \in 0..MaxFaults
      BY OneMember DEF Shutdown, NoFault
<1> HIDE DEF m
<1>4. MemberOK(m)
      BY <1>2, OneMember DEF MemberOK
<1>5. Certain(m) = 0
      BY <1>2 DEF Certain
<1>6. QED
      BY <1>1, <1>2, <1>3, <1>4, <1>5, ForgetStep DEF Told

\* The process dies.
LEMMA CrashStep ==
  ASSUME ObjectsOK, NEW n \in Node, CrashMember(n)
  PROVE  Kept
<1> DEFINE m == NewMember(node[n].bo)
<1>1. node[n].bo \in Backoffs /\ node[n].bo \in Seq(Nat \ {0})
      BY OneMember, ElectionAssumption DEF Member
<1>2. /\ m \in Member /\ m.pc = "stopped" /\ ~m.leader /\ m.bo = node[n].bo
      /\ m.state = "unknown" /\ m.tries = 0 /\ m.ticker = 0
      BY <1>1, Bounds DEF Member, NewMember, PC
<1>3. SetMember(n, m) /\ Forget(n) /\ faults' \in 0..MaxFaults
      BY OneMember, ElectionAssumption DEF CrashMember, Fault
<1> HIDE DEF m
<1>4. MemberOK(m)
      BY <1>1, <1>2, CampaignInterval DEF MemberOK
<1>5. QED
      BY <1>2, <1>3, <1>4, ForgetStep

\* A lost request, or a lost answer.
LEMMA LoseMessageStep ==
  ASSUME ObjectsOK, NEW n \in Node, LoseMessage(n)
  PROVE  Kept
<1> DEFINE l == node[n].lost + 1
           m == [node[n] EXCEPT !.pc = "wait", !.wait = Timeout, !.lost = l]
<1>1. l \in 0..MaxLost /\ l > 0 /\ (Paced => node[n].lost = 0)
  <2>1. node[n].lost \in 0..MaxLost /\ node[n].lost < MaxLost
        BY OneMember DEF LoseMessage, Member
  <2>2. (Paced => MaxLost <= 1) /\ MaxLost \in Nat
        BY ElectionAssumption DEF Paced
  <2>3. QED
        BY <2>1, <2>2
<1>2. SetMember(n, m) /\ faults' \in 0..MaxFaults
      BY OneMember, ElectionAssumption, SMTT(30) DEF LoseMessage, Fault
<1> HIDE DEF l
<1>3. /\ m \in Member /\ m.pc = "wait" /\ m.wait = Timeout /\ m.lost = l
      /\ m.state = node[n].state /\ m.bo = node[n].bo
      /\ m.notifyNext <=> node[n].notifyNext
      /\ m.cancelled <=> node[n].cancelled
      /\ m.leader <=> node[n].leader
      /\ m.tries = node[n].tries /\ m.ticker = node[n].ticker
      BY <1>1, OneMember, Bounds, ZenonT(30) DEF Member, PC
<1>4. node[n].pc = "try" /\ ~node[n].cancelled
      BY DEF LoseMessage
<1> HIDE DEF m
<1>5. MemberOK(m)
      BY <1>1, <1>3, <1>4, OneMember, CampaignInterval DEF MemberOK
<1>6. ASSUME Paced
      PROVE  Certain(m) <= Certain(node[n])
  <2>1. Certain(node[n]) = First(node[n]) + Slack(node[n])
        BY <1>1, <1>4, <1>6 DEF Certain, Spare
  <2>2. m.bo = <<>> => Certain(m) = First(m) /\ First(m) = cInterval
        BY <1>3, <1>4, OneMember, ZenonT(30) DEF Certain, First, MemberOK
  <2>3. m.bo # <<>> => Certain(m) = Timeout + First(m) /\ Slack(m) = Timeout
        BY <1>3, <1>4 DEF Certain, Slack
  <2>4. First(m) = First(node[n]) /\ Slack(m) = Slack(node[n])
        BY <1>3 DEF First, Slack
  <2>5. QED
        BY <2>1, <2>2, <2>3, <2>4, OneMember, ElectionAssumption, SMTT(30)
<1>7. m.leader \/ m.pc = "onWon" => Told(n) /\ (Paced => Certain(m) <= Certain(node[n]))
      BY <1>3, <1>6 DEF Told
<1>8. CASE key' = key
  <2>1. key.rev = n => KnowsKey(m)
        BY <1>3, OneMember DEF KnowsKey
  <2>2. QED
        BY <1>2, <1>3, <1>4, <1>5, <1>7, <1>8, <2>1, KeepKey
<1>9. CASE WriteKey(Unknown)
  <2>1. key' \in Key /\ key'.rev = Unknown /\ key'.age = 0
        BY <1>9, ElectionAssumption DEF WriteKey, Key
  <2>2. QED
        BY <1>2, <1>3, <1>5, <1>7, <2>1, LoseKey
<1>10. QED
      BY <1>8, <1>9 DEF LoseMessage

\* A request that fails.
LEMMA RequestFailsStep ==
  ASSUME ObjectsOK, NEW n \in Node, RequestFails(n)
  PROVE  Kept
<1>1. Forget(n) /\ faults' \in 0..MaxFaults
      BY OneMember, ElectionAssumption, SMTT(30) DEF RequestFails, Fault
<1>2. CASE node[n].state = "leader"
  <2> DEFINE m == SteppedDown(node[n])
  <2>1. /\ m \in Member /\ MemberOK(m) /\ m.bo = node[n].bo /\ m.pc # "onWon"
        /\ m.leader <=> node[n].leader
        /\ m.leader => Certain(m) = 0
        BY <1>2, OneMember, SteppedDownFields DEF RequestFails
  <2>2. SetMember(n, m)
        BY <1>2 DEF RequestFails
  <2> HIDE DEF m
  <2>3. QED
        BY <1>1, <2>1, <2>2, ForgetStep DEF Told
<1>3. CASE node[n].state = "candidate"
  <2> DEFINE f == Failed(node[n])
             b == [f EXCEPT !.lost = 0]
             m == Rest(b)
  <2>1. /\ f \in Member /\ f.bo = node[n].bo /\ f.state = "candidate"
        /\ ~f.leader /\ f.ticker = node[n].ticker
        /\ f.bo # <<>> => f.tries < Len(f.bo)
        BY <1>3, OneMember, FailedFields, SMTT(30) DEF RequestFails, MemberOK
  <2> HIDE DEF f
  <2>2. /\ b \in Member /\ b.bo = f.bo /\ b.state = f.state /\ b.tries = f.tries /\ b.ticker = f.ticker
        /\ b.leader <=> f.leader
        BY <2>1, Bounds DEF Member
  <2>3. b.bo = <<>> => b.ticker <= cInterval
        BY <2>1, <2>2, OneMember DEF MemberOK
  <2>4. SetMember(n, m)
        BY <1>3 DEF RequestFails, f
  <2> HIDE DEF b
  <2>5. m \in Member /\ MemberOK(m) /\ m.bo = node[n].bo /\ ~m.leader /\ m.pc = "sleep"
        BY <2>1, <2>2, <2>3, RestOK
  <2> HIDE DEF m
  <2>6. QED
        BY <1>1, <2>4, <2>5, ForgetStep
<1>4. QED
      BY <1>2, <1>3 DEF RequestFails

\* Something else writes the key.
LEMMA OverwriteStep ==
  ASSUME ObjectsOK, Overwrite
  PROVE  Kept
<1>1. key' \in Key /\ key'.rev = Unknown /\ key'.age = 0
      BY ElectionAssumption DEF Overwrite, WriteKey, Key
<1>2. faults' \in 0..MaxFaults /\ node' = node
      BY ElectionAssumption DEF Overwrite, Fault, ObjectsOK, TypeOK
<1>3. CASE Node = {}
      BY <1>1, <1>2, <1>3 DEF Kept, ToldApart, ObjectsOK, TypeOK
<1>4. CASE Node # {}
  <2>1. PICK n \in Node : TRUE
        BY <1>4
  <2>2. node[n] \in Member /\ MemberOK(node[n]) /\ Certain(node[n]) \in Nat
        BY OneMember
  <2>3. SetMember(n, node[n])
        BY <1>2 DEF SetMember, ObjectsOK, TypeOK
  <2>4. QED
        BY <1>1, <1>2, <2>2, <2>3, LoseKey DEF Told
<1>5. QED
      BY <1>3, <1>4

\* Something else deletes the key, of nobody who was told that it leads.
LEMMA DeleteKeyStep ==
  ASSUME ObjectsOK, DeleteKey
  PROVE  Kept
<1>1. key' = [rev |-> Absent, age |-> 0] /\ node' = node
      BY DEF DeleteKey, WriteKey
<1>2. TypeOK'
      BY <1>1, ElectionAssumption DEF DeleteKey, Fault, ObjectsOK, TypeOK, Key
<1>3. \A k \in Node : key'.rev # k
      BY <1>1, ElectionAssumption DEF Absent
<1>4. ObjectsOK'
      BY <1>1, <1>2, <1>3 DEF ObjectsOK
<1>5. Paced => \A k \in Node : ~Told(k)
      BY DEF DeleteKey, Paced
<1>6. \A k \in Node : Told(k)' <=> Told(k)
      BY <1>1 DEF Told
<1>7. QED
      BY <1>1, <1>4, <1>5, <1>6 DEF Kept, ToldApart

\* A campaign that is won: whoever was told that it leads will have learned
\* that it does not before the winner updates its record for the first time.
LEMMA CampaignWinsStep ==
  ASSUME ObjectsOK, NEW n \in Node, Campaign(n), key.rev = Absent
  PROVE  Kept
<1> DEFINE b == [node[n] EXCEPT !.state = "leader", !.tries = 0, !.notifyNext = TRUE, !.lost = 0]
           m == Rest(b)
<1>1. node[n].pc = "try" /\ ~node[n].leader /\ (node[n].bo = <<>> => node[n].ticker = cInterval)
      BY OneMember DEF Campaign, MemberOK
<1>2. /\ b \in Member /\ b.bo = node[n].bo /\ b.state = "leader" /\ b.tries = 0 /\ b.notifyNext
      /\ b.ticker = node[n].ticker /\ ~b.leader
      BY <1>1, OneMember, Bounds, ZenonT(30) DEF Member
<1>3. (b.bo # <<>> => b.tries < Len(b.bo)) /\ (b.bo = <<>> => b.ticker <= cInterval)
  <2>1. node[n].bo \in Seq(Nat \ {0})
        BY OneMember, ElectionAssumption DEF Member
  <2>2. node[n].bo # <<>> => 0 < Len(node[n].bo)
        BY <2>1
  <2> HIDE DEF b
  <2>3. QED
        BY <1>1, <1>2, <2>2, CampaignInterval
<1>4. SetMember(n, m) /\ key' = [rev |-> n, age |-> 0] /\ faults' = faults
      BY ElectionAssumption DEF Campaign, NoFault, WriteKey
<1> HIDE DEF b
<1>5. First(b) = First(node[n])
      BY <1>2 DEF First
<1>6. /\ m \in Member /\ MemberOK(m) /\ m.bo = node[n].bo /\ ~m.leader /\ m.pc = "sleep"
      /\ m.state = "leader" /\ m.notifyNext
      BY <1>2, <1>3, RestOK
<1>7. m.ticker = First(node[n])
      BY <1>1, <1>2, <1>3, <1>5, RestOK, Times, SMTT(30)
<1> HIDE DEF m
<1>8. /\ node' \in [Node -> Member]
      /\ node'[n] = m
      /\ \A k \in Node \ {n} : node'[k] = node[k]
      BY <1>4, <1>6, Sets DEF ObjectsOK
<1>9. TypeOK'
      BY <1>4, <1>8, ElectionAssumption DEF ObjectsOK, TypeOK, Key
<1>10. (\A k \in Node : MemberOK(node[k]) /\ (key.rev = k => KnowsKey(node[k])))'
      BY <1>4, <1>6, <1>8 DEF ObjectsOK, KnowsKey
<1>11. ObjectsOK'
      BY <1>9, <1>10 DEF ObjectsOK
<1>. SUFFICES ASSUME ToldApart
              PROVE  ToldApart'
      BY <1>11 DEF Kept
<1>12. (\A k, j \in Node : node[k].bo = node[j].bo)'
      BY <1>6, <1>8 DEF ToldApart
<1>13. \A k \in Node : Told(k)' => k # n /\ Told(k)
      BY <1>6, <1>8, SMTT(30) DEF Told
<1>14. ASSUME NEW k \in Node, Told(k)'
       PROVE  KeyInv(k)'
  <2>1. Told(k) /\ k # n /\ KeyInv(k) /\ node'[k] = node[k]
        BY <1>8, <1>13, <1>14, SMTT(30) DEF ToldApart
  <2>2. First(node[k]) = First(node[n])
        BY DEF First, ToldApart
  <2>3. Certain(node[k]) < m.ticker /\ Certain(node[k]) <= 2 * First(node[k]) + Slack(node[k])
        BY <1>7, <2>1, <2>2 DEF KeyInv
  <2>4. key'.rev = n /\ n # Absent /\ n # Unknown
        BY <1>4, ElectionAssumption DEF Absent, Unknown
  <2>5. QED
        BY <1>6, <1>8, <2>1, <2>3, <2>4 DEF KeyInv
<1>15. \A k, j \in Node : Told(k)' /\ Told(j)' => k = j
      BY <1>13 DEF ToldApart
<1>16. QED
      BY <1>12, <1>14, <1>15, <1>11 DEF ToldApart

\* A record that is updated: nobody else can have been told that it leads.
LEMMA RefreshStep ==
  ASSUME ObjectsOK, NEW n \in Node, Refresh(n)
  PROVE  Kept
<1> DEFINE b == [node[n] EXCEPT !.lost = 0]
           w == [node[n] EXCEPT !.pc = "onWon", !.notifyNext = FALSE, !.lost = 0]
           m == IF node[n].notifyNext THEN w ELSE Rest(b)
<1>1. /\ node[n].pc = "try" /\ node[n].state = "leader" /\ ~node[n].cancelled /\ key.rev = n
      /\ node[n].bo = <<>> => node[n].ticker = cInterval
      /\ node[n].bo # <<>> => node[n].tries < Len(node[n].bo)
      /\ node[n].tries = 0
      /\ node[n].leader <=> ~node[n].notifyNext
      BY OneMember DEF Refresh, MemberOK
<1>2. SetMember(n, m) /\ key' = [rev |-> n, age |-> 0] /\ faults' = faults
      BY DEF Refresh, NoFault, WriteKey
<1>3. /\ b \in Member /\ b.bo = node[n].bo /\ b.state = "leader" /\ b.tries = 0
      /\ b.ticker = node[n].ticker /\ ~b.cancelled /\ b.lost = 0
      /\ b.leader <=> node[n].leader
      /\ b.notifyNext <=> node[n].notifyNext
      BY <1>1, OneMember, Bounds, SMTT(30) DEF Member
<1>4. /\ w \in Member /\ w.bo = node[n].bo /\ w.state = "leader" /\ w.tries = 0 /\ w.pc = "onWon"
      /\ w.ticker = node[n].ticker /\ ~w.cancelled /\ w.lost = 0 /\ ~w.notifyNext
      /\ w.leader <=> node[n].leader
  <2>1. w \in Member
        BY OneMember, Bounds, ZenonT(30) DEF Member, PC
  <2>2. QED
        BY <1>1, <2>1, OneMember DEF Member
<1>5. cInterval \in Nat
      BY CampaignInterval
<1> HIDE DEF b, w
<1>6. /\ First(b) = First(node[n]) /\ First(w) = First(node[n])
      /\ Slack(b) = Slack(node[n]) /\ Slack(w) = Slack(node[n])
      BY <1>3, <1>4 DEF First, Slack
<1>7. /\ m \in Member /\ MemberOK(m) /\ m.bo = node[n].bo /\ m.state = "leader"
      /\ m.pc \in {"sleep", "onWon"}
  <2>1. CASE node[n].notifyNext
    <3>1. MemberOK(w)
          BY <1>1, <1>4, <1>5, <2>1, SMTT(30) DEF MemberOK
    <3>2. QED
          BY <1>4, <2>1, <3>1
  <2>2. CASE ~node[n].notifyNext
        BY <1>1, <1>3, <1>5, <2>2, RestOK
  <2>3. QED
        BY <2>1, <2>2, SMTT(30)
<1>8. Certain(m) <= 2 * First(node[n]) + Slack(node[n])
  <2>1. CASE node[n].notifyNext
    <3>1. Spare(w) = First(w) + Slack(w)
          BY <1>4 DEF Spare
    <3>2. Certain(w) = First(w) + Spare(w)
          BY <1>4, SMTT(30) DEF Certain
    <3>3. QED
          BY <1>6, <2>1, <3>1, <3>2, OneMember
  <2>2. CASE ~node[n].notifyNext
    <3>1. /\ Rest(b).pc = "sleep" /\ ~Rest(b).cancelled /\ Rest(b).lost = 0
          /\ Rest(b).ticker <= First(b) /\ Rest(b).bo = b.bo /\ Rest(b).ticker \in Nat
          BY <1>1, <1>3, <1>5, RestOK DEF Member
    <3>2. Certain(Rest(b)) = Rest(b).ticker + Spare(Rest(b))
          BY <3>1 DEF Certain
    <3>3. Spare(Rest(b)) = First(b) + Slack(b)
          BY <3>1 DEF Spare, First, Slack
    <3>4. QED
          BY <1>6, <2>2, <3>1, <3>2, <3>3, OneMember, SMTT(30)
  <2>3. QED
        BY <2>1, <2>2
<1>9. First(m) = First(node[n]) /\ Slack(m) = Slack(node[n])
      BY <1>7 DEF First, Slack
<1> HIDE DEF m
<1>10. /\ node' \in [Node -> Member]
      /\ node'[n] = m
      /\ \A k \in Node \ {n} : node'[k] = node[k]
      BY <1>2, <1>7, Sets DEF ObjectsOK
<1>11. TypeOK'
      BY <1>2, <1>10, ElectionAssumption DEF ObjectsOK, TypeOK, Key
<1>12. (\A k \in Node : MemberOK(node[k]) /\ (key.rev = k => KnowsKey(node[k])))'
      BY <1>2, <1>7, <1>10 DEF ObjectsOK, KnowsKey
<1>13. ObjectsOK'
      BY <1>11, <1>12 DEF ObjectsOK
<1>. SUFFICES ASSUME ToldApart
              PROVE  ToldApart'
      BY <1>13 DEF Kept
<1>14. (\A k, j \in Node : node[k].bo = node[j].bo)'
      BY <1>7, <1>10 DEF ToldApart
<1>15. \A k \in Node : Told(k)' => k = n
  <2>1. SUFFICES ASSUME NEW k \in Node \ {n}, Told(k)'
                 PROVE  FALSE
        OBVIOUS
  <2>2. KeyInv(k)
        BY <1>10, <2>1 DEF Told, ToldApart
  <2>3. QED
        BY <1>1, <2>2 DEF KeyInv
<1>16. KeyInv(n)'
  <2>1. Certain(m) \in Nat /\ First(node[n]) \in Nat /\ Slack(node[n]) \in Nat
        BY <1>7, CertainNat, OneMember
  <2>2. key'.rev = n /\ key'.age = 0 /\ n # Absent /\ n # Unknown
        BY <1>2, ElectionAssumption DEF Absent, Unknown
  <2>3. QED
        BY <1>8, <1>9, <1>10, <2>1, <2>2 DEF KeyInv
<1>17. QED
      BY <1>14, <1>15, <1>16, <1>13 DEF ToldApart

\* The record expires: a member that was told it leads finds out within its
\* first interval.
LEMMA ExpireStep ==
  ASSUME ObjectsOK, Expire
  PROVE  Kept
<1>1. key' = [rev |-> Absent, age |-> 0] /\ node' = node /\ faults' = faults /\ key.age = TTL
      /\ key.rev # Absent
      BY DEF Expire, WriteKey
<1>2. TypeOK'
      BY <1>1, ElectionAssumption DEF ObjectsOK, TypeOK, Key
<1>3. \A k \in Node : key'.rev # k
      BY <1>1, ElectionAssumption DEF Absent
<1>4. ObjectsOK'
      BY <1>1, <1>2, <1>3 DEF ObjectsOK
<1>. SUFFICES ASSUME Paced, ToldApart
              PROVE  ToldApart'
      BY <1>4 DEF Kept
<1>5. \A k \in Node : Told(k)' <=> Told(k)
      BY <1>1, SMTT(30) DEF Told
<1>6. ASSUME NEW k \in Node, Told(k)
      PROVE  KeyInv(k)'
  <2>1. KeyInv(k)
        BY <1>6 DEF ToldApart
  <2>2. Certain(node[k]) \in Nat /\ First(node[k]) \in Nat /\ Slack(node[k]) \in Nat /\ TTL \in Nat
        /\ First(node[k]) + Slack(node[k]) < TTL
        BY OneMember, Pace, ElectionAssumption
  <2>3. Certain(node[k]) < First(node[k])
    <3>1. CASE key.rev = k
          BY <1>1, <2>1, <2>2, <3>1 DEF KeyInv
    <3>2. CASE key.rev = Unknown
          BY <1>1, <2>1, <2>2, <3>2 DEF KeyInv
    <3>3. ASSUME NEW j \in Node \ {k}, key.rev = j
          PROVE  Certain(node[k]) < First(node[k])
      <4>1. node[j].pc = "sleep" /\ Certain(node[k]) < node[j].ticker
            BY <2>1, <3>3, SMTT(30) DEF KeyInv
      <4>2. node[j].ticker \in Nat /\ node[j].ticker <= First(node[j])
            BY <3>3, <4>1, OneMember, SMTT(30) DEF KnowsKey, MemberOK, Member
      <4>3. First(node[j]) = First(node[k])
            BY DEF First, ToldApart
      <4>4. QED
            BY <2>2, <4>1, <4>2, <4>3
    <3>4. QED
          BY <1>1, <3>1, <3>2, <3>3 DEF ObjectsOK, TypeOK, Key
  <2>4. key'.rev = Absent /\ Absent # Unknown
        BY <1>1 DEF Absent, Unknown
  <2>5. QED
        BY <1>1, <1>3, <2>1, <2>3, <2>4 DEF KeyInv
<1>7. QED
      BY <1>1, <1>4, <1>5, <1>6 DEF ToldApart

\* Time passes: the record ages as fast as a member that was told it leads
\* gets certain.
LEMMA PassStep ==
  ASSUME ObjectsOK, Pass
  PROVE  Kept
<1> DEFINE Later(k) == [node[k] EXCEPT !.ticker = Less(node[k].ticker), !.wait = Less(node[k].wait)]
<1>1. node' = [k \in Node |-> Later(k)] /\ faults' = faults
      BY ZenonT(30) DEF Pass, NoFault
<1>2. ASSUME NEW k \in Node
      PROVE  /\ node'[k] \in Member /\ node'[k].pc = node[k].pc /\ node'[k].state = node[k].state
             /\ node'[k].bo = node[k].bo /\ node'[k].tries = node[k].tries
             /\ node'[k].lost = node[k].lost
             /\ node'[k].leader <=> node[k].leader
             /\ node'[k].notifyNext <=> node[k].notifyNext
             /\ node'[k].cancelled <=> node[k].cancelled
             /\ node'[k].ticker = Less(node[k].ticker) /\ node'[k].wait = Less(node[k].wait)
             /\ node[k].ticker \in Nat /\ node[k].wait \in Nat
             /\ Less(node[k].ticker) \in Nat /\ Less(node[k].wait) \in Nat
  <2>1. node[k] \in Member /\ node[k].ticker \in Nat /\ node[k].wait \in 0..Timeout /\ Timeout \in Nat
        BY OneMember, ElectionAssumption, SMTT(30) DEF Member
  <2>2. Less(node[k].ticker) \in Nat /\ Less(node[k].wait) \in 0..Timeout
        BY <2>1 DEF Less
  <2>3. node'[k] = Later(k)
        BY <1>1, ZenonT(30)
  <2>4. /\ Later(k) \in Member /\ Later(k).pc = node[k].pc /\ Later(k).state = node[k].state
        /\ Later(k).bo = node[k].bo /\ Later(k).tries = node[k].tries
        /\ Later(k).lost = node[k].lost
        BY <2>1, <2>2, ZenonT(30) DEF Member
  <2>5. /\ Later(k).leader <=> node[k].leader
        /\ Later(k).notifyNext <=> node[k].notifyNext
        /\ Later(k).cancelled <=> node[k].cancelled
        /\ Later(k).ticker = Less(node[k].ticker) /\ Later(k).wait = Less(node[k].wait)
        BY <2>1 DEF Member
  <2> HIDE DEF Later
  <2>6. QED
        BY <2>1, <2>2, <2>3, <2>4, <2>5
<1> HIDE DEF Later
<1>3. \A k \in Node : First(node'[k]) = First(node[k]) /\ Slack(node'[k]) = Slack(node[k])
                     /\ Spare(node'[k]) = Spare(node[k])
      BY <1>2 DEF First, Slack, Spare
<1>4. ASSUME NEW k \in Node
      PROVE  MemberOK(node'[k])
  <2>1. node[k].pc \in {"stopped", "splay", "sleep", "wait"}
        BY ZenonT(30) DEF Pass, Idle
  <2>2. /\ node[k].ticker \in Nat /\ node[k].wait \in Nat
        /\ node'[k].ticker = Less(node[k].ticker) /\ node'[k].wait = Less(node[k].wait)
        BY <1>2
  <2>3. /\ node'[k].ticker <= node[k].ticker
        /\ node[k].wait <= node[k].ticker => node'[k].wait <= node'[k].ticker
        /\ node'[k].ticker \in Nat
        BY <2>2 DEF Less
  <2>4. First(node[k]) \in Nat /\ cInterval \in Nat /\ MemberOK(node[k])
        BY OneMember, CampaignInterval
  <2>5. /\ node'[k].pc = node[k].pc /\ node'[k].state = node[k].state /\ node'[k].bo = node[k].bo
        /\ node'[k].tries = node[k].tries /\ node'[k].lost = node[k].lost
        /\ (node'[k].leader <=> node[k].leader) /\ (node'[k].notifyNext <=> node[k].notifyNext)
        BY <1>2, SMTT(30)
  <2>6. /\ node'[k].bo # <<>> => node'[k].tries < Len(node'[k].bo)
        /\ node'[k].bo = <<>> => node'[k].ticker <= cInterval
        BY <2>2, <2>3, <2>4, <2>5, SMTT(30) DEF MemberOK
  <2>7. node'[k].state = "leader" =>
          node'[k].tries = 0 /\ (node'[k].pc = "sleep" => node'[k].ticker <= First(node'[k]))
        BY <1>3, <2>2, <2>3, <2>4, <2>5, SMTT(30) DEF MemberOK
  <2>8. node'[k].pc = "wait" =>
          node'[k].lost > 0 /\ (node'[k].bo = <<>> => node'[k].wait <= node'[k].ticker)
        BY <2>3, <2>4, <2>5, SMTT(30) DEF MemberOK
  <2>9. /\ node'[k].pc \in {"sleep", "wait", "try"} =>
             (node'[k].leader <=> node'[k].state = "leader" /\ ~node'[k].notifyNext)
        /\ node'[k].pc \in {"stopped", "splay", "onWon"} => ~node'[k].leader
        /\ node'[k].pc \in {"splay", "onLost", "shutdownLost"} => node'[k].state = "candidate"
        BY <2>4, <2>5 DEF MemberOK
  <2>10. QED
        BY <2>1, <2>5, <2>6, <2>7, <2>8, <2>9 DEF MemberOK
<1>5. ASSUME NEW k \in Node, Told(k)
      PROVE  Certain(node'[k]) + 1 = Certain(node[k]) /\ Certain(node'[k]) \in Nat
  <2>1. /\ node[k].pc \in {"sleep", "wait"} /\ ~node[k].cancelled
        /\ node[k].pc = "sleep" => node[k].ticker > 0
        /\ node[k].pc = "wait" => node[k].wait > 0 /\ (node[k].bo = <<>> => node[k].wait <= node[k].ticker)
        BY <1>5, OneMember, ZenonT(30) DEF Told, Pass, Idle, MemberOK
  <2>2. Spare(node[k]) \in Nat /\ First(node[k]) \in Nat
        BY OneMember
  <2>3. Certain(node'[k]) \in Nat
        BY <1>2, <1>4, CertainNat, SMTT(30)
  <2>4. CASE node[k].pc = "sleep"
    <3>1. Certain(node[k]) = node[k].ticker + Spare(node[k])
          BY <2>1, <2>4 DEF Certain
    <3>2. Certain(node'[k]) = Less(node[k].ticker) + Spare(node[k])
          BY <1>2, <1>3, <2>1, <2>4 DEF Certain
    <3>3. QED
          BY <1>2, <2>1, <2>2, <2>3, <2>4, <3>1, <3>2 DEF Less
  <2>5. CASE node[k].pc = "wait"
    <3>1. Certain(node[k]) = IF node[k].bo = <<>> THEN node[k].ticker ELSE node[k].wait + First(node[k])
          BY <2>1, <2>5 DEF Certain
    <3>2. Certain(node'[k]) = IF node[k].bo = <<>> THEN Less(node[k].ticker)
                              ELSE Less(node[k].wait) + First(node[k])
          BY <1>2, <1>3, <2>1, <2>5 DEF Certain
    <3>3. node[k].ticker \in Nat /\ node[k].wait \in Nat
          BY <1>2
    <3>4. QED
          BY <2>1, <2>2, <2>3, <2>5, <3>1, <3>2, <3>3, SMTT(30) DEF Less
  <2>6. QED
        BY <2>1, <2>3, <2>4, <2>5, SMTT(30)
<1>6. /\ key' \in Key /\ key'.rev = key.rev /\ key.age \in Nat
      /\ key.rev # Absent => key'.age = key.age + 1
  <2>1. key \in Key /\ TTL \in Nat
        BY ElectionAssumption, SMTT(30) DEF ObjectsOK, TypeOK
  <2>2. key' = [key EXCEPT !.age = IF key.rev = Absent THEN 0 ELSE key.age + 1]
        /\ (key.rev # Absent => key.age < TTL)
        BY ZenonT(30) DEF Pass
  <2>3. (IF key.rev = Absent THEN 0 ELSE key.age + 1) \in 0..TTL /\ key.age \in Nat
        BY <2>1, <2>2 DEF Key
  <2>4. QED
        BY <2>1, <2>2, <2>3 DEF Key
<1>7. TypeOK'
      BY <1>1, <1>2, <1>6, SMTT(30) DEF ObjectsOK, TypeOK
<1>8. (\A k \in Node : key.rev = k => KnowsKey(node[k]))'
      BY <1>2, <1>6, SMTT(30) DEF ObjectsOK, KnowsKey
<1>9. ObjectsOK'
      BY <1>4, <1>7, <1>8 DEF ObjectsOK
<1>. SUFFICES ASSUME ToldApart
              PROVE  ToldApart'
      BY <1>9 DEF Kept
<1>10. \A k \in Node : Told(k)' <=> Told(k)
      BY <1>2, SMTT(30) DEF Told
<1>11. ASSUME NEW k \in Node, Told(k)
       PROVE  KeyInv(k)'
  <2>1. KeyInv(k)
        BY <1>11 DEF ToldApart
  <2>2. First(node[k]) \in Nat /\ Slack(node[k]) \in Nat /\ TTL \in Nat
        BY OneMember, ElectionAssumption
  <2>3. Certain(node'[k]) + 1 = Certain(node[k]) /\ Certain(node'[k]) \in Nat
        BY <1>5, <1>11
  <2>4. ASSUME NEW j \in Node \ {k}, key.rev = j
        PROVE  node'[j].notifyNext /\ node'[j].pc = "sleep" /\ Certain(node'[k]) < node'[j].ticker
    <3>1. node[j].notifyNext /\ node[j].pc = "sleep" /\ Certain(node[k]) < node[j].ticker
          BY <2>1, <2>4 DEF KeyInv
    <3>2. node[j].ticker \in Nat /\ node'[j].ticker = Less(node[j].ticker)
          BY <1>2
    <3>3. Certain(node'[k]) < node'[j].ticker
          BY <2>3, <3>1, <3>2 DEF Less
    <3>4. QED
          BY <1>2, <3>1, <3>3
  <2>5. key.rev = k => k # Absent
        BY ElectionAssumption DEF Absent
  <2>6. Unknown # Absent
        BY DEF Unknown, Absent
  <2>7. QED
        BY <1>3, <1>6, <2>1, <2>2, <2>3, <2>4, <2>5, <2>6 DEF KeyInv
<1>12. QED
  <2>1. (\A k, j \in Node : node[k].bo = node[j].bo)'
        BY <1>2, SMTT(30) DEF ToldApart
  <2>2. QED
        BY <1>9, <1>10, <1>11, <2>1, SMTT(30) DEF ToldApart

----------------------------------------------------------------------------
LEMMA ToldApartInit ==
  ElectionInit => ToldApart
<1> SUFFICES ASSUME ElectionInit
             PROVE  ToldApart
    OBVIOUS
<1>1. PICK bo \in Backoffs : node = [n \in Node |-> NewMember(bo)]
      BY DEF ElectionInit
<1>2. bo \in Seq(Nat \ {0})
      BY ElectionAssumption
<1>3. NewMember(bo) \in Member /\ MemberOK(NewMember(bo)) /\ ~NewMember(bo).leader
      /\ NewMember(bo).pc = "stopped"
  <2> DEFINE m == NewMember(bo)
  <2>1. /\ m \in Member /\ m.pc = "stopped" /\ ~m.leader /\ m.bo = bo
        /\ m.state = "unknown" /\ m.tries = 0 /\ m.ticker = 0
        BY Bounds DEF Member, NewMember, PC
  <2> HIDE DEF m
  <2>2. MemberOK(m)
        BY <1>2, <2>1, CampaignInterval DEF MemberOK
  <2>3. QED
        BY <2>1, <2>2 DEF m
<1>4. key.rev = Absent /\ key \in Key /\ faults \in 0..MaxFaults
      BY ElectionAssumption DEF ElectionInit, Key
<1>5. \A n \in Node : key.rev # n /\ ~Told(n)
      BY <1>1, <1>3, <1>4, ElectionAssumption DEF Absent, Told
<1>6. QED
      BY <1>1, <1>3, <1>4, <1>5 DEF ToldApart, ObjectsOK, TypeOK

LEMMA KeptStep ==
  ASSUME ObjectsOK, [ElectionNext]_electionVars
  PROVE  Kept
<1>1. CASE UNCHANGED electionVars
  <2>1. key' = key /\ node' = node /\ faults' = faults
        BY <1>1 DEF electionVars
  <2>2. (\A n \in Node : Told(n)' <=> Told(n)) /\ (\A n \in Node : KeyInv(n)' <=> KeyInv(n)) /\ (TypeOK' <=> TypeOK)
        BY <2>1 DEF Told, KeyInv, TypeOK
  <2>3. QED
        BY <2>1, <2>2 DEF Kept, ToldApart, ObjectsOK
<1>2. ASSUME NEW n \in Node, Campaign(n)
      PROVE  Kept
      BY <1>2, CampaignFailsStep, CampaignWinsStep
<1>3. ASSUME NEW n \in Node, CampaignStep(n)
      PROVE  Kept
      BY <1>2, <1>3, BeginStep, TickStep, RefreshStep, StepDownStep, TryCancelledStep,
         GiveUpStep, WonStep, LostStep, ShutdownStep DEF CampaignStep
<1>4. QED
      BY <1>1, <1>3, StartStep, LoseMessageStep, RequestFailsStep, StopStep, CrashStep,
         OverwriteStep, DeleteKeyStep, ExpireStep, PassStep, SMTT(30) DEF ElectionNext

\* The inductive invariant: a member that was told it leads is certain to learn
\* that it lost before the next one is told that it won (election.go, campaign
\* and the delay of the callback).
THEOREM AtMostOneTold ==
  ASSUME Paced
  PROVE  ElectionSpec => []ToldApart
<1>1. ToldApart /\ [ElectionNext]_electionVars => ToldApart'
      BY KeptStep DEF Kept, ToldApart
<1>2. QED
      BY <1>1, ToldApartInit, PTL DEF ElectionSpec

\* At most one member believes it leads.
THEOREM OneLeaderAtATime ==
  ASSUME Paced
  PROVE  ElectionSpec => []OneLeader
<1>1. ToldApart => OneLeader
      BY DEF ToldApart, Told, OneLeader
<1>2. QED
      BY <1>1, AtMostOneTold, PTL

\* The observer and IsLeader agree while the goroutine sleeps, whatever the
\* times and the back-off are, however many messages are lost and whenever the
\* key is deleted: this needs no Paced.
THEOREM ObserverAgrees == ElectionSpec => []CallbacksAgree
<1>1. ASSUME ObjectsOK, NEW n \in Node
      PROVE  /\ node[n].pc \in {"sleep", "wait"} =>
                  node[n].leader = (node[n].state = "leader" /\ ~node[n].notifyNext)
             /\ node[n].pc = "stopped" => ~node[n].leader
  <2>1. node[n].leader \in BOOLEAN
        BY <1>1, OneMember, SMTT(30) DEF Member
  <2>2. node[n].pc \in {"sleep", "wait"} => (node[n].leader <=> node[n].state = "leader" /\ ~node[n].notifyNext)
        BY <1>1, OneMember, SMTT(30) DEF MemberOK
  <2>3. node[n].pc = "stopped" => ~node[n].leader
        BY <1>1, OneMember DEF MemberOK
  <2>4. QED
        BY <2>1, <2>2, <2>3, Zenon
<1>2. ObjectsOK => CallbacksAgree
      BY <1>1 DEF CallbacksAgree
<1>3. ElectionInit => ObjectsOK
      BY ToldApartInit DEF ToldApart
<1>4. ObjectsOK /\ [ElectionNext]_electionVars => ObjectsOK'
      BY KeptStep DEF Kept
<1>5. QED
      BY <1>2, <1>3, <1>4, PTL DEF ElectionSpec

\* What a step does to the set of leaders.
LEMMA SameLeaders ==
  ASSUME TypeOK, NEW n \in Node, NEW m, SetMember(n, m), m.leader <=> node[n].leader
  PROVE  UNCHANGED {k \in Node : node[k].leader}
<1>1. \A k \in Node : node'[k] = IF k = n THEN m ELSE node[k]
      BY DEF TypeOK, SetMember
<1>2. QED
      BY <1>1

LEMMA LeaderGone ==
  ASSUME TypeOK, NEW n \in Node, NEW m, SetMember(n, m), ~m.leader
  PROVE  [Leaders!Next]_{k \in Node : node[k].leader}
<1> DEFINE L == {k \in Node : node[k].leader}
<1>1. \A k \in Node : node'[k] = IF k = n THEN m ELSE node[k]
      BY DEF TypeOK, SetMember
<1>2. L' = L \ {n}
      BY <1>1
<1>3. CASE n \in L
      BY <1>2, <1>3 DEF Leaders!Next, Leaders!Lose
<1>4. CASE n \notin L
      BY <1>2, <1>4
<1>5. QED
      BY <1>3, <1>4

\* The end of a tick and a failed campaign tell the member nothing.
LEMMA NothingTold ==
  ASSUME NEW m \in Member
  PROVE  /\ Rest(m).leader <=> m.leader
         /\ Rest([m EXCEPT !.lost = 0]).leader <=> m.leader
         /\ Rest([m EXCEPT !.wait = 0]).leader <=> m.leader
         /\ Failed(m) \in Member /\ (Failed(m).leader <=> m.leader)
<1>1. \A k \in Member : Rest(k).leader <=> k.leader
      BY DEF Rest, Member
<1>2. [m EXCEPT !.lost = 0] \in Member /\ [m EXCEPT !.wait = 0] \in Member
      BY Bounds DEF Member
<1>3. ([m EXCEPT !.lost = 0].leader <=> m.leader) /\ ([m EXCEPT !.wait = 0].leader <=> m.leader)
      BY DEF Member
<1>4. Failed(m) \in Member /\ (Failed(m).leader <=> m.leader)
      BY SMTT(30) DEF Failed, Member
<1>5. QED
      BY <1>1, <1>2, <1>3, <1>4, ZenonT(30)

LEMMA LeadersStep ==
  ASSUME ToldApart, ElectionNext
  PROVE  [Leaders!Next]_{n \in Node : node[n].leader}
<1> DEFINE L == {n \in Node : node[n].leader}
<1>1. \A n \in Node : node[n] \in Member /\ MemberOK(node[n]) /\ TypeOK
      BY OneMember DEF ToldApart
<1>2. ASSUME NEW n \in Node, Start(n) \/ Begin(n) \/ Tick(n) \/ LoseMessage(n) \/ StopElection(n) \/ Shutdown(n)
      PROVE  L' = L
  <2> DEFINE s == [node[n] EXCEPT !.pc = "splay", !.state = "candidate", !.cancelled = FALSE]
             t == [node[n] EXCEPT !.pc = "try", !.ticker = Interval(node[n])]
             w == [node[n] EXCEPT !.pc = "wait", !.wait = Timeout, !.lost = node[n].lost + 1]
             c == [node[n] EXCEPT !.cancelled = TRUE]
             d(p) == [node[n] EXCEPT !.pc = p, !.state = "candidate"]
  <2>1. /\ s.leader <=> node[n].leader
        /\ t.leader <=> node[n].leader
        /\ w.leader <=> node[n].leader
        /\ c.leader <=> node[n].leader
        /\ \A p : d(p).leader <=> node[n].leader
        BY <1>1, SMTT(30) DEF Member
  <2>2. \/ SetMember(n, s) \/ SetMember(n, t) \/ SetMember(n, w) \/ SetMember(n, c)
        \/ \E p : SetMember(n, d(p))
        BY <1>2, ZenonT(30) DEF Start, Begin, Tick, LoseMessage, StopElection, Shutdown
  <2> HIDE DEF s, t, w, c, d
  <2>3. PICK m : SetMember(n, m) /\ (m.leader <=> node[n].leader)
        BY <2>1, <2>2
  <2>4. QED
        BY <1>1, <2>3, SameLeaders
<1>3. ASSUME NEW n \in Node, TryCancelled(n) \/ GiveUp(n)
      PROVE  L' = L
  <2> DEFINE f == Failed(node[n])
             r == Rest(f)
             g == Rest([f EXCEPT !.wait = 0])
  <2>1. (r.leader <=> node[n].leader) /\ (g.leader <=> node[n].leader)
    <3>1. f \in Member /\ (f.leader <=> node[n].leader)
          BY <1>1, NothingTold, ZenonT(30)
    <3> HIDE DEF f
    <3>2. QED
          BY <3>1, NothingTold, ZenonT(30)
  <2>2. SetMember(n, r) \/ SetMember(n, g)
        BY <1>3 DEF TryCancelled, GiveUp
  <2> HIDE DEF r, g
  <2>3. QED
        BY <1>1, <2>1, <2>2, SameLeaders
<1>4. ASSUME NEW n \in Node, Campaign(n)
      PROVE  L' = L
  <2> DEFINE b == [node[n] EXCEPT !.state = "leader", !.tries = 0, !.notifyNext = TRUE, !.lost = 0]
  <2>1. b \in Member /\ (b.leader <=> node[n].leader)
        BY <1>1, Bounds, ZenonT(30) DEF Member
  <2>2. SetMember(n, Rest(b)) \/ SetMember(n, Rest([Failed(node[n]) EXCEPT !.lost = 0]))
        BY <1>4 DEF Campaign
  <2> HIDE DEF b
  <2>3. PICK m : SetMember(n, m) /\ (m.leader <=> node[n].leader)
        BY <1>1, <2>1, <2>2, NothingTold, ZenonT(30)
  <2>4. QED
        BY <1>1, <2>3, SameLeaders
<1>5. ASSUME NEW n \in Node, Refresh(n)
      PROVE  L' = L
  <2> DEFINE w == [node[n] EXCEPT !.pc = "onWon", !.notifyNext = FALSE, !.lost = 0]
  <2>1. w.leader <=> node[n].leader
        BY <1>1 DEF Member
  <2>2. SetMember(n, w) \/ SetMember(n, Rest([node[n] EXCEPT !.lost = 0]))
        BY <1>5 DEF Refresh
  <2> HIDE DEF w
  <2>3. PICK m : SetMember(n, m) /\ (m.leader <=> node[n].leader)
        BY <1>1, <2>1, <2>2, NothingTold, ZenonT(30)
  <2>4. QED
        BY <1>1, <2>3, SameLeaders
<1>6. ASSUME NEW n \in Node, StepDown(n) \/ RequestFails(n)
      PROVE  L' = L
  <2>1. node[n].pc = "try"
        BY <1>6 DEF StepDown, RequestFails
  <2>2. CASE SetMember(n, SteppedDown(node[n])) /\ node[n].state = "leader"
    <3>1. SteppedDown(node[n]).leader <=> node[n].leader
          BY <1>1, <2>1, <2>2, SteppedDownFields
    <3>2. QED
          BY <1>1, <2>2, <3>1, SameLeaders
  <2>3. CASE SetMember(n, Rest([Failed(node[n]) EXCEPT !.lost = 0]))
    <3>1. Failed(node[n]) \in Member /\ (Failed(node[n]).leader <=> node[n].leader)
          BY <1>1, NothingTold, ZenonT(30)
    <3>2. Rest([Failed(node[n]) EXCEPT !.lost = 0]).leader <=> node[n].leader
          BY <3>1, NothingTold, ZenonT(30)
    <3>3. QED
          BY <1>1, <2>3, <3>2, SameLeaders
  <2>4. QED
        BY <1>6, <2>2, <2>3 DEF StepDown, RequestFails
<1>7. ASSUME NEW n \in Node, Won(n)
      PROVE  Leaders!Win(n)
  <2>1. \A k \in Node : ~node[k].leader
        BY <1>1, <1>7 DEF ToldApart, Told, Won, MemberOK
  <2>2. [Rest(node[n]) EXCEPT !.leader = TRUE].leader
        BY <1>1 DEF Rest, Member
  <2>3. \A k \in Node : node'[k].leader <=> k = n
        BY <1>1, <1>7, <2>1, <2>2, SMTT(30) DEF Won, SetMember, TypeOK
  <2>4. QED
        BY <2>1, <2>3 DEF Leaders!Win
<1>8. ASSUME NEW n \in Node, Lost(n) \/ CrashMember(n)
      PROVE  [Leaders!Next]_L
  <2>1. ~[Rest(node[n]) EXCEPT !.leader = FALSE].leader
        BY <1>1 DEF Rest, Member
  <2>2. ~[node[n] EXCEPT !.pc = "stopped", !.leader = FALSE].leader
        BY <1>1 DEF Member
  <2>3. ~NewMember(node[n].bo).leader
        BY DEF NewMember
  <2>4. PICK m : SetMember(n, m) /\ ~m.leader
        BY <1>8, <2>1, <2>2, <2>3, ZenonT(30) DEF Lost, CrashMember
  <2>5. QED
        BY <1>1, <2>4, LeaderGone
<1>9. CASE Overwrite \/ DeleteKey \/ Expire
      BY <1>9 DEF Overwrite, DeleteKey, Expire
<1>10. CASE Pass
  <2>1. \A k \in Node : node'[k].leader <=> node[k].leader
        BY <1>1, <1>10, ZenonT(30) DEF Pass, Member
  <2>2. QED
        BY <2>1
<1>11. ASSUME NEW n \in Node, CampaignStep(n)
       PROVE  [Leaders!Next]_L
       BY <1>2, <1>3, <1>4, <1>5, <1>6, <1>7, <1>8, <1>11, ZenonT(30) DEF CampaignStep, Leaders!Next
<1>12. QED
       BY <1>2, <1>6, <1>8, <1>9, <1>10, <1>11, SMTT(30) DEF ElectionNext

\* The election implements Leadership: OnWon and OnLost alternate, and a member
\* is told that it won only while nobody else leads.
THEOREM ElectionImplementsLeadership ==
  ASSUME Paced
  PROVE  ElectionSpec => ImplementsLeadership
<1>1. ElectionInit => Leaders!Init
      BY DEF ElectionInit, NewMember, Leaders!Init
<1>2. ToldApart /\ [ElectionNext]_electionVars => [Leaders!Next]_{n \in Node : node[n].leader}
      BY LeadersStep DEF electionVars
<1>3. QED
      BY <1>1, <1>2, AtMostOneTold, PTL DEF ElectionSpec, ImplementsLeadership, Leaders!Spec
=============================================================================
