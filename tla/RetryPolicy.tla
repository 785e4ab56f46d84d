--------------------------- MODULE RetryPolicy ---------------------------
(***************************************************************************)
(* Retry policies (src/retrypolicy.go) and the delays that are computed    *)
(* from them: the delay of NakItem for each delivery of an item            *)
(* (src/storage.go) and the sleep of pollItem after each failed poll       *)
(* (src/processor.go).  Time is counted in tenths of a millisecond.        *)
(***************************************************************************)
EXTENDS Integers, Sequences

CONSTANTS
  Policies,       \* names of policies to use
  MaxDeliveries   \* bound: deliveries of an item, polls in a row

\* The names of the policies map, retryForTesting, and the policy pollItem
\* sleeps by.
PolicyNames == {"default", "10m", "1h", "1m", "testing", "poll"}

ASSUME PolicyAssumption == Policies \subseteq PolicyNames /\ MaxDeliveries \in Nat

ms == 10
second == 1000 * ms
minute == 60 * second

\* linearPolicy; the factor jitter is given in tenths.
linearPolicy(steps, jitter, min, max) ==
  LET low == IF max < min THEN max ELSE min
      high == IF max < min THEN min ELSE max
      stepSize == (high - low) \div steps
  IN [Intervals |-> [i \in 1..steps |-> low + (i - 1) * stepSize], Jitter |-> jitter]

Policy(name) ==
  CASE name \in {"default", "10m"} -> linearPolicy(50, 9, minute, 10 * minute)
    [] name = "1h" -> linearPolicy(20, 9, 10 * minute, 60 * minute)
    [] name = "1m" -> linearPolicy(20, 5, second, minute)
    [] name = "poll" -> linearPolicy(20, 1, 500 * ms, 10 * second)
    [] name = "testing" -> linearPolicy(1, 1, ms, 10 * ms)

\* The random numbers below d: the smallest, the largest and some between.
Draws(d) == {0, 3, 4, 5, d \div 2, d - 1} \cap 0..(d - 1)

Round(d) == ms * ((d + ms \div 2) \div ms)

\* The delays jitter can give.
jitter(p, d) ==
  IF d = 0 THEN {0} ELSE {Round((d * p.Jitter) \div 10 + r) : r \in Draws(d)}

\* Mutant of Duration: a delay that is rounded to nothing is used.
DurationZero(p, n) ==
  LET k == IF n >= Len(p.Intervals) THEN Len(p.Intervals) - 1 ELSE n
  IN jitter(p, p.Intervals[k + 1])

\* Mutant of Duration: the intervals start over.
DurationWraps(p, n) == jitter(p, p.Intervals[(n % Len(p.Intervals)) + 1])

\* The delays Duration can give for try n; the intervals count from 0.
Duration(p, n) ==
  LET k == IF n >= Len(p.Intervals) THEN Len(p.Intervals) - 1 ELSE n
  IN {IF d = 0 THEN p.Intervals[1] ELSE d : d \in jitter(p, p.Intervals[k + 1])}

VARIABLES
  policy,         \* the policy of the client
  delivered,      \* NumDelivered of the item
  ctr,            \* polls that failed in a row
  pause           \* the last delay

retryVars == <<policy, delivered, ctr, pause>>

RetryInit == policy \in Policies /\ delivered = 1 /\ ctr = 0 /\ pause = 0

\* NakItem of the current delivery; the item is delivered again.
NakItem ==
  /\ policy # "poll" /\ delivered < MaxDeliveries
  /\ pause' \in Duration(Policy(policy), delivered)
  /\ delivered' = delivered + 1
  /\ UNCHANGED <<policy, ctr>>

\* pollItem sleeps after a poll that failed.
PollFails ==
  /\ policy = "poll" /\ ctr < MaxDeliveries
  /\ pause' \in Duration(Policy(policy), ctr)
  /\ ctr' = ctr + 1
  /\ UNCHANGED <<policy, delivered>>

\* A poll that ends without an item after its timeout starts the count anew.
PollTimesOut ==
  /\ policy = "poll" /\ ctr > 0
  /\ ctr' = 0 /\ pause' = 0
  /\ UNCHANGED <<policy, delivered>>

RetryNext == NakItem \/ PollFails \/ PollTimesOut

RetrySpec == RetryInit /\ [][RetryNext]_retryVars

----------------------------------------------------------------------------
\* The range the comments give a policy ("between 1 and 10 minutes"), and for
\* the two without a comment their name and arguments.
Documented(name) ==
  CASE name \in {"default", "10m"} -> [low |-> minute, high |-> 10 * minute]
    [] name = "1h" -> [low |-> 10 * minute, high |-> 60 * minute]
    [] name = "1m" -> [low |-> second, high |-> minute]
    [] name = "poll" -> [low |-> 500 * ms, high |-> 10 * second]
    [] name = "testing" -> [low |-> ms, high |-> 10 * ms]

\* An item that is given back waits for the low end of the range at least: its
\* first delivery counts as a try, so that it starts with the second interval,
\* and a delay that is rounded to nothing is not used.  A failed poll, which
\* starts with the first, waits for the jitter's share of the low end.  No delay
\* passes the high end by more than the jitter's share of it, however many tries
\* there are: jitter is that share of an interval and up to a whole one.
DelayInBounds ==
  [][LET range == Documented(policy)
         factor == Policy(policy).Jitter
     IN /\ delivered' > delivered => range.low <= pause'
        /\ ctr' > ctr => factor * range.low <= 10 * pause'
        /\ delivered' > delivered \/ ctr' > ctr =>
             10 * pause' < (10 + factor) * range.high]_retryVars

\* An item that is given back waits for no longer than the range of its policy
\* says: "backoff with jitter between 1 and 10 minutes" (client_options.go:195).
DelayAsDocumented ==
  [][delivered' > delivered => pause' <= Documented(policy).high]_retryVars

\* The backoff grows: the shortest delay of a later try is no shorter than
\* that of the try before, until the last interval is reached and kept.
BackoffGrows ==
  [][delivered' > delivered =>
       \A d \in Duration(Policy(policy), delivered') :
         \E e \in Duration(Policy(policy), delivered) : e <= d]_retryVars

\* The policy of one hour has 50 steps: the backoff grows until try 50.
OneHourHasFiftySteps ==
  [][NakItem /\ policy = "1h" /\ delivered < 49 =>
       Duration(Policy("1h"), delivered) # Duration(Policy("1h"), delivered + 1)]_retryVars
=============================================================================
