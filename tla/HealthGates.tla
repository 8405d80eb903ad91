---------------------------- MODULE HealthGates ----------------------------
(***************************************************************************)
(* The decisions taken on the statistics: the cluster view of ClusterStats *)
(* (agent_stats_tracker.go), whether the Hedger may hedge (hedger.go) and  *)
(* whether and whom the Demoter may demote (demoter.go).                   *)
(*                                                                         *)
(* The state is the snapshot of every agent in the window (StatsTracker),  *)
(* which changes as requests are tracked, age out or are purged.  A ratio  *)
(* is a pair <<numerator, denominator>> compared by cross multiplication;  *)
(* the code's float64 rounding is left out.                                *)
(***************************************************************************)
EXTENDS Integers, FiniteSets, FiniteSetsExt

CONSTANTS
  Nodes,
  Snapshots,        \* the snapshots an agent may have
  MinFilled,        \* minFilledBuckets
  SlowMultiplier,   \* HealthCheckConfig, as ratios
  MaxSlowFraction,
  FaultyThreshold,
  MaxFaultyFraction

Above(r, s) == r[1] * s[2] > s[1] * r[2]   \* r > s
Ratios == Nat \X (Nat \ {0})

\* HealthCheckConfig.Validate, and what a snapshot is.
ASSUME GatesAssumption ==
  /\ IsFiniteSet(Nodes) /\ MinFilled \in Nat \ {0}
  /\ {SlowMultiplier, MaxSlowFraction, FaultyThreshold, MaxFaultyFraction} \subseteq Ratios
  /\ ~Above(<<1, 1>>, SlowMultiplier)
  /\ ~Above(MaxSlowFraction, <<1, 1>>) /\ ~Above(MaxFaultyFraction, <<1, 1>>)
  /\ FaultyThreshold[1] > 0 /\ ~Above(FaultyThreshold, <<1, 1>>)
  /\ \A s \in Snapshots :
       /\ s \in [sum : Nat, ok : Nat, faulty : Nat, filled : Nat]
       /\ s.ok = 0 => s.sum = 0
       /\ s.filled <= s.ok + s.faulty /\ (s.filled = 0 => s.ok + s.faulty = 0)

VARIABLE snap   \* [Nodes -> Snapshots]

GInit == snap \in [Nodes -> {s \in Snapshots : s.filled = 0}]

observe(n, s) == snap' = [snap EXCEPT ![n] = s]

GNext == \E n \in Nodes, s \in Snapshots : observe(n, s)

GSpec == GInit /\ [][GNext]_snap

-----------------------------------------------------------------------------
requests(n) == snap[n].ok + snap[n].faulty
Observed == {n \in Nodes : requests(n) > 0}
Qualified == {n \in Observed : snap[n].filled >= MinFilled}
Measured == {n \in Qualified : snap[n].ok > 0}

latency(n) == IF snap[n].ok > 0 THEN snap[n].sum \div snap[n].ok ELSE 0
errorRate(n) == <<snap[n].faulty, requests(n)>>

\* The quorum gate of ClusterStats.
hasClusterStats == Qualified # {} /\ Cardinality(Qualified) * 2 >= Cardinality(Observed)

baselineLatency == IF Measured = {} THEN 0
                   ELSE MapThenSumSet(latency, Measured) \div Cardinality(Measured)
slowThreshold == (baselineLatency * SlowMultiplier[1]) \div SlowMultiplier[2]
slow == {n \in Measured : latency(n) > slowThreshold}

avgRequestsPerAgent == MapThenSumSet(requests, Observed) \div Cardinality(Observed)

\* ceil(1 / FaultyThreshold)
base == (FaultyThreshold[2] + FaultyThreshold[1] - 1) \div FaultyThreshold[1]

\* Mutant: the floor is rounded down.
errorRateMinRequests_floor ==
  LET b == FaultyThreshold[2] \div FaultyThreshold[1]
  IN  IF avgRequestsPerAgent >= b THEN b ELSE Min({b, MinFilled})

\* Mutant: not relaxed when the whole cluster is starved.
errorRateMinRequests_strict == base

errorRateMinRequests ==
  IF avgRequestsPerAgent >= base THEN base ELSE Min({base, MinFilled})

isFaulty(n, minRequests) ==
  n \in Qualified /\ requests(n) >= minRequests /\ Above(errorRate(n), FaultyThreshold)

faulty == {n \in Nodes : isFaulty(n, errorRateMinRequests)}

slowFraction == IF Measured = {} THEN <<0, 1>>
                ELSE <<Cardinality(slow), Cardinality(Measured)>>
faultyFraction == IF Observed = {} THEN <<0, 1>>
                  ELSE <<Cardinality(faulty), Cardinality(Observed)>>

-----------------------------------------------------------------------------
\* Mutant: no floor for small clusters.
maxFractionFloor_none(configured, contributors) == configured

maxFractionFloor(configured, contributors) ==
  IF contributors = 0 \/ Above(configured, <<1, contributors>>)
  THEN configured ELSE <<1, contributors>>

\* isDemotionSuppressed
isDemotionSuppressed ==
  \/ ~hasClusterStats
  \/ Above(faultyFraction, maxFractionFloor(MaxFaultyFraction, Cardinality(Observed)))

\* isDemoted of an agent that is, or is not, demoted already.
isDemoted(n, wasDemoted) ==
  hasClusterStats /\ isFaulty(n, IF wasDemoted THEN 1 ELSE errorRateMinRequests)

\* shouldHedge for a primary that was not routed to as a probe: the reason for
\* not hedging, or the multiple of the baseline latency to wait.
shouldHedge(n) ==
  CASE n \notin Qualified -> "noAgentStats"
    [] n \in Qualified /\ ~hasClusterStats -> "noClusterStats"
    [] OTHER ->
      IF Above(slowFraction, maxFractionFloor(MaxSlowFraction, Cardinality(Measured)))
      THEN "slowFraction"
      ELSE IF Above(faultyFraction, maxFractionFloor(MaxFaultyFraction, Cardinality(Observed)))
      THEN "faultyFraction"
      ELSE IF latency(n) > slowThreshold \/ n \in faulty THEN "baseline" ELSE "slow"

hedges(n) == shouldHedge(n) \in {"baseline", "slow"}

-----------------------------------------------------------------------------
\* A single bad agent never trips the fraction gates, whatever the cluster size:
\* with a cluster view and at most one faulty and one slow agent, demotion is not
\* suppressed and every agent with statistics is hedged.
OneBadAgentIsActedOn ==
  hasClusterStats =>
    /\ Cardinality(faulty) <= 1 => ~isDemotionSuppressed
    /\ Cardinality(faulty) <= 1 /\ Cardinality(slow) <= 1 => \A n \in Qualified : hedges(n)

\* The request count the error rate needs follows the traffic.  A fluke is not a
\* fault: while the average agent has the request count base, no agent is demoted
\* or counted faulty for a single error.  Starvation does not switch demotion off:
\* when the average agent is below base, an agent with statistics all of whose
\* requests failed is faulty (if any error rate is).
JudgedByTraffic ==
  hasClusterStats =>
    IF avgRequestsPerAgent >= base
    THEN \A n \in Nodes : n \in faulty \/ isDemoted(n, FALSE) => snap[n].faulty > 1
    ELSE Observed # {} =>
           \A n \in Qualified :
             snap[n].ok = 0 /\ Above(<<1, 1>>, FaultyThreshold) => n \in faulty

\* ClusterStats' comment on the quorum gate: "require that more than half of the
\* agents we have any data for actually pass the qualification gates".
QuorumIsMajority == hasClusterStats => 2 * Cardinality(Qualified) > Cardinality(Observed)

\* HealthCheckConfig: MaxFaultyFraction "suppresses faulty-based action when this
\* fraction (or more) of agents is faulty" (more than one, for the 1/N floor).
SuppressedAtTheFraction ==
  /\ hasClusterStats /\ Cardinality(faulty) > 1
  /\ ~Above(MaxFaultyFraction, faultyFraction)
  => isDemotionSuppressed
=============================================================================
