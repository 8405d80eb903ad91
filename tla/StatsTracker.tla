---------------------------- MODULE StatsTracker ----------------------------
(***************************************************************************)
(* AverageAgentStatsTracker (agent_stats_tracker.go): per agent a ring of  *)
(* buckets, one per time slice, written by concurrent producers and        *)
(* purged when an agent leaves.  Epoch 0 stands for 0 = never written, so  *)
(* the clock starts one bucket late.  CachedStats extends this module with *)
(* the callers that read the statistics through the cache.                 *)
(***************************************************************************)
EXTENDS Integers, FiniteSets, Folds

CONSTANTS
  Writers,       \* goroutines calling TrackAgentRequest
  Agents,
  NumBuckets,    \* numStatsBuckets
  BucketDuration, \* bucketDurationNs, in clock units
  MinFilled,     \* minFilledBuckets
  Latencies,     \* of successful requests
  MaxTime,       \* bound on the clock
  MaxLag,        \* time that may pass between reading the clock and the write
  MaxRequests    \* bound on the requests tracked

ASSUME TrackerAssumption ==
  /\ NumBuckets \in Nat \ {0} /\ BucketDuration \in Nat \ {0} /\ MinFilled \in Nat \ {0}
  /\ Latencies \subseteq Nat /\ MaxRequests \in Nat
  /\ MaxTime \in Nat /\ BucketDuration <= MaxTime
  /\ MaxLag \in 0..((NumBuckets - 1) * BucketDuration)

VARIABLES
  clock,
  stats,     \* [Agents -> ring]: the buckets, of tracked agents
  tracked,   \* SUBSET Agents: the keys of the stats map
  pending,   \* [Writers -> call]: a TrackAgentRequest that has its entry
  requests,  \* number of requests tracked so far
  seen       \* history: [Agents -> [Epochs -> counts]]: what the entry was told

trackerVars == <<stats, tracked, pending, requests, seen>>

epoch(now) == now \div BucketDuration
Epochs == 0..epoch(MaxTime)
Slots == 0..(NumBuckets - 1)
Empty == [sum |-> 0, ok |-> 0, faulty |-> 0]
NewRing == [i \in Slots |-> [epoch |-> 0, count |-> Empty]]
Nothing == [e \in Epochs |-> Empty]
Outcomes == {[ok |-> TRUE, lat |-> l] : l \in Latencies} \cup {[ok |-> FALSE, lat |-> 0]}

\* A call between getOrCreate and the write; orphan if its entry was purged.
Idle == [agent |-> "none"]

TrackerInit ==
  /\ clock = BucketDuration
  /\ stats = [n \in Agents |-> NewRing]
  /\ tracked = {}
  /\ pending = [w \in Writers |-> Idle]
  /\ requests = 0
  /\ seen = [n \in Agents |-> Nothing]

-----------------------------------------------------------------------------
Counted(b, o) == [sum |-> b.sum + o.lat,
                  ok |-> b.ok + (IF o.ok THEN 1 ELSE 0),
                  faulty |-> b.faulty + (IF o.ok THEN 0 ELSE 1)]

\* TrackAgentRequest(now, n, ...) of a request that was not canceled (a canceled
\* one returns at once): getOrCreate ...
getOrCreate(w, n, o) ==
  /\ pending[w] = Idle /\ requests < MaxRequests
  /\ pending' = [pending EXCEPT ![w] = [agent |-> n, now |-> clock, o |-> o, orphan |-> FALSE]]
  /\ tracked' = tracked \cup {n}
  /\ requests' = requests + 1
  /\ UNCHANGED <<clock, stats, seen>>

bucketIndex(now) == epoch(now) % NumBuckets

\* The bucket for epoch e: what another epoch left in the slot is dropped.
bucket(b, e) == IF b.epoch # e THEN [epoch |-> e, count |-> Empty] ELSE b

\* ... then the write, under bucketsMu.
TrackAgentRequest(w) ==
  /\ pending[w] # Idle
  /\ LET r == pending[w]
         i == bucketIndex(r.now)
         b == bucket(stats[r.agent][i], epoch(r.now))
     IN  IF r.orphan THEN UNCHANGED <<stats, seen>>
         ELSE /\ stats' = [stats EXCEPT ![r.agent][i] = [b EXCEPT !.count = Counted(@, r.o)]]
              /\ seen' = [seen EXCEPT ![r.agent][epoch(r.now)] = Counted(@, r.o)]
  /\ pending' = [pending EXCEPT ![w] = Idle]
  /\ UNCHANGED <<clock, tracked, requests>>

\* PurgeAgents drops the entries; calls that hold one write to it in vain.
PurgeAgents(N) ==
  /\ N # {}
  /\ tracked' = tracked \ N
  /\ stats' = [n \in Agents |-> IF n \in N THEN NewRing ELSE stats[n]]
  /\ pending' = [w \in Writers |-> IF pending[w] # Idle /\ pending[w].agent \in N
                                   THEN [pending[w] EXCEPT !.orphan = TRUE] ELSE pending[w]]
  /\ seen' = [n \in Agents |-> IF n \in N THEN Nothing ELSE seen[n]]
  /\ UNCHANGED <<clock, requests>>

\* Time passes; no writer is overtaken by more than MaxLag.
tick ==
  /\ clock < MaxTime /\ clock' = clock + 1
  /\ \A w \in Writers : pending[w] # Idle => pending[w].now + MaxLag >= clock'
  /\ UNCHANGED trackerVars

-----------------------------------------------------------------------------
Add(a, b) == [sum |-> a.sum + b.sum, ok |-> a.ok + b.ok, faulty |-> a.faulty + b.faulty]
IsEmpty(count) == count.ok + count.faulty = 0

\* Mutant: the window is one bucket too long.
cutoff_long(now) == epoch(now) - NumBuckets

cutoff(now) == epoch(now) - (NumBuckets - 1)

\* snapshot: the sum of the filled buckets in the window, and how many they are.
filled(n, now) == {i \in Slots : /\ ~IsEmpty(stats[n][i].count)
                                 /\ stats[n][i].epoch >= cutoff(now)}
snapshot(n, now) ==
  [count |-> MapThenFoldSet(Add, Empty, LAMBDA i : stats[n][i].count,
                            LAMBDA S : CHOOSE i \in S : TRUE, filled(n, now)),
   filledBuckets |-> Cardinality(filled(n, now))]

\* AgentStats: the mean latency, and the error rate as a pair of counts.
AgentStats(n, now) ==
  LET s == snapshot(n, now)
  IN  IF n \notin tracked \/ s.filledBuckets < MinFilled THEN [has |-> FALSE]
      ELSE [has |-> TRUE, requests |-> s.count.ok + s.count.faulty, faulty |-> s.count.faulty,
            latency |-> IF s.count.ok > 0 THEN s.count.sum \div s.count.ok ELSE 0]

-----------------------------------------------------------------------------
Counts == [sum : Nat, ok : 0..MaxRequests, faulty : 0..MaxRequests]

TrackerTypeOK ==
  /\ clock \in BucketDuration..MaxTime /\ tracked \subseteq Agents /\ requests \in 0..MaxRequests
  /\ \A n \in Agents, i \in Slots :
       /\ stats[n][i].epoch \in 0..epoch(clock) /\ stats[n][i].count \in Counts
       /\ stats[n][i].epoch = 0 \/ stats[n][i].epoch % NumBuckets = i

\* The window is exact: what the ring reports of an agent is what was tracked of
\* it (since its last purge) in the current epoch and the NumBuckets - 1 before,
\* however the ring has turned and however late the writes came.
RingIsWindow ==
  \A n \in Agents :
    LET window == {e \in Epochs : e > epoch(clock) - NumBuckets /\ ~IsEmpty(seen[n][e])}
    IN  snapshot(n, clock) =
          [count |-> MapThenFoldSet(Add, Empty, LAMBDA e : seen[n][e],
                                    LAMBDA S : CHOOSE e \in S : TRUE, window),
           filledBuckets |-> Cardinality(window)]

=============================================================================
