# Verification of the WarpStream Go producer

TLA+ modules, TLC configurations and TLAPS proofs for `src/pkg/wgo`, a Kafka
producer for WarpStream, and for the simulation in `src/pkg/internal/simulation`
that compares it with franz-go under faults. Any agent can take any partition, so the client keeps
its own order of agents per partition, batches records per agent, hedges slow or
failed produce requests to other agents and routes around agents that fail.

## The system

A call of `ProduceSync` travels like this:

1. `WarpstreamClient` (`client.go`) drops records that are too large, groups the
   rest by partition, and asks its strategy for the agent of each group. A
   partition without an agent fails at once and nudges the metadata refresh.
2. The strategy is the `Demoter` (`demoter.go`), which judges agents by their
   recent error rate, over `DefaultPartitionAssignmentStrategy`
   (`partition_assignment.go`), which reads the current snapshot of `AgentPool`
   (`agentpool.go`). A background goroutine of the client refreshes that snapshot,
   purges statistics of departed agents and tells the Demoter.
3. The groups go to the main `ClusterBuffer` (`cluster_record_buffer.go`), which
   watches the caller's context and hands them to one `AgentBuffer`
   (`agent_record_buffer.go`) per agent. Groups over the byte cap are split
   (`routed_batch.go`, `routed_topic_partition.go`). A linger timer, the cap or
   `Close` flushes the buffer in a goroutine of its own.
4. The flush calls `Hedger.ProduceSync` (`hedger.go`): a primary attempt and, when
   it is slow or fails, waves of hedge legs to the next candidates, through a
   second `ClusterBuffer` that merges legs of concurrent calls. Outcomes are merged
   per partition by `produceResultAccumulator` (`produce_result.go`).
5. Attempts are made by `TrackingProducer` over `DirectProducer`, which record
   latency and errors in `AverageAgentStatsTracker` (`agent_stats_tracker.go`),
   read through `CachedAgentStatsTracker` by Hedger and Demoter.
6. The result travels back through the dones of the buffers to the results slice
   of the caller and its hooks.

`WarpstreamClient.Close` ends the refresh, drains the main buffer, whose flushes may
still hedge, then the hedge buffer, then closes kgo.

The simulation runs the client, or a Mimir process that embeds it, against fake
brokers:

1. `runScenario` (`runner/scenario_runner.go`) builds two lanes of cluster, network
   and client (`environment.go`), warms them up, and then observes them while a
   goroutine plays the scenario's phases (`transport_phases.go`) and a sampler reads
   counters (`sampler.go`). It drains the events' callbacks, joins phases and sampler,
   rejects a run that was cut short, and closes everything.
2. `transportNetwork` (`transport.go`) is the dialer of a lane. A phase kills,
   blackholes or restores a broker there, or removes and replaces it in the cluster
   and in the published metadata (`metadata.go`).
3. A Mimir process dials through `brokerProxy` (`mimir/proxy.go`), which delays
   answers, enforces Produce timeouts, rewrites Metadata to its own listeners and
   reports successful answers, from which the network counts recovery.

## Modules

| Module | Code | State and actions |
|---|---|---|
| `RecordBuffer` | cluster and agent buffer, split fan-in | Calls with their program counter, per item the two gates, watch and counter of `wrapDone`, per agent `mu`, pending chunks, timer and late callbacks, the flushes under way, `Close`. One action per lock section or goroutine step. |
| `DeliveryContract` | doc comments of `ClusterBuffer` | What a caller may rely on: promise open, acknowledged or failed, what counts as buffered, what is stored. |
| `HedgeLegs` | `runHedgingAttempt` | Extends `RecordBuffer`, the hedge buffer here: calls are legs, `legDone` keeps the first result, which is read through the leg's own partitions. |
| `ClientClose` | `WarpstreamClient.Close`, `flushBatch` | Extends `HedgeLegs`: flushes of the main buffer that add legs, their write timeout, and `Close` through the main buffer, the hedger and kgo. |
| `ProduceResults` | `produce_result.go`, response parsing | Operators: error classes, coverage check, accumulator, selection between two results. An error is the set of what `errors.Is` finds in it. |
| `HedgeCall` | `Hedger.ProduceSync` | One call: primary goroutine, hedge timer, cascade of waves, context with deadline, the classification of the stop. |
| `RefreshLoop` | background refresh, nudges, first half of `Close` | Ticker, nudge channel, cooldown with doubling delays in a bounded integer. |
| `AgentPool` | `agentpool.go`, `partition_assignment.go`, request building in `produce.go` | `refresh` over the Metadata responses of a small cluster; candidate order, misses and the building of a request from the current snapshot as operators. |
| `Demoter` | `demoter.go`, `refreshPool` | Concurrent `Candidates` in steps of one read or one lock section; refresh in three steps. |
| `StatsTracker` | bucket ring | `TrackAgentRequest` in its two lock sections, `PurgeAgents`, `AgentStats`. |
| `CachedStats` | `cached_agent_stats_tracker.go` | Over `StatsTracker`, whose contents a computation reads: lookups, computation, store, purge with its generation. |
| `HealthGates` | `ClusterStats`, `shouldHedge`, `isDemotionSuppressed`, `isDemoted` | Decisions as exact rational arithmetic over all snapshots of the agents. |
| `RecordBatches` | `splitByMaxBytes`, both `mergeWith`, size estimates, `encodeBatch`, `decodeBatch` | One partition in the main buffer and in the hedge buffer of a fallback: records by timestamp and size, flushed as encoded batches, which hedge legs add in any order. |
| `ClientProduce` | `WarpstreamClient.ProduceSync`, `Produce` | Filter, route, reject, add, completions, copy to repeated positions, hooks; promises of single records; the counters of records. |
| `TransportNetwork` | `runner/transport.go`, `transport_phases.go`, `metadata.go` | Faults per broker, connections with the two checks of `DialContext`, the closing loop of `setFault` apart from its lock section; the phases in their steps; members, leaders and epochs of the metadata. |
| `BrokerProxy` | `mimir/proxy.go` | Over `TransportNetwork`: per connection the request goroutine, the answer goroutine with its bounded channel, the writer with due times, and `Close`. |
| `ScenarioRun` | `runner/scenario_runner.go`, `environment.go`, `sampler.go`, `external_observations.go` | Over `BrokerProxy`: one run from the first cluster to the last `Close`, with events, callbacks, phases, sampler, cancellation and failed setups. |
| `RecordBufferProofs`, `BufferContractProofs` | | Theorems on `RecordBuffer`; that it implements `DeliveryContract`. |
| `ClientCloseProofs` | | Theorems on `ClientClose` and `HedgeLegs`, over those of the buffer. |
| `HedgerProofs` | | Theorems on `HedgeCall`, with lemmas on the operators of `ProduceResults`, and on `HealthGates`. |
| `ClientProofs` | | Theorems on `ClientProduce` and `RefreshLoop`. |
| `DemoterProofs` | | Theorems on `Demoter`. |
| `CachedStatsProofs` | | Theorems on `CachedStats` and `StatsTracker`. |
| `ScenarioRunProofs` | | Theorems on `TransportNetwork`, `BrokerProxy` and `ScenarioRun`, with lemmas on queues of answers. |

`MC*` modules hold the instances for TLC. Definitions named `x_y` above a
definition `x`, marked *Mutant*, are plausible bugs; each checked property is
violated when one of them takes the place of `x`.

What is abstracted: record contents, topics' names, log lines, metrics that no
decision reads, byte layout (sizes are kept where a cap depends on them), wall time
(ticks). xxhash is an arbitrary constant function. `kgo` appears as the answers an
attempt may have.

## Runs

| Run | Instance | Shows |
|---|---|---|
| `buffer` | 2 agents, 2 calls, 3 items, one split in two chunks over the cap, one call cancelable | `NoStrandedBatch`, `FlushWithinCap`, `CloseDrains`, and that the buffer implements `DeliveryContract`: one settlement per promise, no acknowledgement unless every chunk was stored, buffered counters released once and only by the flush |
| `client_close` | 2 main flushes with a common partition hedging to one agent, cap never cuts a leg, write timeouts, `Close` at any time | flushes that run keep their hedge buffer open, a closed client is quiet, a leg resolves and fails by its own batches only, every flush and `Close` return |
| `legs_split` | the same legs with a cap that may cut one | violation, see below |
| `hedge_call` | 2 partitions, 4 agents, 3 candidate lists, cap 3 | no false acknowledgement, nothing that landed is reported failed, a call gives up only when primary and cascade have, attempts are bounded, the cause is ranked, the call returns |
| `refresh` | ceiling 7 ticks, also the largest duration (`MaxDuration`), fetches of up to 3 | nudges neither lost nor served early, backoff kept under sustained misses, at most one fetch after `Close`, `Close` returns |
| `stats` | 1 agent, 1 writer, 2 callers, a ring of 2 buckets over 7 ticks, a purge | the ring is exactly the window; a view from before a purge never stays cached; the cache never goes back in time |
| `demoter` | 1 caller, 4 agents of which 2 fail, 2 pools | never refuses, healthy agents are not crowded out and no fallback is faulty, departed agents forgotten, recovered ones restored |
| `agent_pool` | 3 agents, 5 broker lists, any leaders of 2 partitions of one topic, a second topic that comes and goes | candidate lists are well-formed, misses as Metadata says; what was routed before a refresh can be sent after it unless its topic is gone |
| `health_gates` | 4 agents, 9 snapshots each on both sides of every gate | one bad agent is acted on, flukes are not faults, starvation does not switch demotion off |
| `record_batches` | 3 adds of 1, 2 or 4 records of 3 kinds, every batch hedged or not | records kept in order, hedges carry the same records and times, counted bytes within the cap |
| `client_produce` | up to 5 records submitted, calls of up to 4 positions over 4 records and 2 partitions, 2 single records | every position answered with its own outcome, nothing written after return, every record counted once, the call returns |
| `simulation` | 5 pairs of workload and script over 2 brokers, 2 connections one after the other, delays up to twice the timeout | kills, holes and closed networks let no connection through; leaders come back and epochs never name two; answers in order and on time; only answers after a fault count as recovery; a reported result is complete; nothing outlives the environment; every run ends with nothing left |

### Bounds

Two calls are enough to race on one lock, one timer or one partition; a third item
on a second agent makes one call use two buffers, so that `Close` can pass
between them. A cap of two unit chunks gives every case of the overflow test. In
`hedge_call` the cap of three agents lets a cascade have two waves after the
primary and end for each reason. The ring of two buckets turns twice
and its slots are reused.
The demoter needs four agents for a demoted head to hide a healthy tail with two
candidates and headrooms of one and two, two passes for the code's six; only the two at
the head change their health. One caller runs against failing agents, refreshes and its
own stale reads there; two callers at once are in `MCDemoterEdges.cfg` and
`MCDemoterStamps.cfg`, and any number in the proofs.
In `simulation` time is compressed: a fault lasts one tick, a delay is none, within or
over the timeout, and recovery starts after every answer given during the fault has
been written, as the scenarios' 20 seconds against latencies of at most 6 do
(`RecoveryAssumption`). Two answers overfill a channel of one until the writer takes the
first, so every wait of the proxy happens; the connection can be opened
once more, after the fault. The clock stands still before the observed phase, and
while a step of the answer path or a due phase is ready, since these take no time
against latencies and phases. One connection at a time is enough because connections
share only the network's lock and the proxy's.
Counters the code does not bound (clock, purges, requests, adds) stop at the
`Max...` constants.

### Fairness

Only weak fairness is assumed, of goroutines, timers, and of produce attempts,
which end because each request has a deadline (`direct_producer.go`,
`ProduceRequestTimeout` plus its overhead). Callers need not call, cancel or close, except that
`RecoveredIsRestored` needs traffic: selections go on being made. `CallReturns` of
`ClientProduce` assumes of the buffer what `ClientSettles` shows.
`ClientClose` and `ScenarioRun` have one weak fairness each: something steps while
something can, of all that goes on without the callers in the one, of everything but the
client under test and cancellation in the other. That is enough where each goroutine takes
finitely many steps. `ScenarioRun` assumes that callbacks come
(`ClientSettles` and `CallReturns` for this client). Deadlock
checking is off where the model stops for good: calls made once, bounded clocks, a
closed client.

## Where the code and its documentation differ

`legs_split` (`LegResolvesOnlyWhatLanded`): `src/README.md:69` says that another call's
outcome never resolves a leg. When the byte cap cuts a leg in two, `legDone` keeps
the result of the first flush only (`hedger.go:622`). If that flush also carried
another call's batch for a partition of the leg that is itself still waiting, the leg
counts the partition as produced. The records of the second flush may then be lost
although the caller was told of success.

These have a definition and a configuration too, which TLC violates:

| Definition | Configuration | What differs |
|---|---|---|
| `StaleCallbackFindsNothing` | `MCRecordBuffer`, `MCStaleTimer.cfg` | `agent_record_buffer.go:207` says that a callback which lost the race finds the buffer empty. After an overflow flush it finds the next batch and flushes it early. Harmless. |
| `QuorumIsMajority` | `MCHealthGates`, `MCHealthGatesQuorum.cfg` | `agent_stats_tracker.go:294` asks for more than half, line 298 lets exactly half pass. |
| `SuppressedAtTheFraction` | `MCHealthGates`, `MCHealthGatesFraction.cfg` | `health_check.go:34` and `config.go:304` say "at or above", `demoter.go:330` and `hedger.go:676` act at exactly the fraction. |
| `OnlyAffectedShift` | `MCAgentPool`, `MCAgentPoolShift.cfg` | `partition_assignment.go:139` says that only affected partitions shift; the start `h % nonLeaderCount` (line 263) moves others as well. |
| `EntriesByDemotion` | `MCDemoter`, `MCDemoterEdges.cfg` | `demoter.go:277` says that each transition is logged once. A probe that races a restoration writes the entry back (lines 246 and 383), so one demotion can be followed by two recoveries. |
| `StampsMoveForward` | `MCDemoter`, `MCDemoterStamps.cfg` | A forced probe stores its caller's older time over a later stamp (`demoter.go:246`), so the next probe is due before `ProbeInterval` has passed. |
| `BatchWithinCap` | `MCRecordBatches`, `MCRecordBatchesCap.cfg` | `config.go:43` guarantees the cap per batch; merged items get longer varints than they were counted with. |

## Proofs

Each theorem holds for every value of the constants that satisfies the assumptions
named with it; none bounds the number of callers, agents, partitions, connections or
ticks, except as a hypothesis of the theorem says. All are of the form `Spec => []P` or
`Spec => [][A]_v`, or have such a hypothesis (`~MayOmit`, `LegsFit`, `PassesSuffice`), from
an inductive invariant that TLC checked on the run's instance before it was proved. One
lemma per action, or per group of actions that touch the same variables, shows that it is
kept.

**Buffer** (`RecordBufferProofs`; `BufferAssumption`, `BinAssumption`):
`BufferTypes`, `BatchesAreNotStranded`, `FlushesRespectCap` and `CloseLeavesNothing`
follow from `BufferInvariant`, whose conjuncts are:

* `TypeOK`, and `CursorOK` and `FlightsOK`: a call in a bin and a flush in delivery
  point at something that exists. Without them the next entry has no type.
* `LockOK`: the holder of `mu` found its buffer open. This is why nothing is
  appended after `Close` has passed.
* `TimerOK`: outside `mu` the timer is set exactly if something is pending, and a
  fired timer has its callback waiting. It is broken and repaired inside a
  `MultiAdd`, hence the exception for the lock.
* `BytesOK`: the byte counter against the pending chunks.
* `CloseOK`: whatever is in use belongs to the map or was taken over by `Close`.

**Contract of the buffer** (`BufferContractProofs`, with the section "Where chunks
are" of `RecordBufferProofs`): `BufferImplementsContract`, the refinement of
`DeliveryContract`. It rests on `ContractInvariant`:

* `PlaceInv` and `BinInv`: a chunk that was handed over and not yet reported is in
  exactly one place, ahead of its call, in an agent's batch, or in one flush at or
  after the entry that is reported next.
* `ItemInv`: an item is counted as buffered exactly while one of its chunks is
  outstanding in this sense; the fan-in of a split item counts these chunks, and holds
  a result that does not fail the item only if all reported chunks were acknowledged.
* `FlightInv`: what a flush returned with says of every chunk whether it landed.

Cardinality is stated as a bijection with `1..m` (`counts`). The two theorems have the
hypothesis `~MayOmit`: a response of the flush names every partition it was sent. That
is so for the main buffer, whose producer, the Hedger, checks it of the primary's response
(`withCoverageCheck`) and otherwise answers from an accumulator with an outcome for each
requested partition; the hedge buffer's producer does not check it, and there the contract does not hold as it stands (legs read results through their
own partitions instead, see `HedgeLegs`).

**Closing the client, and hedge legs** (`ClientCloseProofs`; `LegAssumption` and those of
the buffer): `RunningFlushesHedge`, `CloseReturnsQuiet`, `SharedLegsAreScoped`. A step of the
client is a step of the hedge buffer or leaves it alone, so `BufferInvariant` carries over.
`StageInv` and `OrderInv` relate the stage of `WarpstreamClient.Close` to the flushes of the
main buffer and to the `Close` of the hedge buffer: the second starts when no flush is
left. For the legs `ScopeInv` follows what a leg handed over. It is in one flush, all
together (`WholeInv`), a flush that has returned says of every entry whether it landed
(`ReturnInv`), and so the answer a leg kept is true of all its partitions (`AnswerInv`),
although the flush may carry another leg's batch for the same partition. `WholeInv` is what
the byte cap can break: the theorem has the hypothesis `LegsFit`, that a call which has
added a part of its leg has room for the rest. Without it the property is false, which is
the run `legs_split`.

**Hedged call** (`HedgerProofs`; `HedgeAssumption`): `NoFalseAckHolds`,
`FailsOnlyWhenAllFailedHolds`, `AttemptsAreBounded`, `CauseIsRankedHolds`. Lemmas on
`ProduceResults` say what merging an answer does to the accumulator and what its response
then reports. The invariant ties the accumulator to what agents stored
(`AccountsForParts`), the two results to where the call waits (`PrimaryIsKnown`,
`FallbackIsKnown`), the stop to what ended the cascade (`StopIsKnown`), and `tried` to
what was sent, so that counting one bounds the other (`SentIsTried`).

**Health gates** (`HedgerProofs`; `GatesAssumption`, the ranges `Validate` allows):
`OneBadAgentPassesTheGates` and `AgentsAreJudgedByTraffic`. These are not about steps but
about the decisions on every combination of statistics. Fractions are compared by
cross-multiplication. The first holds because `maxFractionFloor` never falls below one agent
of those counted, the second because `base` times the threshold is at least one request
(`BaseIsCeiling`), so that with `base` requests one error is not above it.

**Demoter** (`DemoterProofs`; `DemoterAssumption`): `RoutesToHealthyHolds`, and
`FallbacksAreHealthyHolds` for `FallbacksAreHealthy`. `Candidates` judges the same list twice,
in one lock section per agent, and its second pass relies on what the first has
counted. The agents that are sound (`Sound`) stay the same set as long as statistics, pool
and the entries of other calls do not change, through the call's own demotions and
probes; that is what `quiet` records. Relative to that set `Counted` says what the count is
and `Built` why the counting ended and that what was kept has all sound agents so
far. A call that has returned then has `MaxCandidates` agents, or its list was the
whole order and has every healthy agent. The list is the whole order if the last pass asks
for that many, hence the hypothesis `PassesSuffice`: in the code up to `MaxCandidates + 64`
agents. In a larger cluster more demoted agents than that in a row may still hide a healthy
one; never refusing, and no faulty fallback, hold there too (`RoutesToHealthy`).
`DemoterAssumption` says of the inner strategy that it lists the whole snapshot or nothing;
`agent_pool` checks that of `partition_assignment.go`.

**Cached statistics** (`CachedStatsProofs`; `CacheAssumption`, `TrackerAssumption`):
`PurgedStaysOut` and `CacheMovesForward`, an action property. The invariant says what a
goroutine between its second lookup and its store relies on: `refreshMu` keeps other
stores away (`OneRefresher`, `RefreshIsNewer`), and a view whose generation is still
current is of no departed agent (`ViewsAreCurrent`).

**Ring of buckets** (`CachedStatsProofs`; `TrackerAssumption`): `RingHoldsWindow`. The
filled buckets of an agent correspond one to one to the epochs of the window that had
requests, each bucket with all that was tracked in its epoch, so their number is the one
`minFilledBuckets` is compared with. `RingInv` says that a slot holds an epoch that
belongs there with that epoch's whole count, and that no epoch of the window has lost its
slot; it is kept because two epochs of one window never share a slot (`SlotOnce`) and
because a write is of an epoch still in the window (`EpochLag`). The second is the
assumption on `MaxLag`: `TrackingProducer` reads the clock in the call itself, so a write
that comes later than the ring is long (50 seconds) needs a goroutine suspended for that
time. `RingIsWindow` also adds the buckets up; equality of the two folds is an induction
over data and stays with TLC.

**Calls of the client** (`ClientProofs`; `ClientAssumption`):
`EveryPositionAnsweredHolds`, `RecordsAccountedForHolds`, and `WaitGroupNeverNegative`,
without which `Done` panics. The invariant is measured by the partitions a call waits
for: those not yet dispatched and those in flight (`waiting`). The WaitGroup counts exactly
their positions (`StageInv`), so it is zero exactly when the last one has answered. Of the
other partitions the last position of each record, which is the one `indexOf` finds, holds
the record and its partition's verdict, and after the copy every position does
(`AnswerInv`). The counters
change by the number of positions a step answers (`CountInv`, which also says that only
finitely many promises are buffered and that a rejection for want of an agent has nudged).

**Metadata refresh** (`ClientProofs`; `RefreshAssumption`): `OnDemandPacedHolds`,
an action property, and the safety parts of two properties that also promise liveness,
`OwedIsQueuedHolds` and `FewLateFetchesHolds`. The pace is kept by a sum (`PaceInv`):
while the goroutine sleeps, the time since the last on-demand fetch and the rest of the
sleep make at least the delay that fetch started with. The doubling is the code's, with
its test before the product, so that it never leaves `1..MetadataRefreshInterval` as
long as that fits into `MaxDuration` (`math.MaxInt64` nanoseconds in the code).

**Simulation** (`ScenarioRunProofs`; `NetworkAssumption`, `ProxyAssumption`,
`RecoveryAssumption`): `CutStaysCutHolds`, `AssignmentsConvergeHolds`,
`ResultIsCompleteHolds`, `EnvOutlivesUsersHolds`, from four invariants about variables of
their own: `PhaseInv` (how far the script is), `CutInv` (connections and faults),
`ViewInv` (no published epoch is ahead of its partition's, and the current one is
published only with the current leader), `RunInv` (who still runs at each point of
`runScenario`).

**Answers of the proxy** (`ScenarioRunProofs`; the same assumptions): `AnswersInOrderOnTimeHolds`, an action property, and `RecoveryIsRealHolds`.
The answer being waited for, the channel and what a blocked reader holds are one queue,
to which `readAnswer` appends and from which `writeResponse` takes the head; `PathInv`
is about that queue: later places hold later requests, each is due its latency after it was
read, the head is overdue only at the instant of the answer before. `RecoveryInv` adds that
by `RecoveryFrom` nothing answered before the last phase is on its way, which is
`RecoveryAssumption`: recovery is counted from later than any phase plus any latency.

The assumptions are what the code's constructors and `Validate` enforce or what its types
say (positive intervals, the on-demand interval within the periodic one, captured leaders
that are replicas, items in exactly one bin of their own call, legs of whole batches to
one agent), except
`RecoveryAssumption`, which states how the scenarios' times are chosen.

Only model-checked:

* liveness: `ClientSettles`, both `CallReturns`, `DepartedForgotten`,
  `RecoveredIsRestored`, `RunEnds`, and the leads-to parts of `OwedIsServed` and
  `CloseTerminates`. Fairness and ENABLED are outside the prover;
* `RecordsInOrder`, `HedgeIsACopy` and `PendingFits` of `RecordBatches`, whose splitting,
  merging and decoding are recursive over data, which needs an induction the provers do not
  take;
* `RoutedAsMetadataSays` of `AgentPool`: the candidate order sorts and filters a sequence
  (`SetToSortSeq`, `SelectSeq`), and what these return is an induction over data as well;
* of `RingIsWindow`, that the sum over the buckets is the sum over the epochs.

## Not modelled

* `metrics.go`, logging: no decision reads them. The counters of records submitted,
  rejected and failed are in `ClientProduce`.
* Snappy, CRC and the pool of scratch buffers (`produce.go`): a batch is its header
  and its records.
* The wiring and the errors of `NewWarpstreamClient`, options and defaults. The
  bounds `Validate` enforces are the assumptions on the constants.
* The node state (healthy or probe) that travels with batches: metrics read it, and
  `shouldHedge`, to hedge a probe at once. `HedgeCall` allows every hedge decision.
* Of the simulation: the second lane (cluster, network and client of franz-go), which
  takes the same phases in the same calls and shares nothing with the first but its
  place in the teardown; the traffic of the warmup; connections of an in-process client
  (its events are checked, the network under it with the proxy); parse errors of
  malformed frames; the placement that follows broker behaviours and the count of
  missing leaders; the Mimir process and the Prometheus senders, which appear as a
  client that connects, sends, hangs up and may report an error; draws of latencies
  and failures, which are any; everything done with the observations after a run
  (summaries, windows, reports).
* The sampler's reads. While it is behind its schedule it does not look at its context
  (`sampler.go:73`), so `stop` returns only if reads take less than a bucket; the model
  assumes that.
* Torn frames. Between the unlock in `setFault` and the loop that closes the connections
  (`transport.go:104`) bytes that follow a hole may pass; the window is modelled
  (`doomed`) and excepted in `CutStaysCut`, but frames are whole.
* `testkafka`: a fixture that starts a fake cluster.

## Plan

Model the node state that travels with a batch, from routing through `mergeWith` to the
hedge decision.
