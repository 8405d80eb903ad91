------------------------------ MODULE Demoter ------------------------------
(***************************************************************************)
(* Demoter (demoter.go): concurrent calls of Candidates judge the agents   *)
(* of a partition, route around demoted ones and probe them, while agents  *)
(* fail and recover and metadata refreshes change the pool.                *)
(*                                                                         *)
(* An agent's statistics are abstracted to what isDemoted tells apart:     *)
(* "none" when AgentStats has no answer, "faulty", "ok", and "sparse" for  *)
(* an error rate over the threshold on too few requests to demote.         *)
(***************************************************************************)
EXTENDS Integers, Sequences, FiniteSets

CONSTANTS
  Callers,        \* goroutines calling Candidates, each for one partition
  Agents,
  Order,          \* the inner order of a caller's partition, by snapshot
  MaxCandidates,  \* how many a caller asks for
  Headrooms,      \* how many more each pass asks for: 2, 4, ... for maxRetries passes
  Snapshots,      \* SUBSET SUBSET Agents: the pools a refresh may find
  Reports,        \* [Agents -> SUBSET Health]: the statistics it may come to have
  ProbeInterval,
  MaxTime         \* bound on the clock

Health == {"none", "ok", "sparse", "faulty"}

ASSUME DemoterAssumption ==
  /\ Snapshots \subseteq SUBSET Agents /\ Reports \in [Agents -> SUBSET Health]
  /\ Order \in [Callers -> [SUBSET Agents -> Seq(Agents)]]
  /\ \A c \in Callers, P \in SUBSET Agents :   \* all of the snapshot, or no route
       {Order[c][P][i] : i \in DOMAIN Order[c][P]} \in {P, {}}
  /\ MaxCandidates \in Nat \ {0}
  /\ Headrooms \in Seq(Nat \ {0}) /\ Headrooms # << >>
  /\ \A i \in 1..(Len(Headrooms) - 1) : Headrooms[i + 1] = 2 * Headrooms[i]
  /\ ProbeInterval \in Nat \ {0} /\ MaxTime \in Nat

VARIABLES
  clock,
  health,     \* [Agents -> Health]: what AgentStats answers
  pool,       \* SUBSET Agents: the snapshot the inner strategy reads
  refreshing, \* "no", "purge", "refresh": where refreshPool is
  removed,    \* SUBSET Agents: the agents the refresh removed
  probe,      \* [Agents -> Stamps]: lastDemotedProbe
  pc,         \* [Callers -> "idle", "fetch", "count", "build", "probe"]
  call,       \* [Callers -> record]: the locals of candidatesWithRoute
  quiet       \* history: [Callers -> BOOLEAN]: nothing changed during the call

refreshVars == <<pool, refreshing, removed>>
vars == <<clock, health, refreshVars, probe, pc, call, quiet>>

Absent == -1 - ProbeInterval   \* no entry
Zero == -ProbeInterval         \* the zero time, always due
Stamps == {Absent, Zero} \cup 0..MaxTime

NoCall == [now |-> 0, retry |-> 1, agents |-> << >>, i |-> 1, seen |-> "unread",
           healthy |-> 0, demoted |-> FALSE, out |-> << >>]

Init ==
  /\ clock = 0
  /\ health = [n \in Agents |-> "none"]
  /\ pool = Agents /\ refreshing = "no" /\ removed = {}
  /\ probe = [n \in Agents |-> Absent]
  /\ pc = [c \in Callers |-> "idle"]
  /\ call = [c \in Callers |-> NoCall]
  /\ quiet = [c \in Callers |-> TRUE]

-----------------------------------------------------------------------------
AtMost(s, k) == SubSeq(s, 1, IF k < Len(s) THEN k ELSE Len(s))

\* candidatesOf(inner, k): the first k agents of the partition's order.
inner(c, k) == AtMost(Order[c][pool], k)

asked(c) == MaxCandidates + Headrooms[call[c].retry]

\* Candidates while demotion is suppressed: the inner list, nothing is judged.
suppressed(c) ==
  /\ pc[c] = "idle"
  /\ call' = [call EXCEPT ![c] = [NoCall EXCEPT !.agents = inner(c, MaxCandidates),
                                                !.out = inner(c, MaxCandidates)]]
  /\ quiet' = [quiet EXCEPT ![c] = FALSE]
  /\ UNCHANGED <<clock, health, refreshVars, probe, pc>>

Candidates(c) ==
  /\ pc[c] = "idle"
  /\ pc' = [pc EXCEPT ![c] = "fetch"]
  /\ call' = [call EXCEPT ![c] = [NoCall EXCEPT !.now = clock]]
  /\ quiet' = [quiet EXCEPT ![c] = TRUE]
  /\ UNCHANGED <<clock, health, refreshVars, probe>>

\* A counting pass asks the inner strategy; an empty answer ends the call.
fetch(c) ==
  /\ pc[c] = "fetch"
  /\ LET agents == inner(c, asked(c))
     IN  /\ pc' = [pc EXCEPT ![c] = IF agents = << >> THEN "idle" ELSE "count"]
         /\ call' = [call EXCEPT ![c] = IF agents = << >> THEN NoCall
                       ELSE [@ EXCEPT !.agents = agents, !.i = 1,
                                      !.healthy = 0, !.demoted = FALSE]]
  /\ UNCHANGED <<clock, health, refreshVars, probe, quiet>>

-----------------------------------------------------------------------------
full(c) == Len(call[c].out) >= MaxCandidates

\* A pass has an agent to judge; the build pass stops when its list is full.
Judging(c) ==
  /\ pc[c] \in {"count", "build"} /\ call[c].i <= Len(call[c].agents)
  /\ pc[c] = "build" => ~full(c)
Current(c) == call[c].agents[call[c].i]

\* isDemoted reads the statistics ...
agentStats(c) ==
  /\ Judging(c) /\ call[c].seen = "unread"
  /\ call' = [call EXCEPT ![c].seen = health[Current(c)]]
  /\ UNCHANGED <<clock, health, refreshVars, probe, pc, quiet>>

\* One request is enough to keep an agent demoted.
isFaulty(n, h) == h = "faulty" \/ (h = "sparse" /\ probe[n] # Absent)

\* Mutant: an agent that has recovered keeps its entry.
edge_noRestore(n, h) == IF isFaulty(n, h) /\ probe[n] = Absent THEN Zero ELSE probe[n]

\* ... and applies the demotion or recovery edge under its lock: the new entry.
edge(n, h) ==
  CASE h # "none" /\ isFaulty(n, h) /\ probe[n] = Absent -> Zero
    [] h # "none" /\ ~isFaulty(n, h) -> Absent
    [] OTHER -> probe[n]

\* What a call writes to the entries is a change to the other calls.
Disturbs(c) == quiet' = [d \in Callers |-> quiet[d] /\ (d = c \/ probe' = probe)]

transition(c) ==
  probe' = [probe EXCEPT ![Current(c)] = edge(Current(c), call[c].seen)]

\* The counting pass judges one agent.
count(c) ==
  /\ pc[c] = "count" /\ Judging(c) /\ call[c].seen # "unread"
  /\ transition(c)
  /\ LET bad == isFaulty(Current(c), call[c].seen)
     IN  call' = [call EXCEPT ![c] = [call[c] EXCEPT !.i = @ + 1, !.seen = "unread",
                                                     !.healthy = IF bad THEN @ ELSE @ + 1,
                                                     !.demoted = @ \/ bad]]
  /\ Disturbs(c)
  /\ UNCHANGED <<clock, health, refreshVars, pc>>

\* Mutant: one healthy agent is enough to stop asking for more.
enough_one(c) ==
  call[c].healthy >= 1 \/ Len(call[c].agents) < asked(c) \/ call[c].retry = Len(Headrooms)

\* No further pass: enough healthy agents, the pool is exhausted, or the last retry.
enough(c) ==
  \/ call[c].healthy >= MaxCandidates
  \/ Len(call[c].agents) < asked(c)
  \/ call[c].retry = Len(Headrooms)

\* The call's locals once it has returned out.
Answer(c, out) == [NoCall EXCEPT !.agents = call[c].agents, !.out = out]

\* After a counting pass: another one, the answer if nobody is demoted, or the
\* build pass.
countEnds(c) ==
  /\ pc[c] = "count" /\ ~Judging(c)
  /\ \/ /\ ~enough(c)
        /\ pc' = [pc EXCEPT ![c] = "fetch"]
        /\ call' = [call EXCEPT ![c].retry = @ + 1]
     \/ /\ enough(c) /\ ~call[c].demoted
        /\ pc' = [pc EXCEPT ![c] = "idle"]
        /\ call' = [call EXCEPT ![c] = Answer(c, AtMost(call[c].agents, MaxCandidates))]
     \/ /\ enough(c) /\ call[c].demoted
        /\ pc' = [pc EXCEPT ![c] = "build"]
        /\ call' = [call EXCEPT ![c].i = 1]
  /\ UNCHANGED <<clock, health, refreshVars, probe, quiet>>

\* The build pass keeps (or skips) the current agent and goes on.
keep(c) == call' = [call EXCEPT ![c] = [call[c] EXCEPT !.i = @ + 1, !.seen = "unread",
                                                        !.out = Append(@, Current(c))]]
skip(c) == call' = [call EXCEPT ![c] = [call[c] EXCEPT !.i = @ + 1, !.seen = "unread"]]

\* The build pass judges one agent: a healthy one is kept, a demoted one only as
\* the primary and if a probe is due.
build(c) ==
  /\ pc[c] = "build" /\ Judging(c) /\ call[c].seen # "unread"
  /\ transition(c)
  /\ LET bad == isFaulty(Current(c), call[c].seen)
     IN  \/ ~bad /\ keep(c) /\ UNCHANGED pc
         \/ bad /\ call[c].out # << >> /\ skip(c) /\ UNCHANGED pc
         \/ bad /\ call[c].out = << >> /\ pc' = [pc EXCEPT ![c] = "probe"] /\ UNCHANGED call
  /\ Disturbs(c)
  /\ UNCHANGED <<clock, health, refreshVars>>

\* A missing entry reads as the zero time.
due(n, now) == probe[n] = Absent \/ now - probe[n] >= ProbeInterval

\* shouldProbe takes the slot if the interval has passed.
shouldProbe(c) ==
  LET n == Current(c)
      now == call[c].now
  IN  /\ pc[c] = "probe"
      /\ pc' = [pc EXCEPT ![c] = "build"]
      /\ \/ /\ due(n, now) /\ keep(c)
            /\ probe' = [probe EXCEPT ![n] = now]
         \/ /\ ~due(n, now) /\ skip(c)
            /\ UNCHANGED probe
      /\ Disturbs(c)
      /\ UNCHANGED <<clock, health, refreshVars>>

\* Mutant: the call returns no agent when all are demoted and none is due.
forced_none(c) == UNCHANGED probe /\ call' = [call EXCEPT ![c] = Answer(c, << >>)]

\* The forced probe of the natural primary.
forced(c) ==
  /\ probe' = [probe EXCEPT ![call[c].agents[1]] = call[c].now]
  /\ call' = [call EXCEPT ![c] = Answer(c, <<call[c].agents[1]>>)]

\* The build pass ends.
buildEnds(c) ==
  /\ pc[c] = "build" /\ ~Judging(c)
  /\ \/ call[c].out = << >> /\ forced(c)
     \/ /\ call[c].out # << >>
        /\ call' = [call EXCEPT ![c] = Answer(c, call[c].out)]
        /\ UNCHANGED probe
  /\ pc' = [pc EXCEPT ![c] = "idle"]
  /\ Disturbs(c)
  /\ UNCHANGED <<clock, health, refreshVars>>

-----------------------------------------------------------------------------
Noise == quiet' = [c \in Callers |-> FALSE]

diffRemovedAgents(P) == pool \ P

\* refreshPool: the new snapshot is stored ...
storeSnapshot(P) ==
  /\ refreshing = "no" /\ refreshing' = "purge"
  /\ pool' = P /\ removed' = diffRemovedAgents(P)
  /\ Noise
  /\ UNCHANGED <<clock, health, probe, pc, call>>

\* ... the statistics of the agents it removed are purged ...
PurgeAgents ==
  /\ refreshing = "purge" /\ refreshing' = "refresh"
  /\ health' = [n \in Agents |-> IF n \in removed THEN "none" ELSE health[n]]
  /\ Noise
  /\ UNCHANGED <<clock, pool, removed, probe, pc, call>>

\* Mutant: only the agents this refresh removed are dropped.
stays_diff(n) == n \notin removed

\* The entries Refresh keeps.
stays(n) == n \in pool

\* ... and Refresh drops the entries of agents that are not in the pool.
Refresh ==
  /\ refreshing = "refresh" /\ refreshing' = "no"
  /\ removed' = {}
  /\ probe' = [n \in Agents |-> IF stays(n) THEN probe[n] ELSE Absent]
  /\ Noise
  /\ UNCHANGED <<clock, health, pool, pc, call>>

\* The statistics of an agent change, perhaps by a late result of a departed one.
observe(n, h) ==
  /\ health[n] # h /\ health' = [health EXCEPT ![n] = h]
  /\ Noise
  /\ UNCHANGED <<clock, refreshVars, probe, pc, call>>

tick ==
  /\ clock < MaxTime /\ clock' = clock + 1
  /\ UNCHANGED <<health, refreshVars, probe, pc, call, quiet>>

CallerStep(c) ==
  \/ fetch(c) \/ agentStats(c) \/ count(c) \/ countEnds(c)
  \/ build(c) \/ shouldProbe(c) \/ buildEnds(c)

Next ==
  \/ \E c \in Callers : suppressed(c) \/ Candidates(c) \/ CallerStep(c)
  \/ \E P \in Snapshots : storeSnapshot(P)
  \/ PurgeAgents \/ Refresh
  \/ \E n \in Agents : \E h \in Reports[n] : observe(n, h)
  \/ tick

Spec == Init /\ [][Next]_vars

\* Calls run to their end and go on being made (some of them not suppressed), and
\* the refresh loop goes on (RefreshLoop).
FairSpec ==
  /\ Spec
  /\ \A c \in Callers : WF_vars(Candidates(c)) /\ WF_vars(CallerStep(c))
  /\ WF_vars((\E P \in Snapshots : storeSnapshot(P)) \/ PurgeAgents \/ Refresh)

-----------------------------------------------------------------------------
TypeOK ==
  /\ clock \in 0..MaxTime
  /\ health \in [Agents -> Health]
  /\ pool \subseteq Agents /\ removed \subseteq Agents
  /\ refreshing \in {"no", "purge", "refresh"}
  /\ probe \in [Agents -> Stamps]
  /\ pc \in [Callers -> {"idle", "fetch", "count", "build", "probe"}]
  /\ \A c \in Callers :
       /\ call[c].now \in 0..clock /\ call[c].retry \in 1..Len(Headrooms)
       /\ call[c].i \in 1..(Len(call[c].agents) + 1)
       /\ Len(call[c].out) <= MaxCandidates
  /\ quiet \in [Callers -> BOOLEAN]

Answered(c) == pc[c] = "idle" /\ call[c].agents # << >>

\* Candidates never refuses to route: whatever the other calls and the refreshes
\* do meanwhile, a call that saw an agent returns one.  And demoted agents neither
\* crowd out healthy ones nor serve as fallbacks: if no statistics, no snapshot and,
\* by another call, no entry changed during the call, it returns as many candidates
\* as asked for or at least every healthy agent of the pool, and a faulty agent only
\* gets a probe, in the primary slot, so that the Hedger does not try one after the
\* primary.
FallbacksAreHealthy ==
  \A c \in Callers : Answered(c) =>
    LET healthy == {n \in pool : health[n] \in {"none", "ok"}}
        out == call[c].out
    IN  /\ out # << >>
        /\ quiet[c] =>
             /\ Len(out) = MaxCandidates \/ healthy \subseteq {out[i] : i \in DOMAIN out}
             /\ \A i \in 2..Len(out) : health[out[i]] # "faulty"

\* Refresh is a backstop against leaked entries: an agent that has left the pool
\* for good is eventually not counted as demoted, although a call that began
\* before it left may enter it again after the Refresh that dropped it.
DepartedForgotten ==
  \A n \in Agents : <>[](n \notin pool) => <>[](probe[n] = Absent)

\* Demotion is not for ever: an agent of the pool that stays healthy is restored.
RecoveredIsRestored ==
  \A n \in Agents : <>[](n \in pool /\ health[n] = "ok") => <>[](probe[n] = Absent)

\* isDemoted's comment says that each transition is logged exactly once, "because
\* the act flips the map membership": so only a demotion, which is logged and
\* leaves the zero time, may enter an agent.
EntriesByDemotion ==
  [][\A n \in Agents : probe[n] = Absent => probe'[n] \in {Absent, Zero}]_vars

\* lastDemotedProbe "maps nodeID -> the last probe timestamp", and a forced probe
\* "counts against the probe interval": a stamp never moves back in time.
StampsMoveForward ==
  [][\A n \in Agents : probe'[n] = Absent \/ probe[n] <= probe'[n]]_vars
=============================================================================
