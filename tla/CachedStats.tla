---------------------------- MODULE CachedStats ----------------------------
(***************************************************************************)
(* CachedAgentStatsTracker (cached_agent_stats_tracker.go) over the        *)
(* tracker it wraps: goroutines call ClusterStats, each with the time it   *)
(* read before the call, while requests are tracked in the ring of         *)
(* StatsTracker and departed agents are purged.                            *)
(*                                                                         *)
(* A cluster view is abstracted to the agents it was computed from: what   *)
(* the cache can get wrong is which agents and which instant a view is of. *)
(***************************************************************************)
EXTENDS StatsTracker

CONSTANTS
  Callers,    \* goroutines calling ClusterStats
  Keys,       \* (slowMultiplier, faultyThreshold) pairs
  CacheTTL,
  MaxPurges,  \* bound on the purges
  None

ASSUME CacheAssumption ==
  /\ CacheTTL \in Nat \ {0} /\ MaxPurges \in Nat
  /\ None \notin Callers

VARIABLES
  cache,      \* SUBSET of entries [key, agents, at]
  gen,        \* cachePurgeGen
  refreshMu,  \* holder of refreshMu
  purging,    \* agents inner has dropped, cache not cleared yet
  pc,         \* [Callers -> "idle", "called", "wait", "locked", "compute", "store"]
  args,       \* [Callers -> [key, now]]
  seenGen,    \* [Callers -> Nat]: the generation read before computing
  view,       \* [Callers -> SUBSET Agents]: what the inner tracker returned
  gone        \* history: agents purged, cache cleared, and not tracked since

callVars == <<pc, args, seenGen, view>>
cacheVars == <<cache, gen, refreshMu, purging, callVars, gone>>
vars == <<clock, trackerVars, cacheVars>>

Entries == [key : Keys, agents : SUBSET Agents, at : 0..MaxTime]

Init ==
  /\ TrackerInit
  /\ cache = {} /\ gen = 0 /\ refreshMu = None /\ purging = {}
  /\ pc = [c \in Callers |-> "idle"]
  /\ args \in [Callers -> [key : Keys, now : {0}]]
  /\ seenGen = [c \in Callers |-> 0]
  /\ view = [c \in Callers |-> {}]
  /\ gone = {}

-----------------------------------------------------------------------------
\* TrackAgentRequest is forwarded to the inner tracker: the entry is found or
\* created, so the agent is tracked again ...
trackRequest(w, n, o) ==
  /\ getOrCreate(w, n, o)
  /\ gone' = gone \ {n}
  /\ UNCHANGED <<cache, gen, refreshMu, purging, callVars>>

\* ... and then written.
trackWrite(w) == TrackAgentRequest(w) /\ UNCHANGED cacheVars

\* PurgeAgents, first the inner tracker ...
purgeInner(S) ==
  /\ purging = {} /\ gen < MaxPurges
  /\ PurgeAgents(S)
  /\ purging' = S
  /\ UNCHANGED <<cache, gen, refreshMu, callVars, gone>>

\* Mutant: the generation is not advanced.
purgeCache_sameGen ==
  /\ purging # {}
  /\ cache' = {}
  /\ gone' = gone \cup (purging \ tracked)
  /\ purging' = {}
  /\ UNCHANGED <<clock, trackerVars, gen, refreshMu, callVars>>

\* ... then the cache and its generation, under cacheMu.
purgeCache ==
  /\ purging # {}
  /\ cache' = {}
  /\ gen' = gen + 1
  /\ gone' = gone \cup (purging \ tracked)
  /\ purging' = {}
  /\ UNCHANGED <<clock, trackerVars, refreshMu, callVars>>

-----------------------------------------------------------------------------
\* lookup: the entry of key when it is younger than the TTL at now.  An entry
\* computed after now counts as young.
hits(key, now) == {e \in cache : e.key = key /\ now - e.at < CacheTTL}

\* ClusterStats is called; the caller read now before.
ClusterStats(c, key) ==
  /\ pc[c] = "idle"
  /\ pc' = [pc EXCEPT ![c] = "called"]
  /\ args' = [args EXCEPT ![c] = [key |-> key, now |-> clock]]
  /\ UNCHANGED <<clock, trackerVars, cache, gen, refreshMu, purging, seenGen, view, gone>>

\* The lookup without refreshMu: return on a hit.
firstLookup(c) ==
  /\ pc[c] = "called"
  /\ pc' = [pc EXCEPT ![c] = IF hits(args[c].key, args[c].now) # {} THEN "idle" ELSE "wait"]
  /\ UNCHANGED <<clock, trackerVars, cache, gen, refreshMu, purging, args, seenGen, view, gone>>

\* Mutant: no second lookup.
secondLookup_none(c) ==
  /\ pc[c] = "wait" /\ refreshMu = None
  /\ pc' = [pc EXCEPT ![c] = "locked"]
  /\ refreshMu' = c
  /\ UNCHANGED <<clock, trackerVars, cache, gen, purging, args, seenGen, view, gone>>

\* refreshMu is taken, and the lookup repeated: another goroutine may have
\* refreshed while this one waited.
secondLookup(c) ==
  /\ pc[c] = "wait" /\ refreshMu = None
  /\ IF hits(args[c].key, args[c].now) # {}
       THEN pc' = [pc EXCEPT ![c] = "idle"] /\ UNCHANGED refreshMu
       ELSE pc' = [pc EXCEPT ![c] = "locked"] /\ refreshMu' = c
  /\ UNCHANGED <<clock, trackerVars, cache, gen, purging, args, seenGen, view, gone>>

readGen(c) ==
  /\ pc[c] = "locked"
  /\ pc' = [pc EXCEPT ![c] = "compute"]
  /\ seenGen' = [seenGen EXCEPT ![c] = gen]
  /\ UNCHANGED <<clock, trackerVars, cache, gen, refreshMu, purging, args, view, gone>>

compute(c) ==
  /\ pc[c] = "compute"
  /\ pc' = [pc EXCEPT ![c] = "store"]
  /\ view' = [view EXCEPT ![c] = {n \in tracked : ~IsEmpty(snapshot(n, args[c].now).count)}]
  /\ UNCHANGED <<clock, trackerVars, cache, gen, refreshMu, purging, args, seenGen, gone>>

\* The view is cached unless a purge intervened; refreshMu is released.
store(c) ==
  /\ pc[c] = "store"
  /\ cache' = IF gen # seenGen[c] THEN cache
              ELSE {e \in cache : e.key # args[c].key} \cup
                   {[key |-> args[c].key, agents |-> view[c], at |-> args[c].now]}
  /\ refreshMu' = None
  /\ pc' = [pc EXCEPT ![c] = "idle"]
  /\ UNCHANGED <<clock, trackerVars, gen, purging, args, seenGen, view, gone>>

passTime == tick /\ UNCHANGED cacheVars

CallerStep(c) ==
  \/ firstLookup(c) \/ secondLookup(c) \/ readGen(c) \/ compute(c) \/ store(c)

Next ==
  \/ \E c \in Callers : CallerStep(c) \/ \E key \in Keys : ClusterStats(c, key)
  \/ \E w \in Writers : \/ \E n \in Agents, o \in Outcomes : trackRequest(w, n, o)
                        \/ trackWrite(w)
  \/ \E S \in SUBSET Agents : purgeInner(S)
  \/ purgeCache \/ passTime

Spec == Init /\ [][Next]_vars

-----------------------------------------------------------------------------
TypeOK ==
  /\ TrackerTypeOK
  /\ purging \subseteq Agents /\ gone \subseteq Agents
  /\ cache \subseteq Entries /\ \A e \in cache : e.at <= clock
  /\ gen \in Nat
  /\ refreshMu \in Callers \cup {None}
  /\ pc \in [Callers -> {"idle", "called", "wait", "locked", "compute", "store"}]
  /\ args \in [Callers -> [key : Keys, now : 0..MaxTime]]
  /\ seenGen \in [Callers -> Nat]
  /\ view \in [Callers -> SUBSET Agents]

\* Once PurgeAgents has returned, no cached view is of a departed agent, even when
\* a view that was being computed meanwhile is stored afterwards.
PurgedNotCached == \A e \in cache : e.agents \cap gone = {}

\* A cached view is never replaced by one of an earlier instant: a caller that
\* waited for refreshMu with an old now takes the newer entry.
CacheNeverOlder ==
  [][\A e \in cache, f \in cache' : e.key = f.key => e.at <= f.at]_vars
=============================================================================
