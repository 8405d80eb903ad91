------------------------- MODULE CachedStatsProofs -------------------------
(***************************************************************************)
(* Proofs about CachedStats: a purged agent is not in a cached view, and a *)
(* cached view is never replaced by one of an earlier instant; and about   *)
(* the StatsTracker below it: a ring holds the epochs of its window.       *)
(*                                                                         *)
(* The first two rest on what a goroutine between its two lookups and its  *)
(* store may rely on: refreshMu keeps other stores away, and an unchanged  *)
(* cachePurgeGen means that no purge has cleared the cache meanwhile.      *)
(***************************************************************************)
EXTENDS CachedStats, FiniteSetTheorems, WellFoundedInduction, TLAPS

\* The goroutines between the second lookup and the end of the store.
Refreshing == {"locked", "compute", "store"}

\* The parts of the state the argument is about, typed; MaxTime is not needed.
Types ==
  /\ clock \in Nat
  /\ tracked \subseteq Agents
  /\ cache \subseteq [key : Keys, agents : SUBSET Agents, at : Nat]
  /\ gen \in Nat
  /\ refreshMu \in Callers \cup {None}
  /\ pc \in [Callers -> {"idle", "called", "wait", "locked", "compute", "store"}]
  /\ args \in [Callers -> [key : Keys, now : Nat]]
  /\ seenGen \in [Callers -> Nat]
  /\ view \in [Callers -> SUBSET Agents]

\* refreshMu is held by the goroutine that is refreshing, and by no other.
OneRefresher == \A c \in Callers : pc[c] \in Refreshing <=> refreshMu = c

\* The map has one entry per key.
KeysUnique == \A e, f \in cache : e.key = f.key => e = f

\* While c refreshes a key, what is cached under it is not of a later instant than
\* the one c computes for.
RefreshIsNewer ==
  \A c \in Callers : pc[c] \in Refreshing =>
    \A e \in cache : e.key = args[c].key => e.at <= args[c].now

\* An agent that is gone is not tracked.
GoneIsUntracked == gone \cap tracked = {}

\* No goroutine has seen a generation that is still to come.
GensSeen == \A c \in Callers : seenGen[c] <= gen

\* A view that will be stored is of no agent that is gone: a purge after it was
\* computed has advanced the generation.
ViewsAreCurrent ==
  \A c \in Callers : pc[c] = "store" /\ seenGen[c] = gen => view[c] \cap gone = {}

IInv ==
  /\ Types
  /\ OneRefresher /\ KeysUnique /\ RefreshIsNewer
  /\ GoneIsUntracked /\ GensSeen /\ ViewsAreCurrent
  /\ PurgedNotCached

-----------------------------------------------------------------------------
\* The invariant holds before any call.
LEMMA InitIInv == Init => IInv
BY TrackerAssumption, CacheAssumption
DEF Init, TrackerInit, IInv, Types, OneRefresher, KeysUnique, RefreshIsNewer,
    GoneIsUntracked, GensSeen, ViewsAreCurrent, PurgedNotCached, Refreshing

\* TrackAgentRequest: the agent is tracked again and so no longer gone.
LEMMA TrackIInv ==
  ASSUME IInv, NEW w \in Writers, NEW n \in Agents, NEW o, trackRequest(w, n, o)
  PROVE  IInv'
BY SMTT(30) DEF trackRequest, getOrCreate, callVars, IInv, Types, OneRefresher, KeysUnique,
       RefreshIsNewer, GoneIsUntracked, GensSeen, ViewsAreCurrent, PurgedNotCached,
       Refreshing

\* The write into the ring leaves all of this alone.
LEMMA WriteIInv ==
  ASSUME IInv, NEW w \in Writers, trackWrite(w)
  PROVE  IInv'
BY DEF trackWrite, TrackAgentRequest, cacheVars, callVars, IInv, Types, OneRefresher,
       KeysUnique, RefreshIsNewer, GoneIsUntracked, GensSeen, ViewsAreCurrent,
       PurgedNotCached, Refreshing

\* PurgeAgents of the inner tracker: fewer agents are tracked.
LEMMA PurgeInnerIInv ==
  ASSUME IInv, NEW S \in SUBSET Agents, purgeInner(S)
  PROVE  IInv'
BY DEF purgeInner, PurgeAgents, callVars, IInv, Types, OneRefresher, KeysUnique,
       RefreshIsNewer, GoneIsUntracked, GensSeen, ViewsAreCurrent, PurgedNotCached,
       Refreshing

\* PurgeAgents of the cache: it is emptied, and no view under way is of the new
\* generation.
LEMMA PurgeCacheIInv ==
  ASSUME IInv, purgeCache
  PROVE  IInv'
<1> USE DEF purgeCache, trackerVars, callVars, Types
<1>1. Types' /\ OneRefresher'
  BY DEF IInv, OneRefresher
<1>2. KeysUnique' /\ RefreshIsNewer' /\ PurgedNotCached'
  BY DEF IInv, KeysUnique, RefreshIsNewer, PurgedNotCached
<1>3. GoneIsUntracked'
  BY DEF IInv, GoneIsUntracked
<1>4. GensSeen' /\ ViewsAreCurrent'
  BY DEF IInv, GensSeen, ViewsAreCurrent
<1> QED
  BY <1>1, <1>2, <1>3, <1>4 DEF IInv

\* ClusterStats is called: the caller is not refreshing yet.
LEMMA CallIInv ==
  ASSUME IInv, NEW c \in Callers, NEW key \in Keys, ClusterStats(c, key)
  PROVE  IInv'
BY DEF ClusterStats, trackerVars, IInv, Types, OneRefresher, KeysUnique, RefreshIsNewer,
       GoneIsUntracked, GensSeen, ViewsAreCurrent, PurgedNotCached, Refreshing

\* The first lookup returns or goes on to wait for refreshMu.
LEMMA FirstLookupIInv ==
  ASSUME IInv, NEW c \in Callers, firstLookup(c)
  PROVE  IInv'
BY DEF firstLookup, trackerVars, IInv, Types, OneRefresher, KeysUnique, RefreshIsNewer,
       GoneIsUntracked, GensSeen, ViewsAreCurrent, PurgedNotCached, Refreshing

\* The second lookup, under refreshMu: a miss means that what is cached under the
\* key is at least a TTL older than now.
LEMMA SecondLookupIInv ==
  ASSUME IInv, NEW c \in Callers, secondLookup(c)
  PROVE  IInv'
<1> USE CacheAssumption DEF secondLookup, trackerVars, Types
<1>1. Types'
  BY DEF IInv
<1>2. OneRefresher'
  BY DEF IInv, OneRefresher, Refreshing
<1>3. RefreshIsNewer'
  BY DEF IInv, RefreshIsNewer, hits, Refreshing
<1>4. KeysUnique' /\ GoneIsUntracked' /\ GensSeen' /\ PurgedNotCached'
  BY DEF IInv, KeysUnique, GoneIsUntracked, GensSeen, PurgedNotCached
<1>5. ViewsAreCurrent'
  BY DEF IInv, ViewsAreCurrent
<1> QED
  BY <1>1, <1>2, <1>3, <1>4, <1>5 DEF IInv

\* The generation is read.
LEMMA ReadGenIInv ==
  ASSUME IInv, NEW c \in Callers, readGen(c)
  PROVE  IInv'
BY DEF readGen, trackerVars, IInv, Types, OneRefresher, KeysUnique, RefreshIsNewer,
       GoneIsUntracked, GensSeen, ViewsAreCurrent, PurgedNotCached, Refreshing

\* The view is computed from tracked agents, none of which is gone.
LEMMA ComputeIInv ==
  ASSUME IInv, NEW c \in Callers, compute(c)
  PROVE  IInv'
<1> DEFINE V == {n \in tracked : ~IsEmpty(snapshot(n, args[c].now).count)}
<1>1. V \subseteq tracked /\ view' = [view EXCEPT ![c] = V]
  BY DEF compute
<1> HIDE DEF V
<1> QED
  BY <1>1
  DEF compute, trackerVars, IInv, Types, OneRefresher, KeysUnique, RefreshIsNewer,
      GoneIsUntracked, GensSeen, ViewsAreCurrent, PurgedNotCached, Refreshing

\* The store: the new entry takes the place of the old one of its key, and is of no
\* agent that is gone since the generation is the one that was read.
LEMMA StoreIInv ==
  ASSUME IInv, NEW c \in Callers, store(c)
  PROVE  IInv'
<1> USE CacheAssumption DEF store, trackerVars, Types
<1>1. Types'
  BY DEF IInv
<1>2. OneRefresher'
  BY DEF IInv, OneRefresher, Refreshing
<1>3. KeysUnique'
  BY DEF IInv, KeysUnique
<1>4. RefreshIsNewer'
  BY DEF IInv, RefreshIsNewer, OneRefresher, Refreshing
<1>5. GoneIsUntracked' /\ GensSeen' /\ ViewsAreCurrent'
  BY DEF IInv, GoneIsUntracked, GensSeen, ViewsAreCurrent
<1>6. PurgedNotCached'
  BY DEF IInv, ViewsAreCurrent, PurgedNotCached
<1> QED
  BY <1>1, <1>2, <1>3, <1>4, <1>5, <1>6 DEF IInv

\* Time passes.
LEMMA TimeIInv ==
  ASSUME IInv, passTime
  PROVE  IInv'
BY DEF passTime, tick, trackerVars, cacheVars, callVars, IInv, Types, OneRefresher,
       KeysUnique, RefreshIsNewer, GoneIsUntracked, GensSeen, ViewsAreCurrent,
       PurgedNotCached, Refreshing

\* Every step of the cache and of its tracker preserves the invariant.
LEMMA StepIInv == IInv /\ [Next]_vars => IInv'
<1> SUFFICES ASSUME IInv, [Next]_vars PROVE IInv'
  OBVIOUS
<1>1. CASE UNCHANGED vars
  BY <1>1
  DEF vars, trackerVars, cacheVars, callVars, IInv, Types, OneRefresher, KeysUnique,
      RefreshIsNewer, GoneIsUntracked, GensSeen, ViewsAreCurrent, PurgedNotCached, Refreshing
<1>2. ASSUME NEW c \in Callers, CallerStep(c) PROVE IInv'
  BY <1>2, FirstLookupIInv, SecondLookupIInv, ReadGenIInv, ComputeIInv, StoreIInv
  DEF CallerStep
<1>3. ASSUME NEW c \in Callers, NEW key \in Keys, ClusterStats(c, key) PROVE IInv'
  BY <1>3, CallIInv
<1>4. ASSUME NEW w \in Writers, NEW n \in Agents, NEW o \in Outcomes, trackRequest(w, n, o)
      PROVE  IInv'
  BY <1>4, TrackIInv
<1>5. ASSUME NEW w \in Writers, trackWrite(w) PROVE IInv'
  BY <1>5, WriteIInv
<1>6. ASSUME NEW S \in SUBSET Agents, purgeInner(S) PROVE IInv'
  BY <1>6, PurgeInnerIInv
<1> QED
  BY <1>1, <1>2, <1>3, <1>4, <1>5, <1>6, PurgeCacheIInv, TimeIInv DEF Next

-----------------------------------------------------------------------------
\* The inductive invariant holds in every reachable state.
THEOREM CacheInvariant == Spec => []IInv
BY InitIInv, StepIInv, PTL DEF Spec

\* After PurgeAgents no cached view is of a departed agent, for any number of
\* goroutines, agents and purges.
THEOREM PurgedStaysOut == Spec => []PurgedNotCached
<1>1. IInv => PurgedNotCached
  BY DEF IInv
<1> QED
  BY <1>1, CacheInvariant, PTL

\* An entry of the cache is only ever replaced by one of the same or a later
\* instant, however long a goroutine has waited for refreshMu.
THEOREM CacheMovesForward == Spec => CacheNeverOlder
<1>1. IInv /\ [Next]_vars =>
        [\A e \in cache, f \in cache' : e.key = f.key => e.at <= f.at]_vars
  <2> SUFFICES ASSUME IInv, Next, NEW e \in cache, NEW f \in cache', e.key = f.key
               PROVE  e.at <= f.at
    OBVIOUS
  <2>1. e.at \in Nat
    BY DEF IInv, Types
  <2>2. CASE cache' \subseteq cache
    BY <2>1, <2>2 DEF IInv, KeysUnique
  <2>3. ASSUME NEW c \in Callers, store(c) PROVE e.at <= f.at
    <3>1. CASE f \in cache
      BY <2>1, <3>1 DEF IInv, KeysUnique
    <3>2. CASE f \notin cache
      <4>1. f.key = args[c].key /\ f.at = args[c].now
        BY <2>3, <3>2, SMTT(30) DEF store
      <4> QED
        BY <2>3, <4>1 DEF store, IInv, RefreshIsNewer, Refreshing
    <3> QED
      BY <3>1, <3>2
  <2>4. (\A c \in Callers : ~store(c)) => cache' \subseteq cache
    BY DEF Next, CallerStep, firstLookup, secondLookup, readGen, compute, ClusterStats,
           trackRequest, trackWrite, purgeInner, purgeCache, passTime, cacheVars
  <2> QED
    BY <2>2, <2>3, <2>4
<1> QED
  BY <1>1, CacheInvariant, PTL DEF Spec, CacheNeverOlder

-----------------------------------------------------------------------------
(***************************************************************************)
(* The ring of an agent against the history of what was tracked of it.     *)
(* RingIsWindow, which adds up the buckets, is a statement about a fold    *)
(* and is left to TLC; proved here is what it rests on, that the filled    *)
(* buckets are the epochs of the window with their counts.                 *)
(***************************************************************************)
\* The slot of an epoch.
slot(e) == e % NumBuckets

\* What a count and a bucket of the ring are, without the bound on requests.
Cnt == [sum : Nat, ok : Nat, faulty : Nat]
Bucket == [epoch : Nat, count : Cnt]

\* With the clock in epoch c, ring s holds of h, the counts per epoch, those of the
\* window, each in its slot; what is in a slot is what its epoch was told, all of
\* it, and nothing is told of epochs to come.
Ring(s, h, c) ==
  /\ \A i \in Slots : s[i].epoch = 0 => s[i].count = Empty
  /\ \A i \in Slots : s[i].epoch # 0 =>
       /\ s[i].epoch \in Epochs /\ s[i].epoch <= c /\ slot(s[i].epoch) = i
       /\ s[i].count = h[s[i].epoch]
  /\ \A e \in Epochs : IsEmpty(h[e]) \/ (0 < e /\ e <= c)
  /\ \A e \in Epochs : IsEmpty(h[e]) => h[e] = Empty
  /\ \A e \in Epochs : e > c - NumBuckets /\ ~IsEmpty(h[e]) => s[slot(e)].epoch = e

\* A call that has its entry read the clock at most MaxLag ago.
Call(r) ==
  /\ r \in [agent : Agents, now : Nat, o : Outcomes, orphan : BOOLEAN]
  /\ BucketDuration <= r.now /\ r.now <= clock /\ clock <= r.now + MaxLag

\* The inductive invariant of the rings.
RingInv ==
  /\ clock \in Nat /\ BucketDuration <= clock /\ clock <= MaxTime
  /\ DOMAIN pending = Writers
  /\ \A w \in Writers : pending[w] # Idle => Call(pending[w])
  /\ stats \in [Agents -> [Slots -> Bucket]]
  /\ seen \in [Agents -> [Epochs -> Cnt]]
  /\ \A n \in Agents : Ring(stats[n], seen[n], epoch(clock))

\* Epochs follow the clock, from 1 on.
LEMMA EpochOrder ==
  ASSUME NEW x \in Nat, NEW y \in Nat, x <= y
  PROVE  /\ epoch(x) \in Nat /\ epoch(y) \in Nat /\ epoch(x) <= epoch(y)
         /\ BucketDuration <= x => 0 < epoch(x)
<1>1. BucketDuration \in Nat \ {0}
  BY TrackerAssumption
<1> QED
  BY <1>1 DEF epoch

\* What was read less than MaxLag ago is in the window.
LEMMA EpochLag ==
  ASSUME NEW x \in Nat, NEW y \in Nat, y <= x + MaxLag
  PROVE  epoch(x) > epoch(y) - NumBuckets
<1>1. BucketDuration \in Nat \ {0} /\ NumBuckets \in Nat \ {0} /\ MaxLag \in Nat
      /\ MaxLag <= (NumBuckets - 1) * BucketDuration
  BY TrackerAssumption
<1> DEFINE k == NumBuckets - 1
<1>2. k \in Nat /\ k * BucketDuration \in Nat
  BY <1>1
<1>3. (x + k * BucketDuration) \div BucketDuration = (x \div BucketDuration) + k
  <2> HIDE DEF k
  <2> QED
    BY <1>1, <1>2
<1> DEFINE z == x + k * BucketDuration
<1>4. z \in Nat /\ y <= z
  BY <1>1, <1>2
<1>5. epoch(z) = epoch(x) + k
  BY <1>3 DEF epoch
<1> HIDE DEF z
<1>6. epoch(y) <= epoch(z) /\ epoch(y) \in Nat /\ epoch(x) \in Nat
  BY <1>4, EpochOrder
<1> QED
  BY <1>1, <1>5, <1>6

\* Every epoch has a slot.
LEMMA SlotOf == ASSUME NEW e \in Nat PROVE slot(e) \in Slots
<1>1. NumBuckets \in Nat \ {0}
  BY TrackerAssumption
<1> QED
  BY <1>1 DEF slot, Slots

\* Two epochs of the window do not share a slot.
LEMMA SlotOnce ==
  ASSUME NEW c \in Nat, NEW e \in Nat, NEW f \in Nat, slot(e) = slot(f),
         e > c - NumBuckets, f > c - NumBuckets, e <= c, f <= c
  PROVE  e = f
<1>1. NumBuckets \in Nat \ {0}
  BY TrackerAssumption
<1> DEFINE b == NumBuckets
           q == e \div b
           p == f \div b
           r == e % b
<1>2. q \in Int /\ p \in Int /\ r \in Int /\ e = b * q + r /\ f = b * p + r
  BY <1>1 DEF slot
<1> HIDE DEF q, p, r
<1>3. e < f + b /\ f < e + b
  BY <1>1
<1>4. b * q < b * (p + 1) /\ b * p < b * (q + 1)
  BY <1>1, <1>2, <1>3
<1>5. q < p + 1 /\ p < q + 1
  BY <1>1, <1>2, <1>4
<1>6. q = p
  BY <1>2, <1>5
<1> QED
  BY <1>2, <1>6

\* A ring that is new holds nothing.
LEMMA RingNew ==
  ASSUME NEW c
  PROVE  /\ NewRing \in [Slots -> Bucket] /\ Nothing \in [Epochs -> Cnt]
         /\ Ring(NewRing, Nothing, c)
<1>1. /\ \A i \in Slots : NewRing[i] = [epoch |-> 0, count |-> Empty]
      /\ \A e \in Epochs : Nothing[e] = Empty
  BY Zenon DEF NewRing, Nothing
<1>2. Empty \in Cnt /\ IsEmpty(Empty)
  BY DEF Empty, Cnt, IsEmpty
<1>3. [epoch |-> 0, count |-> Empty] \in Bucket
  BY <1>2 DEF Bucket
<1>4. NewRing \in [Slots -> Bucket] /\ Nothing \in [Epochs -> Cnt]
  BY <1>2, <1>3, Zenon DEF NewRing, Nothing
<1>5. \A i \in Slots : NewRing[i].epoch = 0 /\ NewRing[i].count = Empty
  BY <1>1
<1>6. \A e \in Epochs : IsEmpty(Nothing[e])
  BY <1>1, <1>2, Zenon
<1> QED
  BY <1>1, <1>4, <1>5, <1>6, Zenon DEF Ring

\* As time passes the window only loses epochs.
LEMMA RingLater ==
  ASSUME NEW s \in [Slots -> Bucket], NEW h, NEW c \in Nat, NEW d \in Nat, c <= d, Ring(s, h, c)
  PROVE  Ring(s, h, d)
<1>1. NumBuckets \in Nat /\ \A e \in Epochs : e \in Int
  BY TrackerAssumption DEF Epochs
<1>2. \A i \in Slots : s[i].epoch \in Nat
  BY DEF Bucket
<1>3. \A e \in Int : (e <= c => e <= d) /\ (e > d - NumBuckets => e > c - NumBuckets)
  BY <1>1
<1>4. \A i \in Slots : s[i].epoch # 0 =>
       /\ s[i].epoch \in Epochs /\ s[i].epoch <= d /\ slot(s[i].epoch) = i
       /\ s[i].count = h[s[i].epoch]
  BY <1>1, <1>3, Zenon DEF Ring
<1>5. \A e \in Epochs : IsEmpty(h[e]) \/ (0 < e /\ e <= d)
  BY <1>1, <1>3, Zenon DEF Ring
<1>6. \A e \in Epochs : e > d - NumBuckets /\ ~IsEmpty(h[e]) => s[slot(e)].epoch = e
  BY <1>1, <1>3, Zenon DEF Ring
<1> QED
  BY <1>4, <1>5, <1>6, Zenon DEF Ring

\* What Counted makes is a count and not empty.
LEMMA CountedIs ==
  ASSUME NEW b \in Cnt, NEW o \in Outcomes
  PROVE  Counted(b, o) \in Cnt /\ ~IsEmpty(Counted(b, o))
<1>1. o.lat \in Nat
  <2>1. CASE o = [ok |-> FALSE, lat |-> 0]
    BY <2>1
  <2>2. CASE o \in {[ok |-> TRUE, lat |-> l] : l \in Latencies}
    <3>1. PICK l \in Latencies : o = [ok |-> TRUE, lat |-> l]
      BY <2>2
    <3> QED
      BY <3>1, TrackerAssumption
  <2> QED
    BY <2>1, <2>2, Zenon DEF Outcomes
<1>2. b.sum \in Nat /\ b.ok \in Nat /\ b.faulty \in Nat
  BY DEF Cnt
<1> DEFINE x == IF o.ok THEN 1 ELSE 0
           y == IF o.ok THEN 0 ELSE 1
<1>3. x \in Nat /\ y \in Nat /\ x + y = 1
  OBVIOUS
<1>4. Counted(b, o) = [sum |-> b.sum + o.lat, ok |-> b.ok + x, faulty |-> b.faulty + y]
  BY Zenon DEF Counted
<1> HIDE DEF x, y
<1>5. b.sum + o.lat \in Nat /\ b.ok + x \in Nat /\ b.faulty + y \in Nat
      /\ (b.ok + x) + (b.faulty + y) # 0
  BY <1>1, <1>2, <1>3
<1> QED
  BY <1>4, <1>5 DEF Cnt, IsEmpty

\* Rings t and g are s and h after a request of outcome o, of epoch e.
Written(s, h, c, e, o, t, g) ==
  /\ s \in [Slots -> Bucket] /\ h \in [Epochs -> Cnt] /\ c \in Nat /\ Ring(s, h, c)
  /\ e \in Epochs /\ e \in Nat /\ 0 < e /\ e <= c /\ e > c - NumBuckets /\ o \in Outcomes
  /\ t = [s EXCEPT ![slot(e)] =
             [epoch |-> e, count |-> Counted(bucket(s[slot(e)], e).count, o)]]
  /\ g = [h EXCEPT ![e] = Counted(h[e], o)]

\* A request of an epoch in the window is counted in its slot: what another epoch
\* left there is dropped, and was of none in the window.
LEMMA RingWrite ==
  ASSUME NEW s, NEW h, NEW c, NEW e, NEW o, NEW t, NEW g, Written(s, h, c, e, o, t, g)
  PROVE  t \in [Slots -> Bucket] /\ g \in [Epochs -> Cnt] /\ Ring(t, g, c)
<1> DEFINE x == Counted(bucket(s[slot(e)], e).count, o)
           y == Counted(h[e], o)
<1>b. /\ s \in [Slots -> Bucket] /\ h \in [Epochs -> Cnt] /\ c \in Nat /\ Ring(s, h, c)
      /\ e \in Epochs /\ e \in Nat /\ 0 < e /\ e <= c /\ e > c - NumBuckets /\ o \in Outcomes
      /\ t = [s EXCEPT ![slot(e)] = [epoch |-> e, count |-> x]]
      /\ g = [h EXCEPT ![e] = y]
      /\ x = Counted(bucket(s[slot(e)], e).count, o) /\ y = Counted(h[e], o)
  BY Zenon DEF Written
<1> USE <1>b
<1> HIDE DEF x, y
<1> DEFINE k == slot(e)
<1>1. k \in Slots
  BY SlotOf
<1>2. bucket(s[k], e).count = h[e]
  <2>1. CASE s[k].epoch = e
    <3>1. bucket(s[k], e) = s[k]
      BY <2>1, Zenon DEF bucket
    <3>2. e # 0
      OBVIOUS
    <3> QED
      BY <1>1, <2>1, <3>1, <3>2, Zenon DEF Ring
  <2>2. CASE s[k].epoch # e
    <3>1. bucket(s[k], e).count = Empty
      BY <2>2 DEF bucket
    <3>2. IsEmpty(h[e])
      BY <2>2, Zenon DEF Ring
    <3> QED
      BY <3>1, <3>2, Zenon DEF Ring
  <2> QED
    BY <2>1, <2>2
<1>3. x = y /\ h[e] \in Cnt
  BY <1>2, Zenon
<1>4. y \in Cnt /\ ~IsEmpty(y)
  BY <1>3, CountedIs, Zenon
<1> DEFINE b == [epoch |-> e, count |-> x]
<1>5. b \in Bucket /\ b.epoch = e /\ b.count = y
  BY <1>3, <1>4 DEF Bucket
<1>a. t = [s EXCEPT ![k] = b]
  BY Zenon
<1> HIDE DEF b, k
<1>6. t \in [Slots -> Bucket] /\ g \in [Epochs -> Cnt]
  BY <1>4, <1>5, <1>a, ZenonT(40)
<1>7. t[k] = b /\ \A i \in Slots \ {k} : t[i] = s[i]
  BY <1>1, <1>a, Zenon
<1>8. g[e] = y /\ \A f \in Epochs \ {e} : g[f] = h[f]
  BY Zenon
<1>9. ASSUME NEW i \in Slots
      PROVE  /\ t[i].epoch = 0 => t[i].count = Empty
             /\ t[i].epoch # 0 => /\ t[i].epoch \in Epochs /\ t[i].epoch <= c
                                  /\ slot(t[i].epoch) = i
                                  /\ t[i].count = g[t[i].epoch]
  <2>1. CASE i = k
    <3>1. t[i].epoch = e /\ t[i].count = y /\ e # 0 /\ slot(e) = i
      BY <1>5, <1>7, <2>1 DEF k
    <3> QED
      BY <1>8, <3>1, Zenon
  <2>2. CASE i # k
    <3>1. t[i] = s[i]
      BY <1>7, <2>2, Zenon
    <3>2. s[i].epoch # 0 => s[i].epoch # e
      BY <2>2, Zenon DEF Ring, k
    <3>3. s[i].epoch # 0 => s[i].epoch \in Epochs /\ s[i].count = h[s[i].epoch]
      BY Zenon DEF Ring
    <3>4. s[i].epoch # 0 => s[i].count = g[s[i].epoch]
      BY <1>8, <3>2, <3>3, Zenon
    <3> QED
      BY <3>1, <3>4, Zenon DEF Ring
  <2> QED
    BY <2>1, <2>2, Zenon
<1>10. ASSUME NEW f \in Epochs
       PROVE  /\ IsEmpty(g[f]) \/ (0 < f /\ f <= c)
              /\ IsEmpty(g[f]) => g[f] = Empty
              /\ f > c - NumBuckets /\ ~IsEmpty(g[f]) => t[slot(f)].epoch = f
  <2>1. CASE f = e
    <3>1. ~IsEmpty(g[f]) /\ t[slot(f)].epoch = f
      BY <1>4, <1>5, <1>7, <1>8, <2>1, Zenon DEF k
    <3> QED
      BY <2>1, <3>1, Zenon
  <2>2. CASE f # e
    <3>1. g[f] = h[f]
      BY <1>8, <2>2, Zenon
    <3>2. ASSUME f > c - NumBuckets, ~IsEmpty(h[f]) PROVE t[slot(f)].epoch = f
      <4>1. f <= c /\ f \in Nat
        BY <3>2 DEF Ring, Epochs
      <4>2. slot(f) # k
        BY <2>2, <3>2, <4>1, SlotOnce, Zenon DEF k
      <4>3. slot(f) \in Slots
        BY <4>1, SlotOf
      <4>4. t[slot(f)] = s[slot(f)]
        BY <1>7, <4>2, <4>3, Zenon
      <4> QED
        BY <3>2, <4>4, Zenon DEF Ring
    <3> QED
      BY <3>1, <3>2, Zenon DEF Ring
  <2> QED
    BY <2>1, <2>2, Zenon
<1>11. Ring(t, g, c)
  BY <1>9, <1>10, Zenon DEF Ring
<1> QED
  BY <1>6, <1>11, Zenon

-----------------------------------------------------------------------------
\* The rings are empty when the tracker is made.
LEMMA InitRing == Init => RingInv
<1> SUFFICES ASSUME Init PROVE RingInv
  OBVIOUS
<1>1. clock \in Nat /\ BucketDuration <= clock /\ clock <= MaxTime
  BY TrackerAssumption DEF Init, TrackerInit
<1>2. DOMAIN pending = Writers /\ \A w \in Writers : pending[w] = Idle
  BY Zenon DEF Init, TrackerInit
<1>3. /\ \A n \in Agents : stats[n] = NewRing /\ seen[n] = Nothing
      /\ stats = [n \in Agents |-> NewRing] /\ seen = [n \in Agents |-> Nothing]
  BY Zenon DEF Init, TrackerInit
<1>4. stats \in [Agents -> [Slots -> Bucket]] /\ seen \in [Agents -> [Epochs -> Cnt]]
  BY <1>3, RingNew, Zenon
<1>5. \A n \in Agents : Ring(stats[n], seen[n], epoch(clock))
  BY <1>3, RingNew, Zenon
<1> QED
  BY <1>1, <1>2, <1>4, <1>5, Zenon DEF RingInv

\* getOrCreate: the call has the time of the clock.
LEMMA TrackRing ==
  ASSUME RingInv, NEW w \in Writers, NEW n \in Agents, NEW o \in Outcomes, getOrCreate(w, n, o)
  PROVE  RingInv'
<1> DEFINE r == [agent |-> n, now |-> clock, o |-> o, orphan |-> FALSE]
<1>1. clock' = clock /\ stats' = stats /\ seen' = seen /\ pending' = [pending EXCEPT ![w] = r]
  BY Zenon DEF getOrCreate
<1>2. r \in [agent : Agents, now : Nat, o : Outcomes, orphan : BOOLEAN] /\ r.now = clock
  BY DEF RingInv
<1>3. clock <= clock + MaxLag
  BY TrackerAssumption DEF RingInv
<1>4. BucketDuration <= clock /\ clock <= clock
  BY DEF RingInv
<1> HIDE DEF r
<1>5. Call(r)'
  BY <1>1, <1>2, <1>3, <1>4, Zenon DEF Call, r
<1>6. DOMAIN pending' = Writers /\ pending'[w] = r
      /\ \A v \in Writers \ {w} : pending'[v] = pending[v]
  BY <1>1, Zenon DEF RingInv
<1>7. ASSUME NEW v \in Writers, pending'[v] # Idle PROVE Call(pending[v])'
  <2>1. CASE v = w
    BY <1>1, <1>5, <1>6, <2>1, Zenon DEF Call, r
  <2>2. CASE v # w
    <3>1. Call(pending[v]) /\ pending'[v] = pending[v]
      BY <1>6, <1>7, <2>2, Zenon DEF RingInv
    <3> QED
      BY <1>1, <3>1, Zenon DEF Call
  <2> QED
    BY <2>1, <2>2
<1>8. \A m \in Agents : Ring(stats[m], seen[m], epoch(clock))'
  BY <1>1, Zenon DEF RingInv, Ring, epoch
<1>9. /\ clock' \in Nat /\ BucketDuration <= clock' /\ clock' <= MaxTime
      /\ stats' \in [Agents -> [Slots -> Bucket]] /\ seen' \in [Agents -> [Epochs -> Cnt]]
  BY <1>1, Zenon DEF RingInv
<1> QED
  BY <1>6, <1>7, <1>8, <1>9, Zenon DEF RingInv

\* The write: its epoch is in the window, because no call is that late.
LEMMA WriteRing ==
  ASSUME RingInv, NEW w \in Writers, TrackAgentRequest(w)
  PROVE  RingInv'
<1> DEFINE r == pending[w]
           e == epoch(r.now)
           c == epoch(clock)
           s == stats[r.agent]
           h == seen[r.agent]
           x == Counted(bucket(s[slot(e)], e).count, r.o)
           y == Counted(h[e], r.o)
<1>1. r # Idle /\ clock' = clock /\ pending' = [pending EXCEPT ![w] = Idle]
  BY Zenon DEF TrackAgentRequest
<1>2. Call(r)
  BY <1>1, Zenon DEF RingInv
<1>3. /\ DOMAIN pending' = Writers
      /\ \A v \in Writers : pending'[v] # Idle => pending'[v] = pending[v]
  BY <1>1, Zenon DEF RingInv
<1>4. ASSUME NEW v \in Writers, pending'[v] # Idle PROVE Call(pending[v])'
  <2>1. Call(pending[v]) /\ pending'[v] = pending[v]
    BY <1>3, <1>4, Zenon DEF RingInv
  <2> QED
    BY <1>1, <2>1, Zenon DEF Call
<1>5. clock' \in Nat /\ BucketDuration <= clock' /\ clock' <= MaxTime
  BY <1>1, Zenon DEF RingInv
<1>6. /\ stats' \in [Agents -> [Slots -> Bucket]] /\ seen' \in [Agents -> [Epochs -> Cnt]]
      /\ \A m \in Agents : Ring(stats'[m], seen'[m], c)
  <2>1. CASE r.orphan
    <3>1. stats' = stats /\ seen' = seen
      BY <2>1, Zenon DEF TrackAgentRequest
    <3> QED
      BY <3>1, Zenon DEF RingInv
  <2>2. CASE ~r.orphan
    <3>1. /\ r.agent \in Agents /\ r.now \in Nat /\ r.o \in Outcomes
          /\ BucketDuration <= r.now /\ r.now <= clock /\ clock <= r.now + MaxLag
          /\ clock \in Nat /\ clock <= MaxTime /\ MaxTime \in Nat
      BY <1>2, TrackerAssumption DEF Call, RingInv
    <3>2. e \in Nat /\ c \in Nat /\ 0 < e /\ e <= c /\ e > c - NumBuckets
      BY <3>1, EpochOrder, EpochLag
    <3>3. c <= epoch(MaxTime) /\ epoch(MaxTime) \in Nat
      BY <3>1, EpochOrder
    <3>4. e \in Epochs
      <4> HIDE DEF e, c
      <4> QED
        BY <3>2, <3>3 DEF Epochs
    <3>5. s \in [Slots -> Bucket] /\ h \in [Epochs -> Cnt] /\ Ring(s, h, c)
      BY <3>1, Zenon DEF RingInv
    <3>6. slot(e) \in Slots
      BY <3>2, SlotOf, Zenon
    <3> DEFINE b == bucket(s[slot(e)], e)
               t == [s EXCEPT ![slot(e)] = [epoch |-> e, count |-> x]]
               g == [h EXCEPT ![e] = y]
    <3>7. [b EXCEPT !.count = Counted(@, r.o)] = [epoch |-> e, count |-> x]
      <4>1. s[slot(e)] \in Bucket
        BY <3>5, <3>6, Zenon
      <4>2. s[slot(e)] = [epoch |-> s[slot(e)].epoch, count |-> s[slot(e)].count]
        BY <4>1, SMTT(30) DEF Bucket
      <4>3. b = [epoch |-> e, count |-> b.count]
        BY <4>2 DEF bucket
      <4> HIDE DEF b, e, r
      <4>4. x = Counted(b.count, r.o)
        BY Zenon DEF b
      <4> HIDE DEF x
      <4> QED
        BY <4>3, <4>4
    <3>8. /\ stats' = [stats EXCEPT ![r.agent][slot(e)] = [b EXCEPT !.count = Counted(@, r.o)]]
          /\ seen' = [seen EXCEPT ![r.agent][e] = Counted(@, r.o)]
      BY <2>2, Zenon DEF TrackAgentRequest, bucketIndex, slot
    <3>9. stats' = [stats EXCEPT ![r.agent] = t] /\ seen' = [seen EXCEPT ![r.agent] = g]
      BY <3>7, <3>8, Zenon
    <3>10. t \in [Slots -> Bucket] /\ g \in [Epochs -> Cnt] /\ Ring(t, g, c)
      <4> DEFINE o == r.o
      <4>1. Written(s, h, c, e, o, t, g)
        BY <3>1, <3>2, <3>4, <3>5, Zenon DEF Written
      <4> HIDE DEF c, e, s, h, r, o, x, y, t, g
      <4> QED
        BY <4>1, RingWrite, Zenon
    <3> HIDE DEF t, g, c
    <3>11. stats \in [Agents -> [Slots -> Bucket]] /\ seen \in [Agents -> [Epochs -> Cnt]]
      BY Zenon DEF RingInv
    <3>12. /\ stats'[r.agent] = t /\ seen'[r.agent] = g
           /\ \A m \in Agents \ {r.agent} : stats'[m] = stats[m] /\ seen'[m] = seen[m]
      BY <3>1, <3>9, <3>11, Zenon
    <3>13. stats' \in [Agents -> [Slots -> Bucket]] /\ seen' \in [Agents -> [Epochs -> Cnt]]
      BY <3>9, <3>10, <3>11, Zenon
    <3>14. \A m \in Agents : Ring(stats[m], seen[m], c)
      BY Zenon DEF RingInv, c
    <3> QED
      BY <3>10, <3>12, <3>13, <3>14, Zenon
  <2> QED
    BY <2>1, <2>2
<1>7. \A m \in Agents : Ring(stats[m], seen[m], epoch(clock))'
  BY <1>1, <1>6, Zenon DEF Ring, epoch
<1> QED
  BY <1>3, <1>4, <1>5, <1>6, <1>7, Zenon DEF RingInv

\* PurgeAgents: the rings it drops are new, and the calls that hold one are told.
LEMMA PurgeRing ==
  ASSUME RingInv, NEW N \in SUBSET Agents, PurgeAgents(N)
  PROVE  RingInv'
<1>1. /\ clock' = clock
      /\ stats' = [n \in Agents |-> IF n \in N THEN NewRing ELSE stats[n]]
      /\ seen' = [n \in Agents |-> IF n \in N THEN Nothing ELSE seen[n]]
      /\ pending' = [w \in Writers |-> IF pending[w] # Idle /\ pending[w].agent \in N
                                       THEN [pending[w] EXCEPT !.orphan = TRUE] ELSE pending[w]]
  BY Zenon DEF PurgeAgents
<1>2. DOMAIN pending' = Writers
  BY <1>1, Zenon
<1>3. ASSUME NEW v \in Writers, pending'[v] # Idle PROVE Call(pending[v])'
  <2>1. CASE pending[v] # Idle /\ pending[v].agent \in N
    <3> DEFINE r == pending[v]
               q == [r EXCEPT !.orphan = TRUE]
    <3>1. Call(r) /\ pending'[v] = q
      BY <1>1, <2>1, Zenon DEF RingInv
    <3>2. r \in [agent : Agents, now : Nat, o : Outcomes, orphan : BOOLEAN]
      BY <3>1, Zenon DEF Call
    <3> HIDE DEF r
    <3>3. q \in [agent : Agents, now : Nat, o : Outcomes, orphan : BOOLEAN] /\ q.now = r.now
      BY <3>2, Zenon
    <3> HIDE DEF q
    <3> QED
      BY <1>1, <3>1, <3>3, Zenon DEF Call
  <2>2. CASE ~(pending[v] # Idle /\ pending[v].agent \in N)
    <3>1. pending'[v] = pending[v]
      BY <1>1, <2>2, Zenon
    <3>2. Call(pending[v])
      BY <1>3, <3>1, Zenon DEF RingInv
    <3> QED
      BY <1>1, <3>1, <3>2, Zenon DEF Call
  <2> QED
    BY <2>1, <2>2, Zenon
<1>4. /\ \A n \in N : stats'[n] = NewRing /\ seen'[n] = Nothing
      /\ \A n \in Agents \ N : stats'[n] = stats[n] /\ seen'[n] = seen[n]
  BY <1>1, Zenon
<1>5. \A n \in Agents : /\ stats'[n] \in [Slots -> Bucket] /\ seen'[n] \in [Epochs -> Cnt]
                        /\ Ring(stats'[n], seen'[n], epoch(clock))
  BY <1>4, RingNew, Zenon DEF RingInv
<1>6. stats' \in [Agents -> [Slots -> Bucket]] /\ seen' \in [Agents -> [Epochs -> Cnt]]
  BY <1>1, <1>5
<1>7. \A m \in Agents : Ring(stats[m], seen[m], epoch(clock))'
  BY <1>1, <1>5, ZenonT(40) DEF Ring, epoch
<1>8. clock' \in Nat /\ BucketDuration <= clock' /\ clock' <= MaxTime
  BY <1>1, Zenon DEF RingInv
<1> QED
  BY <1>2, <1>3, <1>6, <1>7, <1>8, Zenon DEF RingInv

\* Time passes.
LEMMA TickRing ==
  ASSUME RingInv, tick
  PROVE  RingInv'
<1>1. /\ clock < MaxTime /\ clock' = clock + 1
      /\ stats' = stats /\ seen' = seen /\ pending' = pending
      /\ \A w \in Writers : pending[w] # Idle => pending[w].now + MaxLag >= clock'
  BY Zenon DEF tick, trackerVars
<1>2. /\ clock \in Nat /\ clock' \in Nat /\ BucketDuration <= clock' /\ clock' <= MaxTime
      /\ clock <= clock'
  BY <1>1, TrackerAssumption DEF RingInv
<1>3. ASSUME NEW v \in Writers, pending'[v] # Idle PROVE Call(pending[v])'
  <2> DEFINE r == pending[v]
  <2>1. Call(r) /\ r # Idle /\ pending'[v] = r
    BY <1>1, <1>3, Zenon DEF RingInv
  <2>2. r.now \in Nat /\ MaxLag \in Nat /\ r.now + MaxLag >= clock' /\ r.now <= clock
    BY <1>1, <2>1, TrackerAssumption DEF Call
  <2> HIDE DEF r
  <2>3. r.now <= clock' /\ clock' <= r.now + MaxLag
    BY <1>2, <2>2
  <2> QED
    BY <2>1, <2>3, Zenon DEF Call
<1>4. epoch(clock) \in Nat /\ epoch(clock)' \in Nat /\ epoch(clock) <= epoch(clock)'
  BY <1>2, EpochOrder DEF epoch
<1>5. ASSUME NEW m \in Agents PROVE Ring(stats[m], seen[m], epoch(clock))'
  <2>1. stats[m] \in [Slots -> Bucket] /\ Ring(stats[m], seen[m], epoch(clock))
    BY Zenon DEF RingInv
  <2>2. Ring(stats[m], seen[m], epoch(clock)')
    BY <1>4, <2>1, RingLater, Zenon
  <2> QED
    BY <1>1, <2>2, Zenon DEF Ring
<1>6. /\ DOMAIN pending' = Writers
      /\ stats' \in [Agents -> [Slots -> Bucket]] /\ seen' \in [Agents -> [Epochs -> Cnt]]
  BY <1>1, Zenon DEF RingInv
<1> QED
  BY <1>2, <1>3, <1>5, <1>6, Zenon DEF RingInv

\* Every step of the tracker and of the cache over it keeps the rings.
LEMMA StepRing == RingInv /\ [Next]_vars => RingInv'
<1> SUFFICES ASSUME RingInv, [Next]_vars PROVE RingInv'
  OBVIOUS
<1>1. ASSUME UNCHANGED <<clock, trackerVars>> PROVE RingInv'
  <2>1. clock' = clock /\ stats' = stats /\ seen' = seen /\ pending' = pending
    BY <1>1, Zenon DEF trackerVars
  <2>2. \A r : Call(r) => Call(r)'
    BY <2>1, Zenon DEF Call
  <2>3. \A v \in Writers : pending'[v] # Idle => Call(pending[v])'
    BY <2>1, <2>2, Zenon DEF RingInv, Call
  <2>4. \A m \in Agents : Ring(stats[m], seen[m], epoch(clock))'
    BY <2>1, Zenon DEF RingInv, Ring, epoch
  <2> QED
    BY <2>1, <2>3, <2>4, Zenon DEF RingInv
<1>2. CASE UNCHANGED vars
  BY <1>1, <1>2, Zenon DEF vars
<1>3. ASSUME NEW c \in Callers, CallerStep(c) \/ \E key \in Keys : ClusterStats(c, key)
      PROVE  RingInv'
  <2>1. UNCHANGED <<clock, trackerVars>>
    BY <1>3, Zenon
    DEF CallerStep, ClusterStats, firstLookup, secondLookup, readGen, compute, store
  <2> QED
    BY <1>1, <2>1, Zenon
<1>4. CASE \E w \in Writers : \/ \E n \in Agents, o \in Outcomes : trackRequest(w, n, o)
                              \/ trackWrite(w)
  BY <1>4, TrackRing, WriteRing, Zenon DEF trackRequest, trackWrite
<1>5. CASE \E S \in SUBSET Agents : purgeInner(S)
  BY <1>5, PurgeRing, Zenon DEF purgeInner
<1>6. CASE purgeCache
  BY <1>1, <1>6, Zenon DEF purgeCache
<1>7. CASE passTime
  BY <1>7, TickRing, Zenon DEF passTime
<1> QED
  BY <1>2, <1>3, <1>4, <1>5, <1>6, <1>7, Zenon DEF Next

\* What is in the window of an agent.
window(n) == {e \in Epochs : e > epoch(clock) - NumBuckets /\ ~IsEmpty(seen[n][e])}

\* The filled buckets of an agent are the epochs of its window, one to one, each
\* with all that was tracked of the agent in the epoch; so minFilledBuckets is
\* compared with the number of epochs that had requests.
WindowBySlot ==
  \A n \in Agents :
    /\ \A e \in window(n) : slot(e) \in filled(n, clock) /\ stats[n][slot(e)].count = seen[n][e]
    /\ \A i \in filled(n, clock) : \E e \in window(n) : slot(e) = i
    /\ \A e, f \in window(n) : slot(e) = slot(f) => e = f
    /\ snapshot(n, clock).filledBuckets = Cardinality(window(n))

\* The rings give it.
LEMMA RingHasWindow == RingInv => WindowBySlot
<1> SUFFICES ASSUME RingInv, NEW n \in Agents
             PROVE  /\ \A e \in window(n) : /\ slot(e) \in filled(n, clock)
                                            /\ stats[n][slot(e)].count = seen[n][e]
                    /\ \A i \in filled(n, clock) : \E e \in window(n) : slot(e) = i
                    /\ \A e, f \in window(n) : slot(e) = slot(f) => e = f
                    /\ snapshot(n, clock).filledBuckets = Cardinality(window(n))
  BY Zenon DEF WindowBySlot
<1> DEFINE s == stats[n]
           h == seen[n]
           c == epoch(clock)
           W == window(n)
           F == filled(n, clock)
<1>1. Ring(s, h, c) /\ s \in [Slots -> Bucket] /\ h \in [Epochs -> Cnt]
  BY Zenon DEF RingInv
<1>2. c \in Nat /\ NumBuckets \in Nat \ {0} /\ clock \in Nat /\ Epochs \subseteq Nat
  BY EpochOrder, TrackerAssumption DEF RingInv, Epochs
<1>3. /\ W = {e \in Epochs : e > c - NumBuckets /\ ~IsEmpty(h[e])}
      /\ F = {i \in Slots : ~IsEmpty(s[i].count) /\ s[i].epoch >= cutoff(clock)}
  BY Zenon DEF window, filled
<1>4. cutoff(clock) = c - (NumBuckets - 1)
  BY Zenon DEF cutoff
<1> HIDE DEF s, h, c, W, F
<1>5. \A e \in Nat : e > c - NumBuckets <=> e >= cutoff(clock)
  BY <1>2, <1>4
<1>6. ASSUME NEW e \in W PROVE slot(e) \in F /\ s[slot(e)].count = h[e] /\ e \in Nat /\ e <= c
  <2>1. e \in Epochs /\ e \in Nat /\ e > c - NumBuckets /\ ~IsEmpty(h[e])
    BY <1>2, <1>3, Zenon
  <2>2. s[slot(e)].epoch = e /\ 0 < e /\ e <= c
    BY <1>1, <2>1, Zenon DEF Ring
  <2>3. slot(e) \in Slots /\ e # 0
    BY <2>1, <2>2, SlotOf
  <2>4. s[slot(e)].count = h[e]
    BY <1>1, <2>2, <2>3, Zenon DEF Ring
  <2>5. e >= cutoff(clock)
    BY <1>5, <2>1, Zenon
  <2> QED
    BY <1>3, <2>1, <2>2, <2>3, <2>4, <2>5, Zenon
<1>7. ASSUME NEW i \in F PROVE \E e \in W : slot(e) = i
  <2>1. i \in Slots /\ ~IsEmpty(s[i].count) /\ s[i].epoch >= cutoff(clock)
    BY <1>3, Zenon
  <2>2. s[i].epoch # 0
    <3>1. IsEmpty(Empty)
      BY DEF Empty, IsEmpty
    <3> QED
      BY <1>1, <2>1, <3>1, Zenon DEF Ring
  <2>3. s[i].epoch \in Epochs /\ slot(s[i].epoch) = i /\ s[i].count = h[s[i].epoch]
    BY <1>1, <2>1, <2>2, Zenon DEF Ring
  <2>4. s[i].epoch > c - NumBuckets
    BY <1>2, <1>5, <2>1, <2>3, Zenon
  <2> QED
    BY <1>3, <2>1, <2>3, <2>4, Zenon
<1>8. ASSUME NEW e \in W, NEW f \in W, slot(e) = slot(f) PROVE e = f
  <2>1. e > c - NumBuckets /\ f > c - NumBuckets
    BY <1>3, Zenon
  <2> QED
    BY <1>2, <1>6, <1>8, <2>1, SlotOnce, Zenon
<1>9. Cardinality(F) = Cardinality(W)
  <2> DEFINE m == [e \in W |-> slot(e)]
  <2>1. m \in [W -> F] /\ \A e \in W : m[e] = slot(e)
    BY <1>6, Zenon
  <2> HIDE DEF m
  <2>2. \A a, b \in W : m[a] = m[b] => a = b
    BY <1>8, <2>1, Zenon
  <2>3. \A i \in F : \E e \in W : m[e] = i
    BY <1>7, <2>1, Zenon
  <2>4. m \in Bijection(W, F)
    BY <2>1, <2>2, <2>3, Zenon DEF Bijection, Injection, Surjection, IsInjective
  <2>5. IsFiniteSet(W)
    <3>1. IsFiniteSet(Epochs)
      <4>1. MaxTime \in Nat
        BY TrackerAssumption
      <4>2. epoch(MaxTime) \in Int /\ 0 \in Int
        BY <4>1, EpochOrder
      <4> QED
        BY <4>2, FS_Interval, Zenon DEF Epochs
    <3> QED
      BY <1>3, <3>1, FS_Subset, Zenon
  <2>6. ExistsBijection(W, F)
    BY <2>4, Zenon DEF ExistsBijection
  <2> QED
    BY <2>5, <2>6, FS_Bijection, Zenon
<1>10. snapshot(n, clock).filledBuckets = Cardinality(F)
  BY DEF snapshot, F
<1> QED
  BY <1>6, <1>7, <1>8, <1>9, <1>10, Zenon DEF s, h, W, F

\* The ring holds the window, bucket by bucket, for any number of writers, agents
\* and buckets and however late a write comes, as long as none is later than the
\* ring is long.
THEOREM RingHoldsWindow == Spec => []WindowBySlot
BY InitRing, StepRing, RingHasWindow, PTL DEF Spec
=============================================================================
