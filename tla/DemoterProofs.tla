--------------------------- MODULE DemoterProofs ---------------------------
(***************************************************************************)
(* Proofs about the Demoter: a selection never refuses to route, and when  *)
(* nothing changed under it, demoted agents neither crowd out healthy ones *)
(* nor serve as fallbacks; for any callers, agents, inner orders and       *)
(* refreshes.                                                              *)
(*                                                                         *)
(* The counting passes and the build pass judge the same list twice, one   *)
(* lock section per agent.  While a call is quiet the agents that are      *)
(* sound stay the same set, its own demotions and probes included, so what *)
(* was counted is what the build pass finds.                               *)
(***************************************************************************)
EXTENDS Demoter, FiniteSetTheorems, TLAPS

\* The locals of candidatesWithRoute.
Locals == [now : Nat, retry : 1..Len(Headrooms), agents : Seq(Agents), i : Nat \ {0},
           seen : Health \cup {"unread"}, healthy : Nat, demoted : BOOLEAN,
           out : Seq(Agents)]

TypeInv ==
  /\ clock \in Nat
  /\ health \in [Agents -> Health] /\ probe \in [Agents -> Int]
  /\ pool \in SUBSET Agents
  /\ pc \in [Callers -> {"idle", "fetch", "count", "build", "probe"}]
  /\ call \in [Callers -> Locals]
  /\ quiet \in [Callers -> BOOLEAN]

\* Where a call is in its lists.  A call that saw an agent returns one.
PlaceOK(p, k) ==
  /\ k.i <= Len(k.agents) + 1 /\ Len(k.out) <= MaxCandidates
  /\ p \in {"count", "build", "probe"} => k.agents # << >>
  /\ p \in {"fetch", "count", "probe"} => k.out = << >>
  /\ p = "probe" => k.i <= Len(k.agents)
  /\ k.seen # "unread" => k.i <= Len(k.agents)
  /\ p \in {"idle", "fetch"} => k.seen = "unread"
  /\ p = "idle" /\ k.agents # << >> => k.out # << >>

\* The agents a judgement would now find healthy.
Sound == {n \in Agents : ~isFaulty(n, health[n])}

\* The places up to m of list s that hold an agent of G.
good(s, m, G) == {j \in 1..m : s[j] \in G}

\* The list of the pass, taken from order L, and the statistics read from h.
Listed(k, L) == k.agents = AtMost(L, MaxCandidates + Headrooms[k.retry])
ReadOK(k, h) == k.seen # "unread" => k.seen = h[k.agents[k.i]]

\* The counting pass, up to its current agent.
Counted(k, G) ==
  /\ k.healthy = Cardinality(good(k.agents, k.i - 1, G))
  /\ ~k.demoted => \A j \in 1..(k.i - 1) : k.agents[j] \in G

\* The build pass: why counting ended, and what is kept so far.
Built(k, G, h) ==
  /\ \/ k.healthy >= MaxCandidates
     \/ Len(k.agents) < MaxCandidates + Headrooms[k.retry]
     \/ k.retry = Len(Headrooms)
  /\ k.healthy = Cardinality(good(k.agents, Len(k.agents), G))
  /\ Cardinality(good(k.agents, k.i - 1, G)) <= Len(k.out)
  /\ \A j \in 1..(k.i - 1) : k.agents[j] \in G =>
       \E m \in 1..Len(k.out) : k.out[m] = k.agents[j]
  /\ \A m \in 2..Len(k.out) : h[k.out[m]] # "faulty"

\* The last pass asks for as many agents as there are: with the 64 of the code's
\* sixth pass, at most MaxCandidates + 64.
PassesSuffice ==
  \A c \in Callers, P \in SUBSET Agents :
    Len(Order[c][P]) <= MaxCandidates + Headrooms[Len(Headrooms)]

\* What FallbacksAreHealthy says of the list out.
Serves(out, P, h) ==
  /\ PassesSuffice =>
       \/ Len(out) = MaxCandidates
       \/ {n \in P : h[n] \in {"none", "ok"}} \subseteq {out[i] : i \in DOMAIN out}
  /\ \A i \in 2..Len(out) : h[out[i]] # "faulty"

\* A quiet call at p with locals k, of order L over snapshot P, while the agents of G
\* are sound and h are the statistics.
QuietAt(p, k, L, P, G, h) ==
  /\ p \in {"count", "build", "probe"} => Listed(k, L) /\ ReadOK(k, h)
  /\ p = "count" => Counted(k, G)
  /\ p \in {"build", "probe"} => Built(k, G, h)
  /\ p = "probe" => k.agents[k.i] \notin G
  /\ p = "idle" /\ k.agents # << >> => Serves(k.out, P, h)

QuietOK(c) == QuietAt(pc[c], call[c], Order[c][pool], pool, Sound, health)

CallInv(c) == PlaceOK(pc[c], call[c]) /\ (quiet[c] => QuietOK(c))

\* The inductive invariant.
IInv == TypeInv /\ \A c \in Callers : CallInv(c)
-----------------------------------------------------------------------------
(***************************************************************************)
(* Lists, and the two passes over one list.                                *)
(***************************************************************************)

\* The constants' types.
LEMMA Constants ==
  /\ MaxCandidates \in Nat \ {0} /\ Len(Headrooms) \in Nat \ {0}
  /\ \A r \in 1..Len(Headrooms) : Headrooms[r] \in Nat \ {0}
  /\ Absent < 0 /\ Absent \in Int /\ Zero \in Int /\ Absent # Zero
<1>1. Headrooms \in Seq(Nat \ {0}) /\ Headrooms # << >> /\ ProbeInterval \in Nat \ {0}
  BY DemoterAssumption, Zenon
<1>2. Len(Headrooms) \in Nat \ {0} /\ \A r \in 1..Len(Headrooms) : Headrooms[r] \in Nat \ {0}
  BY <1>1
<1> QED
  BY <1>1, <1>2, DemoterAssumption DEF Absent, Zero

\* The first k of a list.
LEMMA AtMostFacts ==
  ASSUME NEW s \in Seq(Agents), NEW k \in Nat \ {0}
  PROVE  /\ AtMost(s, k) \in Seq(Agents)
         /\ Len(AtMost(s, k)) <= k
         /\ Len(s) >= k => Len(AtMost(s, k)) = k
         /\ Len(s) <= k => AtMost(s, k) = s
         /\ s # << >> => AtMost(s, k) # << >>
         /\ \A i \in 1..Len(AtMost(s, k)) : AtMost(s, k)[i] = s[i]
<1> DEFINE n == IF k < Len(s) THEN k ELSE Len(s)
<1>1. n \in Nat /\ n <= Len(s) /\ n <= k /\ (s # << >> => n > 0)
  OBVIOUS
<1>2. /\ SubSeq(s, 1, n) \in Seq(Agents) /\ Len(SubSeq(s, 1, n)) = n
      /\ \A i \in 1..n : SubSeq(s, 1, n)[i] = s[i]
  BY <1>1
<1>3. Len(s) <= k => SubSeq(s, 1, n) = s
  OBVIOUS
<1>4. AtMost(s, k) = SubSeq(s, 1, n)
  BY Zenon DEF AtMost
<1> QED
  BY <1>1, <1>2, <1>3, <1>4

\* The places with an agent of G are counted one by one.
LEMMA GoodNext ==
  ASSUME NEW s, NEW m \in Nat, NEW G
  PROVE  /\ IsFiniteSet(good(s, m, G)) /\ Cardinality(good(s, m, G)) \in Nat
         /\ Cardinality(good(s, m, G)) <= m
         /\ s[m + 1] \in G =>
              Cardinality(good(s, m + 1, G)) = Cardinality(good(s, m, G)) + 1
         /\ s[m + 1] \notin G => good(s, m + 1, G) = good(s, m, G)
         /\ Cardinality(good(s, 0, G)) = 0
<1>1. IsFiniteSet(1..m) /\ Cardinality(1..m) = m
  <2>1. 1 \in Int /\ m \in Int
    OBVIOUS
  <2> QED
    BY <2>1, FS_Interval
<1>2. good(s, m, G) \subseteq 1..m
  BY Zenon DEF good
<1>3. /\ IsFiniteSet(good(s, m, G)) /\ Cardinality(good(s, m, G)) <= m
  BY <1>1, <1>2, FS_Subset
<1>4. Cardinality(good(s, m, G)) \in Nat
  BY <1>3, FS_CardinalityType, Zenon
<1>5. ASSUME s[m + 1] \in G
      PROVE  Cardinality(good(s, m + 1, G)) = Cardinality(good(s, m, G)) + 1
  <2>1. good(s, m + 1, G) = good(s, m, G) \cup {m + 1} /\ m + 1 \notin good(s, m, G)
    BY <1>5 DEF good
  <2> QED
    BY <1>3, <2>1, FS_AddElement
<1>6. s[m + 1] \notin G => good(s, m + 1, G) = good(s, m, G)
  BY DEF good
<1>7. Cardinality(good(s, 0, G)) = 0
  <2>1. good(s, 0, G) = {}
    BY DEF good
  <2> QED
    BY <2>1, FS_EmptySet, Zenon
<1> QED
  BY <1>3, <1>4, <1>5, <1>6, <1>7, Zenon

\* The current agent is counted.
LEMMA CountStep ==
  ASSUME NEW k \in Locals, NEW k2, NEW G, NEW bad \in BOOLEAN, Counted(k, G),
         bad <=> k.agents[k.i] \notin G,
         k2.agents = k.agents, k2.i = k.i + 1,
         k2.healthy = IF bad THEN k.healthy ELSE k.healthy + 1,
         k2.demoted = (k.demoted \/ bad)
  PROVE  Counted(k2, G)
<1> DEFINE s == k.agents
           m == k.i - 1
<1>1. m \in Nat /\ k.i = m + 1 /\ k2.i - 1 = m + 1 /\ k.demoted \in BOOLEAN
  BY SMTT(30) DEF Locals
<1>2. k.healthy = Cardinality(good(s, m, G)) /\ (~k.demoted => \A j \in 1..m : s[j] \in G)
  BY Zenon DEF Counted
<1>3. bad <=> s[m + 1] \notin G
  BY <1>1, Zenon
<1> HIDE DEF s, m
<1>4. k2.healthy = Cardinality(good(s, m + 1, G))
  BY <1>1, <1>2, <1>3, GoodNext, ZenonT(40)
<1>5. ~k2.demoted => \A j \in 1..(m + 1) : s[j] \in G
  <2>1. ~k2.demoted => ~k.demoted /\ ~bad
    BY <1>1, Zenon
  <2>2. \A j \in 1..(m + 1) : j \in 1..m \/ j = m + 1
    BY <1>1
  <2> QED
    BY <1>2, <1>3, <2>1, <2>2, Zenon
<1> QED
  BY <1>1, <1>4, <1>5, Zenon DEF Counted, s

\* The build pass leaves its current agent out, which is not sound.
LEMMA SkipStep ==
  ASSUME NEW k \in Locals, NEW k2, NEW G, NEW h, Built(k, G, h), k.agents[k.i] \notin G,
         k2.agents = k.agents, k2.retry = k.retry, k2.healthy = k.healthy,
         k2.i = k.i + 1, k2.out = k.out
  PROVE  Built(k2, G, h)
<1> DEFINE m == k.i - 1
<1>1. m \in Nat /\ k.i = m + 1 /\ k2.i - 1 = m + 1
  BY SMTT(30) DEF Locals
<1>2. k.agents[m + 1] \notin G
  BY <1>1, Zenon
<1> HIDE DEF m
<1>3. good(k.agents, m + 1, G) = good(k.agents, m, G)
  BY <1>1, <1>2, GoodNext, Zenon
<1>4. \A j \in 1..(m + 1) : j \in 1..m \/ j = m + 1
  BY <1>1
<1>5. /\ Cardinality(good(k2.agents, k2.i - 1, G)) <= Len(k2.out)
      /\ \A j \in 1..(k2.i - 1) : k2.agents[j] \in G =>
           \E n \in 1..Len(k2.out) : k2.out[n] = k2.agents[j]
  BY <1>1, <1>2, <1>3, <1>4, Zenon DEF Built, m
<1> QED
  BY <1>5, Zenon DEF Built

\* It keeps its current agent, as a fallback only one that is not faulty.
LEMMA KeepStep ==
  ASSUME NEW k \in Locals, NEW k2, NEW G, NEW h, Built(k, G, h), k.i <= Len(k.agents),
         k.out # << >> => h[k.agents[k.i]] # "faulty",
         k2.agents = k.agents, k2.retry = k.retry, k2.healthy = k.healthy,
         k2.i = k.i + 1, k2.out = Append(k.out, k.agents[k.i])
  PROVE  Built(k2, G, h)
<1> DEFINE m == k.i - 1
           a == k.agents[k.i]
           n == Len(k.out)
<1>1. m \in Nat /\ k.i = m + 1 /\ k2.i - 1 = m + 1 /\ k.out \in Seq(Agents) /\ a \in Agents
      /\ n \in Nat
  <2>1. k.i \in Nat \ {0} /\ k.agents \in Seq(Agents) /\ k.out \in Seq(Agents)
    BY Zenon DEF Locals
  <2>2. m \in Nat /\ k.i = m + 1 /\ k2.i - 1 = m + 1
    BY <2>1
  <2> QED
    BY <2>1, <2>2
<1>2. /\ Len(k2.out) = n + 1 /\ k2.out[n + 1] = a /\ \A j \in 1..n : k2.out[j] = k.out[j]
  BY <1>1, SMTT(30)
<1>3. a = k.agents[m + 1]
  BY <1>1, Zenon
<1>4. /\ Cardinality(good(k.agents, m, G)) <= n
      /\ \A j \in 1..m : k.agents[j] \in G => \E i \in 1..n : k.out[i] = k.agents[j]
      /\ \A i \in 2..n : h[k.out[i]] # "faulty"
  BY Zenon DEF Built
<1>5. n # 0 => h[a] # "faulty"
  BY <1>1
<1> HIDE DEF m, a, n
<1>6. Cardinality(good(k.agents, m + 1, G)) <= n + 1
  <2>1. /\ Cardinality(good(k.agents, m, G)) \in Nat
        /\ \/ Cardinality(good(k.agents, m + 1, G)) = Cardinality(good(k.agents, m, G)) + 1
           \/ good(k.agents, m + 1, G) = good(k.agents, m, G)
    BY <1>1, GoodNext, Zenon
  <2> QED
    BY <1>1, <1>4, <2>1
<1>7. ASSUME NEW j \in 1..(m + 1), k.agents[j] \in G
      PROVE  \E i \in 1..(n + 1) : k2.out[i] = k.agents[j]
  <2>1. CASE j \in 1..m
    <3>1. PICK i \in 1..n : k.out[i] = k.agents[j]
      BY <1>4, <1>7, <2>1, Zenon
    <3>2. i \in 1..(n + 1)
      BY <1>1, <3>1
    <3> QED
      BY <1>2, <3>1, <3>2, Zenon
  <2>2. CASE j = m + 1
    <3>1. n + 1 \in 1..(n + 1)
      BY <1>1
    <3> QED
      BY <1>2, <1>3, <2>2, <3>1, Zenon
  <2>3. j \in 1..m \/ j = m + 1
    BY <1>1
  <2> QED
    BY <2>1, <2>2, <2>3, Zenon
<1>8. ASSUME NEW i \in 2..(n + 1) PROVE h[k2.out[i]] # "faulty"
  <2>1. CASE i \in 2..n
    <3>1. i \in 1..n
      BY <1>1, <2>1
    <3> QED
      BY <1>2, <1>4, <2>1, <3>1, Zenon
  <2>2. CASE i = n + 1
    <3>1. n # 0
      BY <1>1, <1>8, <2>2
    <3> QED
      BY <1>2, <1>5, <2>2, <3>1, Zenon
  <2>3. i \in 2..n \/ i = n + 1
    BY <1>1
  <2> QED
    BY <2>1, <2>2, <2>3, Zenon
<1>9. /\ Cardinality(good(k2.agents, k2.i - 1, G)) <= Len(k2.out)
      /\ \A j \in 1..(k2.i - 1) : k2.agents[j] \in G =>
           \E i \in 1..Len(k2.out) : k2.out[i] = k2.agents[j]
      /\ \A i \in 2..Len(k2.out) : h[k2.out[i]] # "faulty"
  BY <1>1, <1>2, <1>6, <1>7, <1>8, ZenonT(40)
<1> QED
  BY <1>9, Zenon DEF Built

-----------------------------------------------------------------------------
(***************************************************************************)
(* What a call returns.  L is the inner order over the snapshot P, G the   *)
(* sound agents and h the statistics.                                      *)
(***************************************************************************)

Short(L) == Len(L) <= MaxCandidates + Headrooms[Len(Headrooms)]
Covers(L, P) == {L[i] : i \in DOMAIN L} \in {P, {}}
SoundFits(G, P, h) == /\ {n \in P : h[n] \in {"none", "ok"}} \subseteq G
                      /\ \A n \in G : h[n] # "faulty"

\* A pass that found fewer agents than it asked for, or was the last, saw them all.
LEMMA SawAll ==
  ASSUME NEW k \in Locals, NEW L \in Seq(Agents), NEW P, Listed(k, L), Short(L), Covers(L, P),
         k.agents # << >>,
         Len(k.agents) < MaxCandidates + Headrooms[k.retry] \/ k.retry = Len(Headrooms)
  PROVE  P = {k.agents[i] : i \in 1..Len(k.agents)}
<1> DEFINE q == MaxCandidates + Headrooms[k.retry]
<1>1. k.retry \in 1..Len(Headrooms)
  BY DEF Locals
<1>2. q \in Nat \ {0}
  BY <1>1, Constants
<1>3. k.agents = AtMost(L, q)
  BY Zenon DEF Listed
<1>4. Len(L) <= q
  <2>1. Len(L) \in Nat
    OBVIOUS
  <2>2. CASE k.retry = Len(Headrooms)
    BY <2>2, Zenon DEF Short
  <2>3. CASE Len(k.agents) < q
    <3>1. ~(Len(L) >= q)
      BY <1>2, <1>3, <2>3, AtMostFacts, SMTT(30)
    <3> QED
      BY <1>2, <2>1, <3>1
  <2> QED
    BY <2>2, <2>3, Zenon
<1>5. k.agents = L
  BY <1>2, <1>3, <1>4, AtMostFacts
<1>6. DOMAIN L = 1..Len(L) /\ (L # << >> => 1 \in 1..Len(L))
  OBVIOUS
<1>7. {L[i] : i \in DOMAIN L} # {}
  BY <1>5, <1>6, Zenon
<1> QED
  BY <1>5, <1>6, <1>7, Zenon DEF Covers

\* Nobody is demoted: the head of the list.
LEMMA CountServes ==
  ASSUME NEW k \in Locals, NEW L \in Seq(Agents), NEW P, NEW G, NEW h,
         Listed(k, L), PassesSuffice => Short(L), Covers(L, P), SoundFits(G, P, h), k.agents # << >>,
         Counted(k, G), ~k.demoted, k.i = Len(k.agents) + 1,
         \/ k.healthy >= MaxCandidates
         \/ Len(k.agents) < MaxCandidates + Headrooms[k.retry]
         \/ k.retry = Len(Headrooms)
  PROVE  Serves(AtMost(k.agents, MaxCandidates), P, h)
<1> DEFINE s == k.agents
           n == Len(k.agents)
           o == AtMost(k.agents, MaxCandidates)
<1>1. s \in Seq(Agents) /\ n \in Nat /\ k.i - 1 = n /\ MaxCandidates \in Nat \ {0}
  BY Constants DEF Locals
<1>2. k.healthy = Cardinality(good(s, n, G)) /\ \A j \in 1..n : s[j] \in G
  BY <1>1, Zenon DEF Counted
<1>3. /\ o \in Seq(Agents) /\ Len(o) <= MaxCandidates
      /\ n >= MaxCandidates => Len(o) = MaxCandidates
      /\ n <= MaxCandidates => o = s
      /\ \A i \in 1..Len(o) : o[i] = s[i]
  BY <1>1, AtMostFacts, Zenon
<1>4. Len(o) \in Nat /\ Len(o) <= n
  BY <1>1, <1>3
<1>5. ASSUME NEW i \in 2..Len(o) PROVE h[o[i]] # "faulty"
  <2>1. i \in 1..Len(o) /\ i \in 1..n
    BY <1>1, <1>4
  <2> QED
    BY <1>2, <1>3, <2>1, Zenon DEF SoundFits
<1>6. CASE n >= MaxCandidates
  BY <1>3, <1>5, <1>6, Zenon DEF Serves
<1>7. CASE ~(n >= MaxCandidates)
  <2>1. Cardinality(good(s, n, G)) \in Nat /\ Cardinality(good(s, n, G)) <= n
    BY <1>1, GoodNext, Zenon
  <2>2. ~(k.healthy >= MaxCandidates)
    BY <1>1, <1>2, <1>7, <2>1
  <2>3. PassesSuffice => P = {s[i] : i \in 1..n}
    BY <2>2, SawAll, Zenon
  <2>4. o = s /\ DOMAIN s = 1..n
    BY <1>1, <1>3, <1>7
  <2>5. PassesSuffice => {m \in P : h[m] \in {"none", "ok"}} \subseteq {o[i] : i \in DOMAIN o}
    BY <2>3, <2>4, Zenon
  <2> QED
    BY <1>5, <2>5, Zenon DEF Serves
<1> QED
  BY <1>6, <1>7, Zenon

\* The build pass ended: the list is full, or every sound agent it saw is in it.
LEMMA BuiltServes ==
  ASSUME NEW k \in Locals, NEW L \in Seq(Agents), NEW P, NEW G, NEW h,
         Listed(k, L), PassesSuffice => Short(L), Covers(L, P), SoundFits(G, P, h), k.agents # << >>,
         Built(k, G, h), k.i = Len(k.agents) + 1 \/ Len(k.out) >= MaxCandidates,
         Len(k.out) <= MaxCandidates
  PROVE  /\ Serves(k.out, P, h)
         /\ k.out = << >> => Serves(<<k.agents[1]>>, P, h)
<1> DEFINE s == k.agents
           n == Len(k.agents)
           o == k.out
           H == {m \in P : h[m] \in {"none", "ok"}}
<1>1. s \in Seq(Agents) /\ n \in Nat /\ o \in Seq(Agents) /\ Len(o) \in Nat
      /\ MaxCandidates \in Nat \ {0} /\ DOMAIN o = 1..Len(o)
  BY Constants DEF Locals
<1>2. \A i \in 2..Len(o) : h[o[i]] # "faulty"
  BY Zenon DEF Built
<1>3. ASSUME PassesSuffice
      PROVE  Len(o) = MaxCandidates \/ H \subseteq {o[i] : i \in 1..Len(o)}
  <2>1. SUFFICES ASSUME ~(Len(o) >= MaxCandidates) PROVE H \subseteq {o[i] : i \in 1..Len(o)}
    BY <1>1
  <2>2. k.i - 1 = n
    BY <1>1, <2>1
  <2>3. /\ Cardinality(good(s, n, G)) <= Len(o) /\ k.healthy = Cardinality(good(s, n, G))
        /\ \A j \in 1..n : s[j] \in G => \E i \in 1..Len(o) : o[i] = s[j]
    BY <2>2, Zenon DEF Built
  <2>4. Cardinality(good(s, n, G)) \in Nat
    BY <1>1, GoodNext, Zenon
  <2>5. ~(k.healthy >= MaxCandidates)
    BY <1>1, <2>1, <2>3, <2>4
  <2>6. n < MaxCandidates + Headrooms[k.retry] \/ k.retry = Len(Headrooms)
    BY <2>5, Zenon DEF Built
  <2>7. P = {s[i] : i \in 1..n}
    BY <1>3, <2>6, SawAll, Zenon
  <2>8. ASSUME NEW m \in H PROVE m \in {o[i] : i \in 1..Len(o)}
    <3>1. m \in P /\ m \in G
      BY Zenon DEF SoundFits
    <3>2. PICK j \in 1..n : m = s[j]
      BY <2>7, <3>1, Zenon
    <3>3. PICK i \in 1..Len(o) : o[i] = s[j]
      BY <2>3, <3>1, <3>2, Zenon
    <3> QED
      BY <3>2, <3>3, Zenon
  <2> QED
    BY <2>8, Zenon
<1>4. Serves(o, P, h)
  BY <1>1, <1>2, <1>3, Zenon DEF Serves
<1>5. ASSUME o = << >> PROVE Serves(<<s[1]>>, P, h)
  <2>1. Len(o) = 0 /\ 1..Len(o) = {}
    BY <1>5
  <2>2. PassesSuffice => H = {}
    <3>1. MaxCandidates # 0
      BY <1>1
    <3> QED
      BY <1>3, <2>1, <3>1, Zenon
  <2>3. Len(<<s[1]>>) = 1 /\ 2..1 = {}
    OBVIOUS
  <2>4. \A i \in 2..Len(<<s[1]>>) : h[<<s[1]>>[i]] # "faulty"
    BY <2>3
  <2> QED
    BY <2>2, <2>4 DEF Serves
<1> QED
  BY <1>4, <1>5, Zenon

-----------------------------------------------------------------------------
(***************************************************************************)
(* What a step leaves alone.                                               *)
(***************************************************************************)

\* A sound agent is not faulty, a healthy one is sound.
LEMMA SoundIsHealthy ==
  ASSUME TypeInv PROVE SoundFits(Sound, pool, health)
<1>1. \A n \in Agents : health[n] \in {"none", "ok"} => ~isFaulty(n, health[n])
  BY Zenon DEF isFaulty
<1>2. \A n \in Agents : ~isFaulty(n, health[n]) => health[n] # "faulty"
  BY Zenon DEF isFaulty
<1>3. pool \subseteq Agents
  BY Zenon DEF TypeInv
<1> QED
  BY <1>1, <1>2, <1>3, Zenon DEF SoundFits, Sound

\* Which agents are sound depends on the statistics and on who has an entry.
LEMMA SoundStays ==
  ASSUME health' = health,
         \A n \in Agents : isFaulty(n, health[n])' <=> isFaulty(n, health[n])
  PROVE  Sound' = Sound
BY Zenon DEF Sound

\* A call that a step does not touch.  What disturbs it ends its being quiet.
Untouched(d) ==
  /\ call'[d] = call[d] /\ pc'[d] = pc[d]
  /\ quiet'[d] => quiet[d] /\ UNCHANGED <<health, pool, probe>>

\* It keeps its invariant.
LEMMA UntouchedKeeps ==
  ASSUME NEW d \in Callers, CallInv(d), Untouched(d)
  PROVE  CallInv(d)'
<1>1. call'[d] = call[d] /\ pc'[d] = pc[d]
  BY Zenon DEF Untouched
<1>2. PlaceOK(pc[d], call[d])'
  BY <1>1, Zenon DEF CallInv
<1>3. ASSUME quiet'[d] PROVE QuietOK(d)'
  <2>1. quiet[d] /\ health' = health /\ pool' = pool /\ probe' = probe
    BY <1>3, Zenon DEF Untouched
  <2>2. Sound' = Sound
    BY <2>1, Zenon DEF Sound, isFaulty
  <2>3. QuietOK(d)
    BY <2>1, Zenon DEF CallInv
  <2> QED
    BY <1>1, <2>1, <2>2, <2>3, Zenon DEF QuietOK
<1> QED
  BY <1>2, <1>3, Zenon DEF CallInv

\* A judgement leaves an entry or none.
LEMMA TransitionTypes ==
  ASSUME TypeInv, NEW c \in Callers, transition(c), Current(c) \in Agents
  PROVE  probe' \in [Agents -> Int]
<1>1. probe \in [Agents -> Int] /\ probe' = [probe EXCEPT ![Current(c)] = edge(Current(c), call[c].seen)]
  BY Zenon DEF transition, TypeInv
<1>2. edge(Current(c), call[c].seen) \in Int
  BY <1>1, Constants, Zenon DEF edge
<1> QED
  BY <1>1, <1>2, Zenon

\* An own judgement does not change who is sound: it enters who is faulty anyway,
\* and removes or leaves out who is healthy anyway.
LEMMA JudgingKeepsSound ==
  ASSUME TypeInv, NEW c \in Callers, transition(c), health' = health,
         Current(c) \in Agents, call[c].seen = health[Current(c)]
  PROVE  Sound' = Sound
<1>n. PICK n \in Agents : n = Current(c)
  BY Zenon
<1>h. PICK h \in Health : h = health[n] /\ h = call[c].seen
  BY <1>n, Zenon DEF TypeInv
<1>1. probe' = [probe EXCEPT ![n] = edge(n, h)] /\ probe \in [Agents -> Int]
  BY <1>n, <1>h, Zenon DEF transition, TypeInv
<1>2. probe'[n] = edge(n, h) /\ \A m \in Agents : m # n => probe'[m] = probe[m]
  BY <1>1, Zenon
<1>4. isFaulty(n, h)' <=> isFaulty(n, h)
  <2>1. CASE h = "faulty"
    BY <2>1, Zenon DEF isFaulty
  <2>2. CASE h # "faulty" /\ h # "sparse"
    BY <2>2, Zenon DEF isFaulty
  <2>3. CASE h = "sparse"
    <3>1. (edge(n, h) = Absent) <=> (probe[n] = Absent)
      BY <2>3 DEF edge, isFaulty
    <3> QED
      BY <1>2, <2>3, <3>1, Zenon DEF isFaulty
  <2> QED
    BY <2>1, <2>2, <2>3, Zenon
<1>5. \A m \in Agents : isFaulty(m, health[m])' <=> isFaulty(m, health[m])
  BY <1>h, <1>2, <1>4, Zenon DEF isFaulty
<1> QED
  BY <1>5, SoundStays, Zenon

\* Nor does the stamp of a probe.
LEMMA ProbingKeepsSound ==
  ASSUME TypeInv, NEW n \in Agents, NEW t \in Nat, probe' = [probe EXCEPT ![n] = t],
         health' = health, n \notin Sound
  PROVE  Sound' = Sound
<1>1. probe'[n] = t /\ \A m \in Agents : m # n => probe'[m] = probe[m]
  BY Zenon DEF TypeInv
<1>2. t # Absent
  BY Constants
<1>3. isFaulty(n, health[n])
  BY Zenon DEF Sound
<1>4. isFaulty(n, health[n])'
  BY <1>1, <1>2, <1>3, Zenon DEF isFaulty
<1>5. \A m \in Agents : isFaulty(m, health[m])' <=> isFaulty(m, health[m])
  BY <1>1, <1>3, <1>4, Zenon DEF isFaulty
<1> QED
  BY <1>5, SoundStays, Zenon

\* What a step of caller c may rely on.
LEMMA OwnFacts ==
  ASSUME IInv, NEW c \in Callers
  PROVE  /\ call[c] \in Locals /\ PlaceOK(pc[c], call[c]) /\ quiet[c] \in BOOLEAN
         /\ quiet[c] => QuietAt(pc[c], call[c], Order[c][pool], pool, Sound, health)
         /\ Order[c][pool] \in Seq(Agents) /\ Covers(Order[c][pool], pool)
         /\ PassesSuffice => Short(Order[c][pool])
         /\ SoundFits(Sound, pool, health)
<1>1. TypeInv /\ CallInv(c)
  BY Zenon DEF IInv
<1>2. call[c] \in Locals /\ quiet[c] \in BOOLEAN /\ pool \in SUBSET Agents
  BY <1>1, Zenon DEF TypeInv
<1>3. Order[c][pool] \in Seq(Agents) /\ Covers(Order[c][pool], pool)
  <2>1. Order \in [Callers -> [SUBSET Agents -> Seq(Agents)]]
    BY DemoterAssumption, Zenon
  <2>2. Order[c] \in [SUBSET Agents -> Seq(Agents)]
    BY <2>1, Zenon
  <2> QED
    BY <1>2, <2>2, DemoterAssumption, Zenon DEF Covers
<1>4. PassesSuffice => Short(Order[c][pool])
  BY <1>2, Zenon DEF PassesSuffice, Short
<1> QED
  BY <1>1, <1>2, <1>3, <1>4, SoundIsHealthy, Zenon DEF CallInv, QuietOK

\* A step of caller c keeps the invariant if it leaves c where it may be.
LEMMA OwnStep ==
  ASSUME IInv, NEW c \in Callers, NEW k \in Locals,
         NEW p \in {"idle", "fetch", "count", "build", "probe"},
         call' = [call EXCEPT ![c] = k], pc' = [pc EXCEPT ![c] = p],
         UNCHANGED <<clock, health, refreshVars>>,
         probe' \in [Agents -> Int], quiet' \in [Callers -> BOOLEAN],
         \A d \in Callers : d # c /\ quiet'[d] => quiet[d] /\ probe' = probe,
         PlaceOK(p, k),
         quiet'[c] => QuietAt(p, k, Order[c][pool], pool, Sound', health)
  PROVE  IInv'
<1>1. health' = health /\ pool' = pool /\ clock' = clock
  BY Zenon DEF refreshVars
<1>2. TypeInv /\ call \in [Callers -> Locals]
      /\ pc \in [Callers -> {"idle", "fetch", "count", "build", "probe"}]
  BY Zenon DEF IInv, TypeInv
<1>3. /\ call'[c] = k /\ pc'[c] = p
      /\ \A d \in Callers : d # c => call'[d] = call[d] /\ pc'[d] = pc[d]
  BY <1>2, Zenon
<1>4. call' \in [Callers -> Locals]
      /\ pc' \in [Callers -> {"idle", "fetch", "count", "build", "probe"}]
  BY <1>2, Zenon
<1>5. TypeInv'
  BY <1>1, <1>2, <1>4, Zenon DEF TypeInv
<1>6. CallInv(c)'
  BY <1>1, <1>3, Zenon DEF CallInv, QuietOK
<1>7. ASSUME NEW d \in Callers, d # c PROVE CallInv(d)'
  <2>1. CallInv(d)
    BY Zenon DEF IInv
  <2>2. Untouched(d)
    BY <1>1, <1>3, <1>7, Zenon DEF Untouched
  <2> QED
    BY <2>1, <2>2, UntouchedKeeps, Zenon
<1> QED
  BY <1>5, <1>6, <1>7, Zenon DEF IInv

\* A step of the rest keeps it: it touches no call.
LEMMA RestStep ==
  ASSUME IInv, TypeInv', \A d \in Callers : Untouched(d)
  PROVE  IInv'
BY UntouchedKeeps, Zenon DEF IInv

-----------------------------------------------------------------------------
(***************************************************************************)
(* The steps of a call.                                                    *)
(***************************************************************************)

\* The locals of a call that has not begun, has begun or has returned.
LEMMA FreshLocals ==
  ASSUME NEW s \in Seq(Agents), NEW out \in Seq(Agents), NEW t \in Nat
  PROVE  /\ NoCall \in Locals /\ NoCall.agents = << >>
         /\ PlaceOK("idle", NoCall)
         /\ [NoCall EXCEPT !.now = t] \in Locals /\ PlaceOK("fetch", [NoCall EXCEPT !.now = t])
         /\ [NoCall EXCEPT !.agents = s, !.out = out] \in Locals
         /\ [NoCall EXCEPT !.agents = s, !.out = out].out = out
         /\ Len(out) <= MaxCandidates /\ (s # << >> => out # << >>) =>
              PlaceOK("idle", [NoCall EXCEPT !.agents = s, !.out = out])
<1>1. NoCall \in Locals
  BY Constants DEF NoCall, Locals
<1>2. MaxCandidates \in Nat \ {0}
  BY Constants, Zenon
<1>3. PlaceOK("idle", NoCall) /\ NoCall.agents = << >>
  BY <1>2 DEF PlaceOK, NoCall
<1>4. [NoCall EXCEPT !.now = t] \in Locals /\ PlaceOK("fetch", [NoCall EXCEPT !.now = t])
  <2>1. [NoCall EXCEPT !.now = t] \in Locals
    BY <1>1, Zenon DEF Locals
  <2>2. PlaceOK("fetch", [NoCall EXCEPT !.now = t])
    BY <1>2 DEF PlaceOK, NoCall
  <2> QED
    BY <2>1, <2>2, Zenon
<1>5. /\ [NoCall EXCEPT !.agents = s, !.out = out] \in Locals
      /\ [NoCall EXCEPT !.agents = s, !.out = out].out = out
  BY <1>1, Zenon DEF NoCall, Locals
<1>6. Len(out) <= MaxCandidates /\ (s # << >> => out # << >>) =>
        PlaceOK("idle", [NoCall EXCEPT !.agents = s, !.out = out])
  <2>1. 1 <= Len(s) + 1
    OBVIOUS
  <2> QED
    BY <2>1 DEF PlaceOK, NoCall
<1> QED
  BY <1>1, <1>3, <1>4, <1>5, <1>6, Zenon

\* Candidates while demotion is suppressed.
LEMMA SuppressedKeeps ==
  ASSUME IInv, NEW c \in Callers, suppressed(c)
  PROVE  IInv'
<1> DEFINE o == AtMost(Order[c][pool], MaxCandidates)
<1>1. PICK s \in Seq(Agents) : s = o /\ Len(s) <= MaxCandidates
  BY OwnFacts, Constants, AtMostFacts, Zenon
<1>2. PICK k \in Locals : k = [NoCall EXCEPT !.agents = s, !.out = s] /\ PlaceOK("idle", k)
  BY <1>1, FreshLocals, Zenon
<1>3. call' = [call EXCEPT ![c] = k]
  BY <1>1, <1>2, Zenon DEF suppressed, inner
<1>4. TypeInv
  BY Zenon DEF IInv
<1>5. pc' = [pc EXCEPT ![c] = "idle"] /\ probe' \in [Agents -> Int] /\ probe' = probe
      /\ quiet' \in [Callers -> BOOLEAN] /\ ~quiet'[c]
      /\ \A d \in Callers : d # c => quiet'[d] = quiet[d]
  BY <1>4, Zenon DEF suppressed, TypeInv
<1>6. UNCHANGED <<clock, health, refreshVars>>
  BY Zenon DEF suppressed
<1> QED
  BY <1>2, <1>3, <1>5, <1>6, OwnStep, Zenon

\* Candidates begins.
LEMMA CandidatesKeeps ==
  ASSUME IInv, NEW c \in Callers, Candidates(c)
  PROVE  IInv'
<1>1. TypeInv
  BY Zenon DEF IInv
<1>2. PICK t \in Nat : t = clock
  BY <1>1, Zenon DEF TypeInv
<1>3. << >> \in Seq(Agents)
  OBVIOUS
<1>4. PICK k \in Locals : k = [NoCall EXCEPT !.now = t] /\ PlaceOK("fetch", k)
  BY <1>3, FreshLocals, Zenon
<1>5. call' = [call EXCEPT ![c] = k]
  BY <1>2, <1>4, Zenon DEF Candidates
<1>6. pc' = [pc EXCEPT ![c] = "fetch"] /\ probe' \in [Agents -> Int] /\ probe' = probe
      /\ quiet' \in [Callers -> BOOLEAN]
      /\ \A d \in Callers : d # c => quiet'[d] = quiet[d]
  BY <1>1, Zenon DEF Candidates, TypeInv
<1>7. UNCHANGED <<clock, health, refreshVars>>
  BY Zenon DEF Candidates
<1>8. QuietAt("fetch", k, Order[c][pool], pool, Sound', health)
  BY Zenon DEF QuietAt
<1> QED
  BY <1>4, <1>5, <1>6, <1>7, <1>8, OwnStep, Zenon

\* A pass asks the inner strategy.
LEMMA FetchKeeps ==
  ASSUME IInv, NEW c \in Callers, fetch(c)
  PROVE  IInv'
<1>1. TypeInv
  BY Zenon DEF IInv
<1>2. PICK k \in Locals : k = call[c] /\ PlaceOK("fetch", k)
  BY OwnFacts, Zenon DEF fetch
<1>3. PICK L \in Seq(Agents) : L = Order[c][pool]
  BY OwnFacts, Zenon
<1>4. PICK q \in Nat \ {0} : q = MaxCandidates + Headrooms[k.retry]
  <2>1. k.retry \in 1..Len(Headrooms)
    BY DEF Locals
  <2> QED
    BY <2>1, Constants
<1>5. PICK s \in Seq(Agents) : s = AtMost(L, q)
  BY AtMostFacts, Zenon
<1>6. inner(c, asked(c)) = s
  BY <1>2, <1>3, <1>4, <1>5, Zenon DEF inner, asked
<1>7. /\ probe' \in [Agents -> Int] /\ probe' = probe /\ quiet' \in [Callers -> BOOLEAN]
      /\ quiet' = quiet /\ health' = health
  BY <1>1, Zenon DEF fetch, TypeInv
<1>8. UNCHANGED <<clock, health, refreshVars>>
  BY Zenon DEF fetch
<1>9. CASE s = << >>
  <2>1. call' = [call EXCEPT ![c] = NoCall] /\ pc' = [pc EXCEPT ![c] = "idle"]
    BY <1>6, <1>9, Zenon DEF fetch
  <2>2. NoCall \in Locals /\ PlaceOK("idle", NoCall) /\ NoCall.agents = << >>
    BY <1>5, FreshLocals, Zenon
  <2>3. QuietAt("idle", NoCall, Order[c][pool], pool, Sound', health)
    BY <2>2, Zenon DEF QuietAt
  <2> QED
    BY <1>7, <1>8, <2>1, <2>2, <2>3, OwnStep, Zenon
<1>10. CASE s # << >>
  <2> DEFINE m == [k EXCEPT !.agents = s, !.i = 1, !.healthy = 0, !.demoted = FALSE]
  <2>1. call' = [call EXCEPT ![c] = m] /\ pc' = [pc EXCEPT ![c] = "count"]
    BY <1>1, <1>2, <1>6, <1>10, Zenon DEF fetch, TypeInv
  <2>2. /\ m \in Locals /\ m.agents = s /\ m.i = 1 /\ m.healthy = 0 /\ m.demoted = FALSE
        /\ m.retry = k.retry /\ m.seen = k.seen /\ m.out = k.out
    <3>1. /\ m.agents = s /\ m.i = 1 /\ m.healthy = 0 /\ m.demoted = FALSE
          /\ m.retry = k.retry /\ m.seen = k.seen /\ m.out = k.out
      BY DEF Locals
    <3>2. 1 \in Nat \ {0} /\ 0 \in Nat /\ FALSE \in BOOLEAN
      OBVIOUS
    <3>3. m \in Locals
      BY <3>2, Zenon DEF Locals
    <3> QED
      BY <3>1, <3>3, Zenon
  <2> HIDE DEF m
  <2>3. k.seen = "unread" /\ k.out = << >> /\ Len(k.out) <= MaxCandidates
    BY <1>2, Zenon DEF PlaceOK
  <2>4. PlaceOK("count", m)
    <3>1. 1 <= Len(s) + 1
      OBVIOUS
    <3> QED
      BY <1>10, <2>2, <2>3, <3>1, Zenon DEF PlaceOK
  <2>5. Listed(m, L) /\ ReadOK(m, health)
    BY <1>4, <1>5, <2>2, <2>3, Zenon DEF Listed, ReadOK
  <2>6. Counted(m, Sound')
    <3>1. m.i - 1 = 0 /\ 1..0 = {} /\ 0 \in Nat
      BY <2>2
    <3>2. Cardinality(good(m.agents, 0, Sound')) = 0
      BY <3>1, GoodNext, Zenon
    <3> QED
      BY <2>2, <3>1, <3>2 DEF Counted
  <2>7. QuietAt("count", m, Order[c][pool], pool, Sound', health)
    BY <1>3, <2>5, <2>6, Zenon DEF QuietAt
  <2> QED
    BY <1>7, <1>8, <2>1, <2>2, <2>4, <2>7, OwnStep, Zenon
<1> QED
  BY <1>9, <1>10, Zenon

\* The current agent of a pass.
LEMMA CurrentIsAgent ==
  ASSUME IInv, NEW c \in Callers, call[c].i <= Len(call[c].agents)
  PROVE  Current(c) \in Agents /\ Current(c) = call[c].agents[call[c].i]
<1>1. call[c] \in Locals
  BY OwnFacts, Zenon
<1>2. call[c].agents[call[c].i] \in Agents
  BY <1>1 DEF Locals
<1> QED
  BY <1>2, Zenon DEF Current

\* isDemoted reads the statistics.
LEMMA AgentStatsKeeps ==
  ASSUME IInv, NEW c \in Callers, agentStats(c)
  PROVE  IInv'
<1>1. TypeInv
  BY Zenon DEF IInv
<1>2. PICK k \in Locals : k = call[c]
  BY OwnFacts, Zenon
<1>3. PICK p \in {"count", "build"} : p = pc[c]
  BY Zenon DEF agentStats, Judging
<1>4. k.i <= Len(k.agents) /\ PlaceOK(p, k)
  BY <1>2, <1>3, OwnFacts, Zenon DEF agentStats, Judging
<1>5. PICK n \in Agents : n = Current(c) /\ n = k.agents[k.i]
  BY <1>2, <1>4, CurrentIsAgent, Zenon
<1>6. PICK h \in Health : h = health[n]
  BY <1>1, Zenon DEF TypeInv
<1> DEFINE m == [k EXCEPT !.seen = h]
<1>7. call' = [call EXCEPT ![c] = m]
  BY <1>1, <1>2, <1>5, <1>6, Zenon DEF agentStats, TypeInv
<1>8. /\ m \in Locals /\ m.seen = h /\ m.agents = k.agents /\ m.i = k.i /\ m.out = k.out
      /\ m.healthy = k.healthy /\ m.demoted = k.demoted /\ m.retry = k.retry
  BY SMTT(30) DEF Locals
<1> HIDE DEF m
<1>9. PlaceOK(p, m)
  BY <1>3, <1>4, <1>8, Zenon DEF PlaceOK
<1>10. /\ pc' = [pc EXCEPT ![c] = p] /\ probe' \in [Agents -> Int] /\ probe' = probe
       /\ quiet' \in [Callers -> BOOLEAN] /\ quiet' = quiet /\ health' = health
  BY <1>1, <1>3, Zenon DEF agentStats, TypeInv
<1>11. UNCHANGED <<clock, health, refreshVars>>
  BY Zenon DEF agentStats
<1>12. Sound' = Sound
  BY <1>10, Zenon DEF Sound, isFaulty
<1>13. ASSUME quiet[c] PROVE QuietAt(p, m, Order[c][pool], pool, Sound, health)
  <2>1. QuietAt(p, k, Order[c][pool], pool, Sound, health)
    BY <1>2, <1>3, <1>13, OwnFacts, Zenon
  <2>2. Listed(m, Order[c][pool]) /\ ReadOK(m, health)
    BY <1>3, <1>5, <1>6, <1>8, <2>1, Zenon DEF QuietAt, Listed, ReadOK
  <2>3. p = "count" => Counted(m, Sound)
    BY <1>8, <2>1, Zenon DEF QuietAt, Counted
  <2>4. p = "build" => Built(m, Sound, health)
    BY <1>8, <2>1, Zenon DEF QuietAt, Built
  <2> QED
    BY <1>3, <2>2, <2>3, <2>4, Zenon DEF QuietAt
<1>14. p \in {"idle", "fetch", "count", "build", "probe"}
  BY <1>3, Zenon
<1> QED
  BY <1>7, <1>8, <1>9, <1>10, <1>11, <1>12, <1>13, <1>14, OwnStep, Zenon

\* What a judged step of caller c does to the entries and to the other calls.
LEMMA JudgedFacts ==
  ASSUME IInv, NEW c \in Callers, NEW p \in {"count", "build"}, pc[c] = p,
         Judging(c), call[c].seen # "unread",
         transition(c), Disturbs(c), health' = health
  PROVE  /\ call[c].i <= Len(call[c].agents) /\ Current(c) \in Agents
         /\ Current(c) = call[c].agents[call[c].i]
         /\ probe' \in [Agents -> Int] /\ quiet' \in [Callers -> BOOLEAN]
         /\ quiet'[c] = quiet[c]
         /\ \A d \in Callers : d # c /\ quiet'[d] => quiet[d] /\ probe' = probe
         /\ quiet[c] =>
              /\ Sound' = Sound
              /\ QuietAt(p, call[c], Order[c][pool], pool, Sound, health)
              /\ isFaulty(Current(c), call[c].seen) <=> Current(c) \notin Sound
<1>1. TypeInv
  BY Zenon DEF IInv
<1>2. call[c].i <= Len(call[c].agents)
  BY Zenon DEF Judging
<1>3. Current(c) \in Agents /\ Current(c) = call[c].agents[call[c].i]
  BY <1>2, CurrentIsAgent, Zenon
<1>4. probe' \in [Agents -> Int]
  BY <1>1, <1>3, TransitionTypes, Zenon
<1>5. /\ quiet' \in [Callers -> BOOLEAN] /\ quiet'[c] = quiet[c]
      /\ \A d \in Callers : d # c /\ quiet'[d] => quiet[d] /\ probe' = probe
  <2>1. quiet \in [Callers -> BOOLEAN] /\ quiet[c] \in BOOLEAN
    BY <1>1, Zenon DEF TypeInv
  <2>2. quiet' = [d \in Callers |-> quiet[d] /\ (d = c \/ probe' = probe)]
    BY Zenon DEF Disturbs
  <2> QED
    BY <2>1, <2>2, Zenon
<1>6. ASSUME quiet[c]
      PROVE  /\ Sound' = Sound
             /\ QuietAt(p, call[c], Order[c][pool], pool, Sound, health)
             /\ isFaulty(Current(c), call[c].seen) <=> Current(c) \notin Sound
  <2>1. QuietAt(p, call[c], Order[c][pool], pool, Sound, health)
    BY <1>6, OwnFacts, Zenon
  <2>2. call[c].seen = health[Current(c)]
    BY <1>3, <2>1, Zenon DEF QuietAt, ReadOK
  <2>3. Sound' = Sound
    BY <1>1, <1>3, <2>2, JudgingKeepsSound, Zenon
  <2>4. isFaulty(Current(c), call[c].seen) <=> Current(c) \notin Sound
    BY <1>3, <2>2, Zenon DEF Sound
  <2> QED
    BY <2>1, <2>3, <2>4, Zenon
<1> QED
  BY <1>2, <1>3, <1>4, <1>5, <1>6, Zenon

\* The counting pass judges one agent.
LEMMA CountKeeps ==
  ASSUME IInv, NEW c \in Callers, count(c)
  PROVE  IInv'
<1>1. TypeInv
  BY Zenon DEF IInv
<1>2. PICK k \in Locals : k = call[c] /\ PlaceOK("count", k)
  BY OwnFacts, Zenon DEF count
<1>3. PICK bad \in BOOLEAN : bad = isFaulty(Current(c), call[c].seen)
  BY Zenon DEF isFaulty
<1>4. /\ pc[c] = "count" /\ Judging(c) /\ call[c].seen # "unread" /\ transition(c)
      /\ Disturbs(c) /\ UNCHANGED <<clock, health, refreshVars>> /\ health' = health
  BY Zenon DEF count
<1>5. /\ k.i <= Len(k.agents) /\ probe' \in [Agents -> Int]
      /\ quiet' \in [Callers -> BOOLEAN] /\ quiet'[c] = quiet[c]
      /\ \A d \in Callers : d # c /\ quiet'[d] => quiet[d] /\ probe' = probe
  BY <1>2, <1>4, JudgedFacts, Zenon
<1> DEFINE m == [k EXCEPT !.i = @ + 1, !.seen = "unread",
                          !.healthy = IF bad THEN @ ELSE @ + 1, !.demoted = @ \/ bad]
<1>6. call' = [call EXCEPT ![c] = m] /\ pc' = [pc EXCEPT ![c] = "count"]
  <2>1. call' = [call EXCEPT ![c] = m]
    BY <1>2, <1>3, Zenon DEF count
  <2>2. pc' = [pc EXCEPT ![c] = "count"]
    BY <1>1, <1>4, Zenon DEF count, TypeInv
  <2> QED
    BY <2>1, <2>2, Zenon
<1>7. /\ m.i = k.i + 1 /\ m.seen = "unread" /\ m.agents = k.agents /\ m.out = k.out
      /\ m.healthy = (IF bad THEN k.healthy ELSE k.healthy + 1)
      /\ m.demoted = (k.demoted \/ bad) /\ m.retry = k.retry
  BY DEF Locals
<1>8. m \in Locals
  <2>1. /\ k.i + 1 \in Nat \ {0} /\ (IF bad THEN k.healthy ELSE k.healthy + 1) \in Nat
        /\ (k.demoted \/ bad) \in BOOLEAN
    BY DEF Locals
  <2> QED
    BY <2>1, Zenon DEF Locals
<1> HIDE DEF m
<1>9. PlaceOK("count", m)
  <2>1. m.i <= Len(m.agents) + 1
    BY <1>5, <1>7 DEF Locals
  <2> QED
    BY <1>2, <1>7, <2>1, Zenon DEF PlaceOK
<1>10. ASSUME quiet[c] PROVE QuietAt("count", m, Order[c][pool], pool, Sound', health)
  <2>1. /\ Sound' = Sound /\ QuietAt("count", k, Order[c][pool], pool, Sound, health)
        /\ bad <=> k.agents[k.i] \notin Sound
    BY <1>2, <1>3, <1>4, <1>10, JudgedFacts, ZenonT(40)
  <2>2. Listed(m, Order[c][pool]) /\ ReadOK(m, health)
    BY <1>7, <2>1, Zenon DEF QuietAt, Listed, ReadOK
  <2>3. Counted(k, Sound)
    BY <2>1, Zenon DEF QuietAt
  <2>4. Counted(m, Sound)
    BY <1>7, <2>1, <2>3, CountStep, Zenon
  <2> QED
    BY <2>1, <2>2, <2>4, Zenon DEF QuietAt
<1> QED
  BY <1>4, <1>5, <1>6, <1>8, <1>9, <1>10, OwnStep, Zenon

\* A counting pass ends: another one, the answer, or the build pass.
LEMMA CountEndsKeeps ==
  ASSUME IInv, NEW c \in Callers, countEnds(c)
  PROVE  IInv'
<1>1. TypeInv
  BY Zenon DEF IInv
<1>2. PICK k \in Locals : k = call[c] /\ PlaceOK("count", k)
  BY OwnFacts, Zenon DEF countEnds
<1>3. k.i \in Nat /\ k.agents \in Seq(Agents) /\ Len(k.agents) \in Nat /\ k.out \in Seq(Agents)
      /\ k.retry \in 1..Len(Headrooms)
  BY DEF Locals
<1>4. k.i = Len(k.agents) + 1
  <2>1. ~(k.i <= Len(k.agents)) /\ k.i <= Len(k.agents) + 1
    BY <1>2, Zenon DEF countEnds, Judging, PlaceOK
  <2> QED
    BY <1>3, <2>1
<1>5. k.agents # << >> /\ k.out = << >> /\ k.seen = "unread" /\ Len(k.out) <= MaxCandidates
  <2>1. ~(k.i <= Len(k.agents))
    BY <1>3, <1>4
  <2> QED
    BY <1>2, <2>1, Zenon DEF PlaceOK
<1>6. /\ probe' \in [Agents -> Int] /\ probe' = probe /\ quiet' \in [Callers -> BOOLEAN]
      /\ quiet' = quiet /\ health' = health
  BY <1>1, Zenon DEF countEnds, TypeInv
<1>7. UNCHANGED <<clock, health, refreshVars>>
  BY Zenon DEF countEnds
<1>8. Sound' = Sound
  BY <1>6, Zenon DEF Sound, isFaulty
<1>9. ASSUME quiet[c]
      PROVE  /\ Listed(k, Order[c][pool]) /\ ReadOK(k, health) /\ Counted(k, Sound)
  BY <1>2, <1>9, OwnFacts, Zenon DEF countEnds, QuietAt
<1>10. CASE ~enough(c) /\ pc' = [pc EXCEPT ![c] = "fetch"]
            /\ call' = [call EXCEPT ![c].retry = @ + 1]
  <2> DEFINE m == [k EXCEPT !.retry = @ + 1]
  <2>1. call' = [call EXCEPT ![c] = m]
    BY <1>2, <1>10, Zenon
  <2>2. k.retry # Len(Headrooms)
    BY <1>2, <1>10, Zenon DEF enough
  <2>3. k.retry + 1 \in 1..Len(Headrooms)
    BY <1>3, <2>2, Constants
  <2>4. /\ m \in Locals /\ m.agents = k.agents /\ m.i = k.i /\ m.out = k.out /\ m.seen = k.seen
    BY <2>3, ZenonT(30) DEF Locals
  <2> HIDE DEF m
  <2>5. PlaceOK("fetch", m)
    BY <1>2, <1>5, <2>4, Zenon DEF PlaceOK
  <2>6. QuietAt("fetch", m, Order[c][pool], pool, Sound', health)
    BY Zenon DEF QuietAt
  <2> QED
    BY <1>6, <1>7, <1>10, <2>1, <2>4, <2>5, <2>6, OwnStep, Zenon
<1>11. CASE enough(c) /\ ~call[c].demoted /\ pc' = [pc EXCEPT ![c] = "idle"]
            /\ call' = [call EXCEPT ![c] = Answer(c, AtMost(call[c].agents, MaxCandidates))]
  <2>1. PICK o \in Seq(Agents) : o = AtMost(k.agents, MaxCandidates)
                                 /\ Len(o) <= MaxCandidates /\ o # << >>
    <3>1. MaxCandidates \in Nat \ {0}
      BY Constants, Zenon
    <3>2. /\ AtMost(k.agents, MaxCandidates) \in Seq(Agents)
          /\ Len(AtMost(k.agents, MaxCandidates)) <= MaxCandidates
          /\ AtMost(k.agents, MaxCandidates) # << >>
      BY <1>3, <1>5, <3>1, AtMostFacts, Zenon
    <3> QED
      BY <3>2, Zenon
  <2>2. PICK m \in Locals : /\ m = [NoCall EXCEPT !.agents = k.agents, !.out = o]
                            /\ m.out = o /\ PlaceOK("idle", m)
    BY <1>3, <2>1, FreshLocals, Zenon
  <2>3. call' = [call EXCEPT ![c] = m]
    BY <1>2, <1>11, <2>1, <2>2, Zenon DEF Answer
  <2>4. ASSUME quiet[c] PROVE QuietAt("idle", m, Order[c][pool], pool, Sound, health)
    <3>1. \/ k.healthy >= MaxCandidates
          \/ Len(k.agents) < MaxCandidates + Headrooms[k.retry]
          \/ k.retry = Len(Headrooms)
      BY <1>2, <1>11, Zenon DEF enough, asked
    <3>2. ~k.demoted
      BY <1>2, <1>11, Zenon
    <3>3. Serves(AtMost(k.agents, MaxCandidates), pool, health)
      BY <1>4, <1>5, <1>9, <2>4, <3>1, <3>2, OwnFacts, CountServes, Zenon
    <3> QED
      BY <2>1, <2>2, <3>3, Zenon DEF QuietAt
  <2> QED
    BY <1>6, <1>7, <1>8, <1>11, <2>2, <2>3, <2>4, OwnStep, Zenon
<1>12. CASE enough(c) /\ call[c].demoted /\ pc' = [pc EXCEPT ![c] = "build"]
            /\ call' = [call EXCEPT ![c].i = 1]
  <2> DEFINE m == [k EXCEPT !.i = 1]
  <2>1. call' = [call EXCEPT ![c] = m]
    BY <1>2, <1>12, Zenon
  <2>2. /\ m.agents = k.agents /\ m.i = 1 /\ m.out = k.out /\ m.seen = k.seen
        /\ m.retry = k.retry /\ m.healthy = k.healthy
    BY DEF Locals
  <2>3. m \in Locals
    <3>1. 1 \in Nat \ {0}
      OBVIOUS
    <3> QED
      BY <3>1, ZenonT(30) DEF Locals
  <2> HIDE DEF m
  <2>4. PlaceOK("build", m)
    <3>1. 1 <= Len(k.agents) + 1
      BY <1>3
    <3> QED
      BY <1>2, <1>5, <2>2, <3>1, Zenon DEF PlaceOK
  <2>5. ASSUME quiet[c] PROVE QuietAt("build", m, Order[c][pool], pool, Sound, health)
    <3>1. Listed(m, Order[c][pool]) /\ ReadOK(m, health)
      BY <1>5, <1>9, <2>2, <2>5, Zenon DEF Listed, ReadOK
    <3>2. \/ m.healthy >= MaxCandidates
          \/ Len(m.agents) < MaxCandidates + Headrooms[m.retry]
          \/ m.retry = Len(Headrooms)
      BY <1>2, <1>12, <2>2, Zenon DEF enough, asked
    <3>3. k.i - 1 = Len(k.agents)
      BY <1>3, <1>4
    <3>4. m.healthy = Cardinality(good(m.agents, Len(m.agents), Sound))
      BY <1>9, <2>2, <2>5, <3>3, Zenon DEF Counted
    <3>5. m.i - 1 = 0 /\ 0 \in Nat /\ 1..0 = {} /\ Len(m.out) = 0 /\ 2..0 = {} /\ 0 <= 0
      BY <1>5, <2>2
    <3>6. Cardinality(good(m.agents, 0, Sound)) = 0
      BY <3>5, GoodNext, ZenonT(40)
    <3>7. /\ Cardinality(good(m.agents, m.i - 1, Sound)) <= Len(m.out)
          /\ \A j \in 1..(m.i - 1) : m.agents[j] \in Sound =>
               \E i \in 1..Len(m.out) : m.out[i] = m.agents[j]
          /\ \A i \in 2..Len(m.out) : health[m.out[i]] # "faulty"
      BY <3>5, <3>6
    <3>8. Built(m, Sound, health)
      BY <3>2, <3>4, <3>7, Zenon DEF Built
    <3> QED
      BY <3>1, <3>8, Zenon DEF QuietAt
  <2> QED
    BY <1>6, <1>7, <1>8, <1>12, <2>1, <2>3, <2>4, <2>5, OwnStep, Zenon
<1> QED
  BY <1>10, <1>11, <1>12, Zenon DEF countEnds

\* keep and skip, as changes of the locals.
LEMMA KeepSkipFacts ==
  ASSUME NEW k \in Locals, k.i <= Len(k.agents), NEW m,
         \/ m = [k EXCEPT !.i = @ + 1, !.seen = "unread", !.out = Append(@, k.agents[k.i])]
         \/ m = [k EXCEPT !.i = @ + 1, !.seen = "unread"]
  PROVE  /\ m \in Locals /\ m.i = k.i + 1 /\ m.seen = "unread" /\ m.agents = k.agents
         /\ m.retry = k.retry /\ m.healthy = k.healthy
         /\ m.i <= Len(m.agents) + 1
<1>1. k.agents[k.i] \in Agents /\ k.i + 1 \in Nat \ {0} /\ k.out \in Seq(Agents)
  BY DEF Locals
<1>2. Append(k.out, k.agents[k.i]) \in Seq(Agents)
  BY <1>1
<1>3. m \in Locals
  BY <1>1, <1>2, ZenonT(40) DEF Locals
<1>4. /\ m.i = k.i + 1 /\ m.seen = "unread" /\ m.agents = k.agents
      /\ m.retry = k.retry /\ m.healthy = k.healthy
  BY Zenon DEF Locals
<1>5. m.i <= Len(m.agents) + 1
  BY <1>4 DEF Locals
<1> QED
  BY <1>3, <1>4, <1>5, Zenon

\* The build pass keeps an agent, and its invariants.
LEMMA KeepPlace ==
  ASSUME NEW k \in Locals, NEW p \in {"build", "probe"}, PlaceOK(p, k),
         k.i <= Len(k.agents), ~(Len(k.out) >= MaxCandidates), NEW m,
         m = [k EXCEPT !.i = @ + 1, !.seen = "unread", !.out = Append(@, k.agents[k.i])]
  PROVE  PlaceOK("build", m) /\ m.out = Append(k.out, k.agents[k.i])
<1>1. m.i <= Len(m.agents) + 1 /\ m.seen = "unread" /\ m.agents = k.agents
  BY KeepSkipFacts, Zenon
<1>2. m.out = Append(k.out, k.agents[k.i])
  BY DEF Locals
<1>3. k.out \in Seq(Agents) /\ k.agents[k.i] \in Agents /\ MaxCandidates \in Nat
  BY Constants DEF Locals
<1>4. Len(m.out) <= MaxCandidates
  BY <1>2, <1>3
<1>5. k.agents # << >>
  BY Zenon DEF PlaceOK
<1> QED
  BY <1>1, <1>2, <1>4, <1>5, Zenon DEF PlaceOK

\* It leaves one out.
LEMMA SkipPlace ==
  ASSUME NEW k \in Locals, NEW p \in {"build", "probe"}, PlaceOK(p, k),
         k.i <= Len(k.agents), NEW m, m = [k EXCEPT !.i = @ + 1, !.seen = "unread"]
  PROVE  PlaceOK("build", m) /\ m.out = k.out
<1>1. m.i <= Len(m.agents) + 1 /\ m.seen = "unread" /\ m.agents = k.agents
  BY KeepSkipFacts, Zenon
<1>2. m.out = k.out
  BY DEF Locals
<1> QED
  BY <1>1, <1>2, Zenon DEF PlaceOK

\* The build pass judges one agent.
LEMMA BuildKeeps ==
  ASSUME IInv, NEW c \in Callers, build(c)
  PROVE  IInv'
<1>1. TypeInv
  BY Zenon DEF IInv
<1>2. PICK k \in Locals : k = call[c] /\ PlaceOK("build", k)
  BY OwnFacts, Zenon DEF build
<1>3. /\ pc[c] = "build" /\ Judging(c) /\ call[c].seen # "unread" /\ transition(c)
      /\ Disturbs(c) /\ UNCHANGED <<clock, health, refreshVars>> /\ health' = health
      /\ ~(Len(k.out) >= MaxCandidates)
  BY <1>2, Zenon DEF build, Judging, full
<1>4. /\ k.i <= Len(k.agents) /\ probe' \in [Agents -> Int]
      /\ quiet' \in [Callers -> BOOLEAN] /\ quiet'[c] = quiet[c]
      /\ \A d \in Callers : d # c /\ quiet'[d] => quiet[d] /\ probe' = probe
      /\ Current(c) = k.agents[k.i]
  BY <1>2, <1>3, JudgedFacts, Zenon
<1>5. ASSUME quiet[c]
      PROVE  /\ Sound' = Sound /\ QuietAt("build", k, Order[c][pool], pool, Sound, health)
             /\ isFaulty(Current(c), call[c].seen) <=> k.agents[k.i] \notin Sound
             /\ Listed(k, Order[c][pool]) /\ Built(k, Sound, health) /\ ReadOK(k, health)
  BY <1>2, <1>3, <1>5, JudgedFacts, ZenonT(40) DEF QuietAt
<1>6. pc \in [Callers -> {"idle", "fetch", "count", "build", "probe"}]
      /\ call \in [Callers -> Locals]
  BY <1>1, Zenon DEF TypeInv
<1>7. CASE ~isFaulty(Current(c), call[c].seen) /\ keep(c) /\ UNCHANGED pc
  <2>1. PICK m : m = [k EXCEPT !.i = @ + 1, !.seen = "unread", !.out = Append(@, k.agents[k.i])]
    BY Zenon
  <2>2. call' = [call EXCEPT ![c] = m] /\ pc' = [pc EXCEPT ![c] = "build"]
    BY <1>2, <1>3, <1>4, <1>6, <1>7, <2>1, Zenon DEF keep
  <2>3. /\ m \in Locals /\ m.i = k.i + 1 /\ m.seen = "unread" /\ m.agents = k.agents
        /\ m.retry = k.retry /\ m.healthy = k.healthy
    BY <1>4, <2>1, KeepSkipFacts, Zenon
  <2>4. PlaceOK("build", m) /\ m.out = Append(k.out, k.agents[k.i])
    BY <1>2, <1>3, <1>4, <2>1, KeepPlace, Zenon
  <2>5. ASSUME quiet[c] PROVE QuietAt("build", m, Order[c][pool], pool, Sound', health)
    <3>1. k.agents[k.i] \in Sound
      BY <1>5, <1>7, <2>5, Zenon
    <3>2. health[k.agents[k.i]] # "faulty"
      BY <3>1, OwnFacts, Zenon DEF SoundFits
    <3>3. Built(m, Sound, health)
      BY <1>4, <1>5, <2>3, <2>4, <2>5, <3>2, KeepStep, Zenon
    <3>4. Listed(m, Order[c][pool]) /\ ReadOK(m, health)
      BY <1>5, <2>3, <2>5, Zenon DEF Listed, ReadOK
    <3> QED
      BY <1>5, <2>5, <3>3, <3>4, Zenon DEF QuietAt
  <2> QED
    BY <1>3, <1>4, <2>2, <2>3, <2>4, <2>5, OwnStep, Zenon
<1>8. CASE isFaulty(Current(c), call[c].seen) /\ call[c].out # << >> /\ skip(c) /\ UNCHANGED pc
  <2>1. PICK m : m = [k EXCEPT !.i = @ + 1, !.seen = "unread"]
    BY Zenon
  <2>2. call' = [call EXCEPT ![c] = m] /\ pc' = [pc EXCEPT ![c] = "build"]
    BY <1>2, <1>3, <1>6, <1>8, <2>1, Zenon DEF skip
  <2>3. /\ m \in Locals /\ m.i = k.i + 1 /\ m.seen = "unread" /\ m.agents = k.agents
        /\ m.retry = k.retry /\ m.healthy = k.healthy
    BY <1>4, <2>1, KeepSkipFacts, Zenon
  <2>4. PlaceOK("build", m) /\ m.out = k.out
    BY <1>2, <1>4, <2>1, SkipPlace, Zenon
  <2>5. ASSUME quiet[c] PROVE QuietAt("build", m, Order[c][pool], pool, Sound', health)
    <3>1. Built(m, Sound, health)
      BY <1>5, <1>8, <2>3, <2>4, <2>5, SkipStep, Zenon
    <3>2. Listed(m, Order[c][pool]) /\ ReadOK(m, health)
      BY <1>5, <2>3, <2>5, Zenon DEF Listed, ReadOK
    <3> QED
      BY <1>5, <2>5, <3>1, <3>2, Zenon DEF QuietAt
  <2> QED
    BY <1>3, <1>4, <2>2, <2>3, <2>4, <2>5, OwnStep, Zenon
<1>9. CASE isFaulty(Current(c), call[c].seen) /\ call[c].out = << >>
           /\ pc' = [pc EXCEPT ![c] = "probe"] /\ UNCHANGED call
  <2>1. call' = [call EXCEPT ![c] = k]
    BY <1>2, <1>6, <1>9, Zenon
  <2>2. PlaceOK("probe", k)
    BY <1>2, <1>4, <1>9, Zenon DEF PlaceOK
  <2>3. ASSUME quiet[c] PROVE QuietAt("probe", k, Order[c][pool], pool, Sound', health)
    BY <1>5, <1>9, <2>3, Zenon DEF QuietAt
  <2> QED
    BY <1>3, <1>4, <1>9, <2>1, <2>2, <2>3, OwnStep, Zenon
<1> QED
  BY <1>7, <1>8, <1>9, Zenon DEF build

\* shouldProbe takes the slot of a demoted primary or leaves the agent out.
LEMMA ShouldProbeKeeps ==
  ASSUME IInv, NEW c \in Callers, shouldProbe(c)
  PROVE  IInv'
<1>1. TypeInv /\ pc \in [Callers -> {"idle", "fetch", "count", "build", "probe"}]
      /\ call \in [Callers -> Locals] /\ probe \in [Agents -> Int]
  BY Zenon DEF IInv, TypeInv
<1>2. PICK k \in Locals : k = call[c] /\ PlaceOK("probe", k)
  BY OwnFacts, Zenon DEF shouldProbe
<1>3. /\ pc[c] = "probe" /\ pc' = [pc EXCEPT ![c] = "build"]
      /\ Disturbs(c) /\ UNCHANGED <<clock, health, refreshVars>> /\ health' = health
  BY Zenon DEF shouldProbe
<1>4. k.i <= Len(k.agents) /\ k.out = << >> /\ k.now \in Nat
  BY <1>2 DEF PlaceOK, Locals
<1>5. PICK n \in Agents : n = Current(c) /\ n = k.agents[k.i]
  BY <1>2, <1>4, CurrentIsAgent, Zenon
<1>6. /\ quiet' \in [Callers -> BOOLEAN] /\ quiet'[c] = quiet[c]
      /\ \A d \in Callers : d # c /\ quiet'[d] => quiet[d] /\ probe' = probe
  <2>1. quiet \in [Callers -> BOOLEAN] /\ quiet[c] \in BOOLEAN
    BY <1>1, Zenon DEF TypeInv
  <2>2. quiet' = [d \in Callers |-> quiet[d] /\ (d = c \/ probe' = probe)]
    BY <1>3, Zenon DEF Disturbs
  <2> QED
    BY <2>1, <2>2, Zenon
<1>7. ASSUME quiet[c]
      PROVE  /\ Listed(k, Order[c][pool]) /\ Built(k, Sound, health)
             /\ n \notin Sound /\ k.agents[k.i] \notin Sound
  BY <1>2, <1>3, <1>5, <1>7, OwnFacts, Zenon DEF QuietAt
<1>8. CASE keep(c) /\ probe' = [probe EXCEPT ![n] = k.now]
  <2>1. PICK m : m = [k EXCEPT !.i = @ + 1, !.seen = "unread", !.out = Append(@, k.agents[k.i])]
    BY Zenon
  <2>2. call' = [call EXCEPT ![c] = m]
    BY <1>2, <1>5, <1>8, <2>1, Zenon DEF keep
  <2>3. /\ m \in Locals /\ m.i = k.i + 1 /\ m.seen = "unread" /\ m.agents = k.agents
        /\ m.retry = k.retry /\ m.healthy = k.healthy
    BY <1>4, <2>1, KeepSkipFacts, Zenon
  <2>4. ~(Len(k.out) >= MaxCandidates)
    BY <1>4, Constants
  <2>5. PlaceOK("build", m) /\ m.out = Append(k.out, k.agents[k.i])
    BY <1>2, <1>4, <2>1, <2>4, KeepPlace, Zenon
  <2>6. probe' \in [Agents -> Int]
    <3>1. k.now \in Int
      BY <1>4
    <3> QED
      BY <1>1, <1>8, <3>1, Zenon
  <2>7. ASSUME quiet[c] PROVE QuietAt("build", m, Order[c][pool], pool, Sound', health)
    <3>1. Sound' = Sound
      BY <1>1, <1>3, <1>4, <1>7, <1>8, <2>7, ProbingKeepsSound, Zenon
    <3>2. Built(m, Sound, health)
      BY <1>4, <1>7, <2>3, <2>5, <2>7, KeepStep, Zenon
    <3>3. Listed(m, Order[c][pool]) /\ ReadOK(m, health)
      BY <1>7, <2>3, <2>7, Zenon DEF Listed, ReadOK
    <3> QED
      BY <3>1, <3>2, <3>3, Zenon DEF QuietAt
  <2> QED
    BY <1>3, <1>6, <2>2, <2>3, <2>5, <2>6, <2>7, OwnStep, Zenon
<1>9. CASE skip(c) /\ UNCHANGED probe
  <2>1. PICK m : m = [k EXCEPT !.i = @ + 1, !.seen = "unread"]
    BY Zenon
  <2>2. call' = [call EXCEPT ![c] = m]
    BY <1>2, <1>9, <2>1, Zenon DEF skip
  <2>3. /\ m \in Locals /\ m.i = k.i + 1 /\ m.seen = "unread" /\ m.agents = k.agents
        /\ m.retry = k.retry /\ m.healthy = k.healthy
    BY <1>4, <2>1, KeepSkipFacts, Zenon
  <2>4. PlaceOK("build", m) /\ m.out = k.out
    BY <1>2, <1>4, <2>1, SkipPlace, Zenon
  <2>5. probe' \in [Agents -> Int] /\ probe' = probe
    BY <1>1, <1>9, Zenon
  <2>6. ASSUME quiet[c] PROVE QuietAt("build", m, Order[c][pool], pool, Sound', health)
    <3>1. Sound' = Sound
      BY <1>3, <2>5, Zenon DEF Sound, isFaulty
    <3>2. Built(m, Sound, health)
      BY <1>7, <2>3, <2>4, <2>6, SkipStep, Zenon
    <3>3. Listed(m, Order[c][pool]) /\ ReadOK(m, health)
      BY <1>7, <2>3, <2>6, Zenon DEF Listed, ReadOK
    <3> QED
      BY <3>1, <3>2, <3>3, Zenon DEF QuietAt
  <2> QED
    BY <1>3, <1>6, <2>2, <2>3, <2>4, <2>5, <2>6, OwnStep, Zenon
<1> QED
  BY <1>2, <1>5, <1>8, <1>9, Zenon DEF shouldProbe

\* The build pass ends with its list, or with the forced probe.
LEMMA BuildEndsKeeps ==
  ASSUME IInv, NEW c \in Callers, buildEnds(c)
  PROVE  IInv'
<1>1. TypeInv /\ probe \in [Agents -> Int]
  BY Zenon DEF IInv, TypeInv
<1>2. PICK k \in Locals : k = call[c] /\ PlaceOK("build", k)
  BY OwnFacts, Zenon DEF buildEnds
<1>3. /\ pc[c] = "build" /\ pc' = [pc EXCEPT ![c] = "idle"]
      /\ Disturbs(c) /\ UNCHANGED <<clock, health, refreshVars>>
  BY Zenon DEF buildEnds
<1>4. /\ k.agents # << >> /\ Len(k.out) <= MaxCandidates /\ k.agents \in Seq(Agents)
      /\ k.out \in Seq(Agents) /\ k.now \in Nat /\ k.now \in Int
  BY <1>2 DEF PlaceOK, Locals
<1>5. k.i = Len(k.agents) + 1 \/ Len(k.out) >= MaxCandidates
  <2>1. ~(k.i <= Len(k.agents)) \/ Len(k.out) >= MaxCandidates
    BY <1>2, Zenon DEF buildEnds, Judging, full
  <2>2. k.i <= Len(k.agents) + 1 /\ k.i \in Nat /\ Len(k.agents) \in Nat
    BY <1>2, <1>4 DEF PlaceOK, Locals
  <2> QED
    BY <2>1, <2>2
<1>6. /\ quiet' \in [Callers -> BOOLEAN] /\ quiet'[c] = quiet[c]
      /\ \A d \in Callers : d # c /\ quiet'[d] => quiet[d] /\ probe' = probe
  <2>1. quiet \in [Callers -> BOOLEAN] /\ quiet[c] \in BOOLEAN
    BY <1>1, Zenon DEF TypeInv
  <2>2. quiet' = [d \in Callers |-> quiet[d] /\ (d = c \/ probe' = probe)]
    BY <1>3, Zenon DEF Disturbs
  <2> QED
    BY <2>1, <2>2, Zenon
<1>7. ASSUME quiet[c]
      PROVE  /\ Serves(k.out, pool, health)
             /\ k.out = << >> => Serves(<<k.agents[1]>>, pool, health)
  <2>1. Listed(k, Order[c][pool]) /\ Built(k, Sound, health)
    BY <1>2, <1>3, <1>7, OwnFacts, Zenon DEF QuietAt
  <2> QED
    BY <1>4, <1>5, <2>1, OwnFacts, BuiltServes, Zenon
<1>8. k.agents[1] \in Agents /\ <<k.agents[1]>> \in Seq(Agents) /\ <<k.agents[1]>> # << >>
      /\ Len(<<k.agents[1]>>) <= MaxCandidates
  BY <1>4, Constants
<1>9. ASSUME NEW o \in Seq(Agents), o # << >>, Len(o) <= MaxCandidates,
             call' = [call EXCEPT ![c] = Answer(c, o)], probe' \in [Agents -> Int],
             quiet[c] => Serves(o, pool, health)
      PROVE  IInv'
  <2>1. PICK m \in Locals : /\ m = [NoCall EXCEPT !.agents = k.agents, !.out = o]
                            /\ m.out = o /\ PlaceOK("idle", m)
    BY <1>4, <1>9, FreshLocals, Zenon
  <2>2. call' = [call EXCEPT ![c] = m]
    BY <1>2, <1>9, <2>1, Zenon DEF Answer
  <2>3. quiet[c] => QuietAt("idle", m, Order[c][pool], pool, Sound', health)
    BY <1>9, <2>1, Zenon DEF QuietAt
  <2> QED
    BY <1>3, <1>6, <1>9, <2>1, <2>2, <2>3, OwnStep, Zenon
<1>10. CASE call[c].out = << >> /\ forced(c)
  <2>1. /\ probe' = [probe EXCEPT ![k.agents[1]] = k.now]
        /\ call' = [call EXCEPT ![c] = Answer(c, <<k.agents[1]>>)]
    BY <1>2, <1>10, Zenon DEF forced
  <2>2. probe' \in [Agents -> Int]
    BY <1>1, <1>4, <2>1, Zenon
  <2>3. quiet[c] => Serves(<<k.agents[1]>>, pool, health)
    BY <1>2, <1>7, <1>10, Zenon
  <2> QED
    BY <1>8, <1>9, <2>1, <2>2, <2>3, Zenon
<1>11. CASE call[c].out # << >> /\ call' = [call EXCEPT ![c] = Answer(c, call[c].out)]
            /\ UNCHANGED probe
  <2>1. probe' \in [Agents -> Int]
    BY <1>1, <1>11, Zenon
  <2> QED
    BY <1>2, <1>4, <1>7, <1>9, <1>11, <2>1, Zenon
<1> QED
  BY <1>10, <1>11, Zenon DEF buildEnds

-----------------------------------------------------------------------------
(***************************************************************************)
(* The rest of the system, and the theorems.                               *)
(***************************************************************************)

\* Refreshes, statistics and the clock touch no call: they end its being quiet.
LEMMA RestKeeps ==
  ASSUME IInv,
         \/ \E P \in Snapshots : storeSnapshot(P)
         \/ PurgeAgents \/ Refresh
         \/ \E n \in Agents : \E h \in Reports[n] : observe(n, h)
         \/ tick
  PROVE  IInv'
<1>1. TypeInv
  BY Zenon DEF IInv
<1>2. ASSUME Noise, UNCHANGED <<clock, pc, call>>,
             health' \in [Agents -> Health], probe' \in [Agents -> Int], pool' \in SUBSET Agents
      PROVE  IInv'
  <2>1. quiet' \in [Callers -> BOOLEAN] /\ \A d \in Callers : ~quiet'[d]
    BY <1>2, Zenon DEF Noise
  <2>2. TypeInv'
    BY <1>1, <1>2, <2>1, Zenon DEF TypeInv
  <2>3. \A d \in Callers : Untouched(d)
    BY <1>2, <2>1, Zenon DEF Untouched
  <2> QED
    BY <2>2, <2>3, RestStep, Zenon
<1>3. ASSUME NEW P \in Snapshots, storeSnapshot(P) PROVE IInv'
  <2>1. P \in SUBSET Agents
    BY DemoterAssumption, Zenon
  <2>2. Noise /\ UNCHANGED <<clock, pc, call>> /\ health' = health /\ probe' = probe /\ pool' = P
    BY <1>3, Zenon DEF storeSnapshot
  <2>3. health' \in [Agents -> Health] /\ probe' \in [Agents -> Int] /\ pool' \in SUBSET Agents
    BY <1>1, <2>1, <2>2, Zenon DEF TypeInv
  <2> QED
    BY <1>2, <2>2, <2>3, Zenon
<1>4. CASE PurgeAgents
  <2>1. /\ Noise /\ UNCHANGED <<clock, pc, call>> /\ probe' = probe /\ pool' = pool
        /\ health' = [n \in Agents |-> IF n \in removed THEN "none" ELSE health[n]]
    BY <1>4, Zenon DEF PurgeAgents
  <2>2. "none" \in Health /\ \A n \in Agents : health[n] \in Health
    BY <1>1, Zenon DEF TypeInv, Health
  <2>3. health' \in [Agents -> Health]
    BY <2>1, <2>2, Zenon
  <2>4. probe' \in [Agents -> Int] /\ pool' \in SUBSET Agents
    BY <1>1, <2>1, Zenon DEF TypeInv
  <2> QED
    BY <1>2, <2>1, <2>3, <2>4, Zenon
<1>5. CASE Refresh
  <2>1. /\ Noise /\ UNCHANGED <<clock, pc, call>> /\ health' = health /\ pool' = pool
        /\ probe' = [n \in Agents |-> IF stays(n) THEN probe[n] ELSE Absent]
    BY <1>5, Zenon DEF Refresh
  <2>2. Absent \in Int /\ \A n \in Agents : probe[n] \in Int
    BY <1>1, Constants, Zenon DEF TypeInv
  <2>3. probe' \in [Agents -> Int]
    BY <2>1, <2>2, Zenon
  <2>4. health' \in [Agents -> Health] /\ pool' \in SUBSET Agents
    BY <1>1, <2>1, Zenon DEF TypeInv
  <2> QED
    BY <1>2, <2>1, <2>3, <2>4, Zenon
<1>6. ASSUME NEW n \in Agents, NEW h \in Reports[n], observe(n, h) PROVE IInv'
  <2>1. /\ Noise /\ UNCHANGED <<clock, pc, call>> /\ probe' = probe /\ pool' = pool
        /\ health' = [health EXCEPT ![n] = h]
    BY <1>6, Zenon DEF observe, refreshVars
  <2>2. h \in Health
    <3>1. Reports[n] \in SUBSET Health
      BY DemoterAssumption, Zenon
    <3> QED
      BY <3>1, Zenon
  <2>3. health' \in [Agents -> Health] /\ probe' \in [Agents -> Int] /\ pool' \in SUBSET Agents
    BY <1>1, <2>1, <2>2, Zenon DEF TypeInv
  <2> QED
    BY <1>2, <2>1, <2>3, Zenon
<1>7. CASE tick
  <2>1. UNCHANGED <<health, pool, probe, pc, call, quiet>>
    BY <1>7, Zenon DEF tick, refreshVars
  <2>2. clock' \in Nat
    BY <1>1, <1>7 DEF tick, TypeInv
  <2>3. TypeInv'
    BY <1>1, <2>1, <2>2, Zenon DEF TypeInv
  <2>4. \A d \in Callers : Untouched(d)
    BY <2>1, Zenon DEF Untouched
  <2> QED
    BY <2>3, <2>4, RestStep, Zenon
<1> QED
  BY <1>3, <1>4, <1>5, <1>6, <1>7, Zenon

\* The first state.
LEMMA InitIInv == Init => IInv
<1> SUFFICES ASSUME Init PROVE IInv
  BY Zenon
<1>1. << >> \in Seq(Agents) /\ 0 \in Nat
  OBVIOUS
<1>2. NoCall \in Locals /\ PlaceOK("idle", NoCall) /\ NoCall.agents = << >>
  BY <1>1, FreshLocals, Zenon
<1>3. "none" \in Health /\ Absent \in Int
  BY Constants, Zenon DEF Health
<1>4. TypeInv
  BY <1>1, <1>2, <1>3, Zenon DEF Init, TypeInv
<1>5. ASSUME NEW c \in Callers PROVE CallInv(c)
  <2>1. pc[c] = "idle" /\ call[c] = NoCall
    BY Zenon DEF Init
  <2> QED
    BY <1>2, <2>1, Zenon DEF CallInv, QuietOK, QuietAt
<1> QED
  BY <1>4, <1>5, Zenon DEF IInv

\* Every step keeps the invariant.
LEMMA StepIInv == IInv /\ [Next]_vars => IInv'
<1> SUFFICES ASSUME IInv, [Next]_vars PROVE IInv'
  BY Zenon
<1>1. ASSUME NEW c \in Callers, suppressed(c) \/ Candidates(c) PROVE IInv'
  BY <1>1, SuppressedKeeps, CandidatesKeeps, Zenon
<1>2. ASSUME NEW c \in Callers, CallerStep(c) PROVE IInv'
  BY <1>2, FetchKeeps, AgentStatsKeeps, CountKeeps, CountEndsKeeps, BuildKeeps,
     ShouldProbeKeeps, BuildEndsKeeps, Zenon DEF CallerStep
<1>3. CASE UNCHANGED vars
  <2>1. UNCHANGED <<clock, health, pool, probe, pc, call, quiet>>
    BY <1>3, Zenon DEF vars, refreshVars
  <2>2. TypeInv'
    BY <2>1, Zenon DEF IInv, TypeInv
  <2>3. \A d \in Callers : Untouched(d)
    BY <2>1, Zenon DEF Untouched
  <2> QED
    BY <2>2, <2>3, RestStep, Zenon
<1> QED
  BY <1>1, <1>2, <1>3, RestKeeps, Zenon DEF Next

\* What a selection relies on between its lock sections, in every reachable state.
THEOREM SelectionInvariant == Spec => []IInv
BY InitIInv, StepIInv, PTL DEF Spec

\* Candidates never refuses to route, whatever else happens; and a call during which
\* nothing changed returns no faulty agent after the primary.
RoutesToHealthy ==
  \A c \in Callers : Answered(c) =>
    /\ call[c].out # << >>
    /\ quiet[c] => \A i \in 2..Len(call[c].out) : health[call[c].out[i]] # "faulty"

\* This much holds however many agents are demoted and whatever the passes ask for.
THEOREM RoutesToHealthyHolds == Spec => []RoutesToHealthy
<1>1. IInv => RoutesToHealthy
  BY Zenon DEF IInv, CallInv, PlaceOK, QuietOK, QuietAt, Serves, Answered, RoutesToHealthy
<1> QED
  BY <1>1, SelectionInvariant, PTL

\* Demoted agents crowd out no healthy one: with passes that suffice for the pool, a
\* quiet call of candidatesWithRoute returns as many agents as asked for or every
\* healthy one, however its steps interleave with other calls.
THEOREM FallbacksAreHealthyHolds == Spec => [](PassesSuffice => FallbacksAreHealthy)
<1>1. IInv => (PassesSuffice => FallbacksAreHealthy)
  <2> SUFFICES ASSUME IInv, PassesSuffice, NEW c \in Callers, Answered(c)
               PROVE  /\ call[c].out # << >>
                      /\ quiet[c] => Serves(call[c].out, pool, health)
    BY Zenon DEF FallbacksAreHealthy, Serves
  <2>1. CallInv(c) /\ pc[c] = "idle" /\ call[c].agents # << >>
    BY Zenon DEF IInv, Answered
  <2> QED
    BY <2>1, Zenon DEF CallInv, PlaceOK, QuietOK, QuietAt
<1> QED
  BY <1>1, SelectionInvariant, PTL
=============================================================================
