----------------------------- MODULE AgentPool -----------------------------
(***************************************************************************)
(* AgentPool (agentpool.go) and the DefaultPartitionAssignmentStrategy     *)
(* (partition_assignment.go): each metadata refresh replaces the snapshot  *)
(* that routes every record and names every topic's UUID, which a produce  *)
(* request (produce.go) carries: a batch is routed by one snapshot and     *)
(* sent, after linger and hedging, by a later one.                         *)
(*                                                                         *)
(* A Metadata response lists brokers and topics; a listed topic has an     *)
(* error or a UUID and the leader of some of its partitions.  kgo fetches  *)
(* it: the response is an input.                                           *)
(***************************************************************************)
EXTENDS Integers, Sequences, FiniteSets, SequencesExt

CONSTANTS
  Agents,        \* SUBSET Nat: node IDs
  Topics,
  Ids,           \* topic UUIDs
  MaxPartition,  \* bound on partition indexes
  Hash,          \* [Topics \X Nat -> Nat]: hashTopicPartition
  Feed           \* SUBSET Responses: those Metadata may give

ASSUME PoolAssumption ==
  /\ Agents \subseteq Nat /\ IsFiniteSet(Agents)
  /\ MaxPartition \in Nat
  /\ \A t \in Topics, p \in 0..MaxPartition : Hash[t, p] \in Nat

VARIABLES
  meta,     \* the last Metadata response applied
  agents,   \* poolState.agents, sorted
  topicIDs, \* poolState.topicIDs: a function on the known topics
  leaders,  \* the strategy's leader map
  known,    \* knownTopics
  noLeader, \* partitions whose leader is below 0
  counts    \* partitionCounts

vars == <<meta, agents, topicIDs, leaders, known, noLeader, counts>>

Partitions == 0..MaxPartition
None == -1   \* a Leader below 0

LeaderMaps == UNION {[P -> Agents \cup {None}] : P \in SUBSET Partitions}
TopicMeta == [error : {TRUE}, id : Ids, leader : {<< >>}]
             \cup [error : {FALSE}, id : Ids, leader : LeaderMaps]
Responses == [brokers : SUBSET Agents, topics : UNION {[T -> TopicMeta] : T \in SUBSET Topics}]

ASSUME FeedAssumption == Feed \subseteq Responses

NoTopics == [t \in {} |-> 0]

Init ==
  /\ meta = [brokers |-> {}, topics |-> NoTopics]
  /\ agents = << >> /\ topicIDs = NoTopics
  /\ leaders = NoTopics /\ known = {} /\ noLeader = {} /\ counts = NoTopics

-----------------------------------------------------------------------------
Good(r) == {t \in DOMAIN r.topics : ~r.topics[t].error}
Listed(r) == {tp \in Good(r) \X Partitions : tp[2] \in DOMAIN r.topics[tp[1]].leader}
LeaderIn(r, tp) == r.topics[tp[1]].leader[tp[2]]

\* Partitions whose leader is in the broker list, and those whose leader is not.
Kept(r) == {tp \in Listed(r) : LeaderIn(r, tp) \in r.brokers}
Excluded(r) == {tp \in Listed(r) : LeaderIn(r, tp) \notin r.brokers \cup {None}}

\* The highest partition index of topic t, plus one.
countOf(r, t) == LET P == DOMAIN r.topics[t].leader
                 IN  IF P = {} THEN 0 ELSE 1 + CHOOSE p \in P : \A q \in P : q <= p

\* Mutant: the topics all of whose leaders are excluded are unknown.
knownTopics_kept(r) == {tp[1] : tp \in Kept(r)}

\* The topics with a leader, or whose named leaders are all excluded.
knownTopics(r) == {tp[1] : tp \in Kept(r)} \cup {tp[1] : tp \in Excluded(r)}

\* Mutant: a topic with an error is dropped.
carried_none(r) == {}

\* buildLeadersAndTopicIDs: a topic with an error keeps its UUID.
carried(r) == {t \in DOMAIN r.topics : r.topics[t].error /\ t \in DOMAIN topicIDs}

\* refresh: the snapshot of response r replaces the last one.
refresh(r) ==
  /\ meta' = r
  /\ agents' = SetToSortSeq(r.brokers, <)
  /\ topicIDs' = [t \in Good(r) \cup carried(r) |->
                    IF t \in Good(r) THEN r.topics[t].id ELSE topicIDs[t]]
  /\ leaders' = [tp \in Kept(r) |-> LeaderIn(r, tp)]
  /\ known' = knownTopics(r)
  /\ noLeader' = {tp \in Listed(r) : LeaderIn(r, tp) = None}
  /\ counts' = [t \in Good(r) |-> countOf(r, t)]

Next == \E r \in Feed : refresh(r)

Spec == Init /\ [][Next]_vars

-----------------------------------------------------------------------------
NoRoute(why) == [out |-> << >>, route |-> why]

\* Mutant: the walk counts all agents, the leader too.
alternates_all(leader, h) ==
  LET n == Len(agents) - 1
  IN  [i \in 1..n |-> agents[((h + i - 1) % n) + 1]]

\* The other agents in hash order: nthNonLeader from h % nonLeaderCount on.
alternates(leader, h) ==
  LET others == SelectSeq(agents, LAMBDA n : n # leader)
      n == Len(agents) - 1
  IN  [i \in 1..n |-> others[((h + i - 1) % n) + 1]]

order(leader, h, max) ==
  LET all == <<leader>> \o alternates(leader, h)
  IN  SubSeq(all, 1, IF max < Len(all) THEN max ELSE Len(all))

\* A partition without a leader: why it has no route, or its stand-in.
standIn(t, p, max) ==
  CASE <<t, p>> \in noLeader -> NoRoute("missNoLeader")
    [] <<t, p>> \notin noLeader /\ agents = << >> -> NoRoute("missEmptyPool")
    [] <<t, p>> \notin noLeader /\ agents # << >> /\ t \notin known ->
         NoRoute(IF t \in DOMAIN counts /\ p >= counts[t] THEN "missOutOfRange"
                                                           ELSE "missUnknownTopic")
    [] OTHER ->
         IF p >= counts[t] THEN NoRoute("missOutOfRange")
         ELSE [out |-> order(agents[1 + (Hash[t, p] % Len(agents))], Hash[t, p], max),
               route |-> "standIn"]

\* candidatesWithRoute, for max > 0 and p >= 0.
candidatesWithRoute(t, p, max) ==
  IF <<t, p>> \in DOMAIN leaders
  THEN [out |-> order(leaders[t, p], Hash[t, p], max), route |-> "leader"]
  ELSE standIn(t, p, max)

candidates(t, p, max) == candidatesWithRoute(t, p, max).out

-----------------------------------------------------------------------------
\* The topics of a request, in the order they are first seen.
topicOrder(parts) ==
  FoldLeft(LAMBDA seen, tp : IF Contains(seen, tp[1]) THEN seen ELSE Append(seen, tp[1]),
           << >>, parts)

\* buildMultiTopicProduceRequestFromEncoded, for a sequence of <<topic, partition>>:
\* refused, or one entry per topic.  No encoded batch is empty (flushBatch).
Refused == << >>

buildRequest(parts) ==
  LET topics == topicOrder(parts)
  IN  IF ~(ToSet(topics) \subseteq DOMAIN topicIDs /\ IsInjective(parts)) THEN Refused
      ELSE [i \in DOMAIN topics |->
              [topic |-> topics[i], id |-> topicIDs[topics[i]],
               parts |-> SelectSeq(parts, LAMBDA tp : tp[1] = topics[i])]]

-----------------------------------------------------------------------------
TypeOK ==
  /\ agents \in Seq(meta.brokers) /\ Len(agents) = Cardinality(meta.brokers)
  /\ known \subseteq DOMAIN counts /\ DOMAIN counts \subseteq DOMAIN topicIDs
  /\ DOMAIN leaders \cup noLeader \subseteq Topics \X Partitions

AllMax == 1..(Cardinality(Agents) + 1)

\* A partition is routable exactly if there is an agent, Metadata lists its topic
\* without error and names at least one leader for it, the index is not past the
\* last one listed, and the partition is not one whose leader is below 0.  A live
\* leader is the primary.  The candidates are distinct agents of the snapshot, as
\* many as asked for or all there are, and asking for more (as the Demoter does)
\* only extends the list.
RoutedAsMetadataSays ==
  \A t \in Topics, p \in Partitions, k \in AllMax :
    LET L == IF t \in Good(meta) THEN meta.topics[t].leader ELSE << >>
        named == {q \in DOMAIN L : L[q] # None}
        routable == /\ meta.brokers # {} /\ named # {}
                    /\ p \in DOMAIN L => L[p] # None
                    /\ \E q \in DOMAIN L : p <= q
        c == candidates(t, p, k)
    IN  /\ (c # << >>) = routable
        /\ p \in named /\ L[p] \in meta.brokers => c[1] = L[p]
        /\ routable =>
             /\ \A i \in DOMAIN c : c[i] \in meta.brokers
             /\ IsInjective(c)
             /\ Len(c) = IF k < Len(agents) THEN k ELSE Len(agents)
             /\ IsPrefix(c, candidates(t, p, k + 1))

\* Transient topic errors do not blank a topic from the producer's view: what was
\* routable before a refresh can still be sent after it, every partition once and
\* under its topic's UUID (the last one Metadata gave), unless Metadata no longer
\* lists one of the topics; then the request is refused, for all its topics.
TopicIDsCarried ==
  [][\A t, u \in known : \A q \in Partitions :
       LET parts == IF t = u /\ q = 0 THEN <<<<t, 0>>>> ELSE <<<<t, 0>>, <<u, q>>>>
           last(x) == IF meta'.topics[x].error THEN topicIDs[x] ELSE meta'.topics[x].id
           entry(x) == [topic |-> x, id |-> last(x),
                        parts |-> SelectSeq(parts, LAMBDA tp : tp[1] = x)]
       IN  buildRequest(parts)' = CASE ~({t, u} \subseteq DOMAIN meta'.topics) -> Refused
                                    [] t \in DOMAIN meta'.topics /\ t = u -> <<entry(t)>>
                                    [] OTHER -> <<entry(t), entry(u)>>]_vars

\* DefaultPartitionAssignmentStrategy: "as agents come and go orderings only shift
\* for the partitions actually affected": a partition that keeps its leader, and
\* had none of the agents that left among its first candidates, keeps those.
OnlyAffectedShift ==
  [][\A t \in Topics, p \in Partitions :
       /\ <<t, p>> \in DOMAIN leaders /\ <<t, p>> \in DOMAIN leaders'
       /\ leaders[t, p] = leaders'[t, p]
       /\ meta'.brokers \subseteq meta.brokers
       /\ \A i \in DOMAIN candidates(t, p, 2) : candidates(t, p, 2)[i] \in meta'.brokers
       => candidates(t, p, 2)' = candidates(t, p, 2)]_vars
=============================================================================
