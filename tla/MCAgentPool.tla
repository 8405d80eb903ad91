---------------------------- MODULE MCAgentPool ----------------------------
\* A small instance of AgentPool: any metadata for one topic (under its second UUID, with
\* at most one partition), while the other has its partition 0 on the first agent, has
\* an error or is not listed.  The hashes differ modulo 1, 2 and 3.
EXTENDS AgentPool

CONSTANTS t1, t2, id1, id2

MCHash == [tp \in Topics \X Partitions |-> 5 + 2 * tp[2]]

MCOther == {[error |-> TRUE, id |-> id1, leader |-> << >>],
            [error |-> FALSE, id |-> id1, leader |-> [p \in {0} |-> 1]]}
MCAny == {m \in TopicMeta : m.id = id1 \/ DOMAIN m.leader \subseteq {0}}
MCOne(B) == {[brokers |-> b, topics |-> m] : b \in B, m \in UNION {[T -> MCAny] : T \in SUBSET {t1}}}
MCTwo(B) == {[r EXCEPT !.topics = [t \in DOMAIN @ \cup {t2} |-> IF t = t2 THEN o ELSE @[t]]] :
               r \in MCOne(B), o \in MCOther}
MCBrokers == {{}, {1}, {2}, {1, 3}, {1, 2, 3}}
MCFeed == MCOne(MCBrokers) \cup MCTwo(MCBrokers)
MCOneTopic == MCOne(SUBSET Agents)
=============================================================================
