----------------------------- MODULE MCDemoter -----------------------------
(***************************************************************************)
(* Small instances of Demoter.  With two candidates asked for and a        *)
(* headroom of one, the first pass sees three of the four agents: two      *)
(* demoted ones at the head of the order hide the last healthy one.        *)
(***************************************************************************)
EXTENDS Demoter

CONSTANTS c1, c2, a1, a2, a3, a4

MCOrder == [c \in Callers |-> [P \in SUBSET Agents |->
  SelectSeq(IF c = c1 THEN <<a1, a2, a3, a4>> ELSE <<a4, a3, a2, a1>>, LAMBDA n : n \in P)]]
MCHeadrooms == <<1, 2>>

\* The agents at the head of the order fail and recover, the first also with few
\* requests.  All but the second may leave and come back.
MCReports == [n \in Agents |-> IF n = a1 THEN {"ok", "sparse", "faulty"}
                               ELSE IF n = a2 THEN {"ok", "faulty"} ELSE {}]
MCPools == {Agents, {a2}}
=============================================================================
