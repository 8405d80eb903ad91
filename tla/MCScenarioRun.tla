---------------------------- MODULE MCScenarioRun ----------------------------
(***************************************************************************)
(* Two brokers and two partitions; a kill, a blackhole, a rolling restart  *)
(* and two overlapping removals; one connection at a time, reopened once,  *)
(* with a response channel that can be full.                               *)
(***************************************************************************)
EXTENDS ScenarioRun

MCNodes == {1, 2}
MCParts == {"p1", "p2"}
MCLeader0 == [p \in MCParts |-> IF p = "p1" THEN 1 ELSE 2]
MCISR0 == [p \in MCParts |-> IF p = "p1" THEN <<1, 2>> ELSE <<2, 1>>]
ph(at, n, action) == [at |-> at, node |-> n, action |-> action]
kill == <<ph(0, 1, "kill"), ph(1, 1, "restore")>>
blackhole == <<ph(0, 1, "blackhole"), ph(1, 1, "restore")>>
rolling == <<ph(0, 1, "withdraw"), ph(1, 1, "replace")>>
overlapping == <<ph(0, 1, "remove"), ph(0, 2, "remove"), ph(0, 1, "replace"), ph(1, 2, "replace")>>
MCScripts == {kill, blackhole, rolling, overlapping}
two == <<"produce", "produce">>
discover == <<"metadata", "produce">>
MCRequestSeqs == {two, discover}
MCCases == {
  <<"external", kill, two>>, <<"external", blackhole, two>>, <<"external", rolling, discover>>,
  <<"inprocess", kill, two>>, <<"inprocess", overlapping, two>>}
MCEventAt == [e \in {"e1", "e2"} |-> IF e = "e1" THEN 0 ELSE 1]
=============================================================================
