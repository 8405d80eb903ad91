---------------------------- MODULE MCHedgeCall ----------------------------
(***************************************************************************)
(* Two partitions, the primary a1 and three other agents, the last beyond  *)
(* the cap.  Candidate lists differ between partitions, so waves split     *)
(* into legs; one list has no alternate, one has another agent first, as   *)
(* after a metadata refresh.                                               *)
(***************************************************************************)
EXTENDS HedgeCall

CONSTANTS a1, a2, a3, a4

MCLists == {<<a1, a2, a3, a4>>, <<a3, a2>>, <<a1>>}
=============================================================================
