---------------------------- MODULE MCClientClose ----------------------------
(***************************************************************************)
(* The legs of MCHedgeLegs, each issued by a flush of its own, with a cap  *)
(* that lets a leg travel in one flush.                                    *)
(***************************************************************************)
EXTENDS MCHedgeLegs, ClientClose
=============================================================================
