---------------------------- MODULE MCHedgeLegs ----------------------------
(***************************************************************************)
(* Two legs to one agent: leg x sends p1 and p2, leg y sends its own p2.   *)
(* Each batch has one byte, so a cap of 3 always lets a leg travel in one  *)
(* flush and a cap of 2 may cut leg x in two.                              *)
(***************************************************************************)
EXTENDS HedgeLegs, TLC

CONSTANTS a, x, y, x1, x2, y2, p1, p2

MCCallOf == x1 :> x @@ x2 :> x @@ y2 :> y
MCPartOf == x1 :> p1 @@ x2 :> p2 @@ y2 :> p2
MCBin == x :> (a :> <<x1, x2>>) @@ y :> (a :> <<y2>>)
MCChunks == x1 :> <<1>> @@ x2 :> <<1>> @@ y2 :> <<1>>
=============================================================================
