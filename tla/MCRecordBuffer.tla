--------------------------- MODULE MCRecordBuffer ---------------------------
(***************************************************************************)
(* Instances of RecordBuffer for TLC.  Two agents and a byte cap of 2: i1  *)
(* is split into two chunks that cannot share a flush, i3 competes with it *)
(* for the buffer of a1, i2 travels to a2 in the same call as i1.          *)
(***************************************************************************)
EXTENDS RecordBuffer, TLC

CONSTANTS a1, a2, c1, c2, i1, i2, i3, p1, p2

MCCallOf == i1 :> c1 @@ i2 :> c1 @@ i3 :> c2
MCPartOf == i1 :> p1 @@ i2 :> p2 @@ i3 :> p1
MCBin == c1 :> (a1 :> <<i1>> @@ a2 :> <<i2>>) @@ c2 :> (a1 :> <<i3>> @@ a2 :> << >>)
MCChunks == i1 :> <<2, 1>> @@ i2 :> <<1>> @@ i3 :> <<1>>

\* One agent and one item per call (MCStaleTimer.cfg).
OneCallOf == i1 :> c1 @@ i3 :> c2
OnePartOf == i1 :> p1 @@ i3 :> p1
OneBin == c1 :> (a1 :> <<i1>>) @@ c2 :> (a1 :> <<i3>>)
OneChunks == i1 :> <<2, 1>> @@ i3 :> <<1>>
=============================================================================
