----------------------------- MODULE HedgeLegs -----------------------------
(***************************************************************************)
(* Hedge legs of concurrent Hedger.ProduceSync calls sharing the hedge     *)
(* buffer (hedger.go runHedgingAttempt, produce_result.go).  A leg is one  *)
(* MultiAdd of pre-encoded partitions to one agent; all its items share    *)
(* one done, legDone, that keeps the first result it is called with, and   *)
(* the result is read through the set of partitions the leg sent.          *)
(*                                                                         *)
(* The hedge buffer is RecordBuffer with Calls as the legs: encoded items  *)
(* are never split, responses are not checked for coverage, and the ctx of *)
(* a leg is its wave's, canceled when the wave ends.                       *)
(***************************************************************************)
EXTENDS RecordBuffer

\* A leg is bound for one agent, its items are distinct partitions and are not
\* split, and its ctx can be canceled.
ASSUME LegAssumption ==
  /\ Cancelable = Calls
  /\ MayOmit
  /\ \A i \in Items : Len(Chunks[i]) = 1
  /\ \A i, j \in Items : CallOf[i] = CallOf[j] /\ PartOf[i] = PartOf[j] => i = j
  /\ \A c \in Calls, n, m \in Agents : Bin[c][n] # << >> /\ Bin[c][m] # << >> => n = m

VARIABLE legRes   \* [Calls -> Result]: what legDone sent on the results channel

hvars == <<vars, legRes>>

\* own: the partitions the leg sent.
own(c) == {PartOf[i] : i \in ItemsOf(c)}

HInit == Init /\ legRes = [c \in Calls |-> NoResult]

\* Items of leg c whose done, legDone, is called in this step (all with one result).
Firing(c) == {i \in ItemsOf(c) : fires'[i] > fires[i]}

\* legDone: sync.Once keeps the result of the first call.
legDone(c) ==
  IF legRes[c].kind = "none" /\ Firing(c) # {}
    THEN outcome'[CHOOSE i \in Firing(c) : TRUE] ELSE legRes[c]

HNext == Next /\ legRes' = [c \in Calls |-> legDone(c)]

HSpec == HInit /\ [][HNext]_hvars

-----------------------------------------------------------------------------
\* Mutant: a result is not scoped to the leg.
scopedErr_unscoped(c, res) == res.kind # "resp" \/ res.bad # {}

\* scopeProduceResultToPartitions: the leg sees an error when the result carries
\* one or when one of its own partitions does.
scopedErr(c, res) == res.kind # "resp" \/ res.bad \cap own(c) # {}

\* Mutant: what the response omits is resolved too.
resolvedBy_all(c) == IF scopedErr(c, legRes[c]) THEN {} ELSE own(c)

\* produceResultAccumulator.accumulate: a leg with an error resolves nothing,
\* otherwise every own partition of the response is resolved.
resolvedBy(c) == IF scopedErr(c, legRes[c]) THEN {} ELSE legRes[c].ok \cap own(c)

\* A leg resolves a partition only when the batch it sent itself for that
\* partition was acknowledged (README: "another call's outcome never resolves or
\* fails it").
LegResolvesOnlyWhatLanded ==
  \A c \in Calls : \A p \in resolvedBy(c) :
    \E i \in ItemsOf(c) : PartOf[i] = p /\ <<i, 1>> \in landed

\* A leg is answered for what it sent: it resolves only what it landed itself, and
\* when it was answered with a response and all it sent was acknowledged it resolves
\* all of it; a sibling leg's failed partition in the same flush does not cost it
\* its success.
LegsAreScoped ==
  /\ LegResolvesOnlyWhatLanded
  /\ \A c \in Calls :
       legRes[c].kind = "resp" /\ (\A i \in ItemsOf(c) : <<i, 1>> \in landed) =>
         resolvedBy(c) = own(c)
=============================================================================
