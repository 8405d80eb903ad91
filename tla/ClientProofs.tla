---------------------------- MODULE ClientProofs ----------------------------
(***************************************************************************)
(* Proofs about WarpstreamClient.                                          *)
(*                                                                         *)
(* ClientProduce: a ProduceSync that returns has answered every position   *)
(* with its own outcome, its WaitGroup never goes below zero, and the      *)
(* counters of records add up, for any records, partitions and calls, and  *)
(* any number of promises at once.                                         *)
(*                                                                         *)
(* RefreshLoop: fetches are paced however many misses nudge the loop, no   *)
(* nudge is lost, and few fetches follow Close, for any intervals and      *)
(* however long a fetch takes.                                             *)
(*                                                                         *)
(* Everything about a call is measured by the partitions it waits for: its *)
(* WaitGroup counts their positions, and the others have their answers.    *)
(***************************************************************************)
EXTENDS ClientProduce, RefreshLoop, FiniteSetTheorems, WellFoundedInduction, TLAPS

-----------------------------------------------------------------------------
(***************************************************************************)
(* The positions of an input.                                              *)
(***************************************************************************)
\* The positions of in that pass the filter, their partitions, those in the
\* partitions P, and the last one of a record.
OkAt(in) == {i \in DOMAIN in : in[i] \notin TooLarge}
PartsAt(in) == {PartOf[in[i]] : i \in OkAt(in)}
At(in, P) == {i \in OkAt(in) : PartOf[in[i]] \in P}
LastAt(in, r) == CHOOSE i \in OkAt(in) : in[i] = r /\ \A j \in OkAt(in) : in[j] = r => j <= i

\* What the model's operators read is the input.
LEMMA Reads ==
  /\ Positions = DOMAIN input /\ okIndices = OkAt(input) /\ OkParts = PartsAt(input)
  /\ \A P : InParts(P) = At(input, P)
  /\ \A r : indexOf(r) = LastAt(input, r)
BY Zenon DEF Positions, okIndices, OkParts, InParts, indexOf, OkAt, PartsAt, At, LastAt

\* The positions are finitely many, and those that are too large are the rest.
LEMMA AtFinite ==
  ASSUME NEW in \in Seq(Records)
  PROVE  /\ \A P : IsFiniteSet(At(in, P)) /\ Cardinality(At(in, P)) \in Nat
         /\ Cardinality(DOMAIN in \ OkAt(in)) \in Nat
         /\ Cardinality(OkAt(in)) \in Nat
         /\ Cardinality(OkAt(in)) + Cardinality(DOMAIN in \ OkAt(in)) = Len(in)
<1>1. DOMAIN in = 1..Len(in) /\ Len(in) \in Nat
  OBVIOUS
<1>2. IsFiniteSet(1..Len(in)) /\ Cardinality(1..Len(in)) = Len(in)
  <2>1. 1 \in Int /\ Len(in) \in Int
    BY <1>1
  <2>2. /\ IsFiniteSet(1..Len(in))
        /\ Cardinality(1..Len(in)) = IF 1 > Len(in) THEN 0 ELSE Len(in) - 1 + 1
    BY <2>1, FS_Interval, Zenon
  <2> QED
    BY <1>1, <2>2
<1>3. OkAt(in) \in SUBSET DOMAIN in
  BY Zenon DEF OkAt
<1>4. IsFiniteSet(OkAt(in)) /\ Cardinality(OkAt(in)) \in Nat
  BY <1>1, <1>2, <1>3, FS_Subset, FS_CardinalityType, Zenon
<1>5. \A P : At(in, P) \in SUBSET OkAt(in)
  BY Zenon DEF At
<1>6. \A P : IsFiniteSet(At(in, P)) /\ Cardinality(At(in, P)) \in Nat
  BY <1>4, <1>5, FS_Subset, FS_CardinalityType, Zenon
<1>7. DOMAIN in \cap OkAt(in) = OkAt(in)
  BY <1>3, Zenon
<1>8. /\ IsFiniteSet(DOMAIN in \ OkAt(in))
      /\ Cardinality(DOMAIN in \ OkAt(in)) = Cardinality(DOMAIN in) - Cardinality(DOMAIN in \cap OkAt(in))
  BY <1>1, <1>2, FS_Difference, Zenon
<1>9. Cardinality(DOMAIN in \ OkAt(in)) \in Nat
  BY <1>8, FS_CardinalityType, Zenon
<1>10. Cardinality(DOMAIN in \ OkAt(in)) = Len(in) - Cardinality(OkAt(in))
  BY <1>1, <1>2, <1>7, <1>8, Zenon
<1>11. Cardinality(OkAt(in)) + Cardinality(DOMAIN in \ OkAt(in)) = Len(in)
  <2> DEFINE x == Cardinality(OkAt(in))
             y == Cardinality(DOMAIN in \ OkAt(in))
             z == Len(in)
  <2>1. x \in Nat /\ y \in Nat /\ z \in Nat /\ y = z - x
    BY <1>1, <1>4, <1>9, <1>10, Zenon
  <2> HIDE DEF x, y, z
  <2>2. x + y = z
    BY <2>1
  <2> QED
    BY <2>2, Zenon DEF x, y, z
<1> QED
  BY <1>4, <1>6, <1>9, <1>11, Zenon

\* The positions of fewer partitions are fewer by those of the ones taken away.
LEMMA AtWithout ==
  ASSUME NEW in \in Seq(Records), NEW P, NEW Q \in SUBSET P
  PROVE  Cardinality(At(in, P \ Q)) = Cardinality(At(in, P)) - Cardinality(At(in, Q))
<1>1. At(in, P \ Q) = At(in, P) \ At(in, Q) /\ At(in, P) \cap At(in, Q) = At(in, Q)
  BY Zenon DEF At
<1>2. IsFiniteSet(At(in, P))
  BY AtFinite, Zenon
<1>3. Cardinality(At(in, P) \ At(in, Q)) = Cardinality(At(in, P)) - Cardinality(At(in, P) \cap At(in, Q))
  BY <1>2, FS_Difference, Zenon
<1> QED
  BY <1>1, <1>3, Zenon

\* Every partition of the input has a position.
LEMMA AtNone ==
  ASSUME NEW in \in Seq(Records), NEW P \in SUBSET PartsAt(in)
  PROVE  Cardinality(At(in, P)) = 0 <=> P = {}
<1>1. At(in, P) = {} <=> P = {}
  BY Zenon DEF At, PartsAt
<1>2. IsFiniteSet(At(in, P))
  BY AtFinite, Zenon
<1> QED
  BY <1>1, <1>2, FS_EmptySet, Zenon

\* All partitions of the input have all positions.
LEMMA AtAll == \A in : At(in, PartsAt(in)) = OkAt(in)
BY Zenon DEF At, PartsAt

\* A record's last position is one of it, and the same seen from all of them.
LEMMA LastIs ==
  ASSUME NEW in \in Seq(Records), NEW i \in OkAt(in)
  PROVE  LastAt(in, in[i]) \in OkAt(in) /\ in[LastAt(in, in[i])] = in[i]
<1> DEFINE S == {j \in OkAt(in) : in[j] = in[i]}
           T == {Len(in) - j : j \in S}
<1>1. i \in S /\ S \subseteq 1..Len(in) /\ Len(in) \in Nat
  BY DEF OkAt
<1>2. T \in SUBSET Nat /\ T # {}
  BY <1>1
<1>3. \E j \in S : \A k \in S : k <= j
  <2> DEFINE R == {ss \in Nat \X Nat : ss[1] < ss[2]}
  <2>1. IsWellFoundedOn(R, Nat)
    BY NatLessThanWellFounded, Zenon DEF OpToRel
  <2> HIDE DEF R
  <2>2. PICK x \in T : \A y \in T : ~(<<y, x>> \in R)
    BY <1>2, <2>1, WFMin, Zenon
  <2>3. \A y \in T : ~(y < x)
    BY <1>2, <2>2, Zenon DEF R
  <2>4. PICK j \in S : x = Len(in) - j
    BY <2>2, Zenon
  <2>5. ASSUME NEW k \in S PROVE k <= j
    <3>1. Len(in) - k \in T
      BY Zenon
    <3>2. ~(Len(in) - k < Len(in) - j)
      BY <2>3, <2>4, <3>1, Zenon
    <3>3. k \in Int /\ j \in Int /\ Len(in) \in Int
      BY <1>1
    <3> QED
      BY <3>2, <3>3
  <2> QED
    BY <2>5, Zenon
<1>4. \E j \in OkAt(in) : in[j] = in[i] /\ \A k \in OkAt(in) : in[k] = in[i] => k <= j
  BY <1>3, Zenon
<1> QED
  BY <1>4, Zenon DEF LastAt

-----------------------------------------------------------------------------
(***************************************************************************)
(* The inductive invariant.                                                *)
(***************************************************************************)
\* The partitions of the call that are not answered yet.
waiting ==
  IF pc \in {"filter", "route"} THEN PartsAt(input)
  ELSE IF pc = "add" THEN routed ELSE inflight

\* How far the call is with its partitions; the WaitGroup counts the positions of
\* those it waits for.
StageInv ==
  /\ pc \in {"idle", "filter", "route", "add", "wait", "copy", "hooks"}
  /\ input \in Seq(Records)
  /\ routed \subseteq PartsAt(input) /\ rejected \subseteq PartsAt(input)
  /\ routed \cap rejected = {}
  /\ pc = "filter" => routed = {} /\ rejected = {}
  /\ pc \notin {"filter", "route"} => PartsAt(input) = routed \cup rejected
  /\ inflight \subseteq routed
  /\ pc # "wait" => inflight = {}
  /\ wg = IF pc = "filter" THEN 0 ELSE Cardinality(At(input, waiting))

\* The answer of a position whose partition was told err.
Answer(i, err) == [rec |-> input[i], err |-> err]

\* A partition the call does not wait for was told something, and the last position
\* of each of its records has it; after the copy all of them have.
AnswerInv ==
  /\ DOMAIN results = DOMAIN input
  /\ \A p \in PartsAt(input) \ waiting : verdict[p] # "none"
  /\ pc # "filter" =>
       \A i \in DOMAIN input \ OkAt(input) : results[i] = Answer(i, "tooLarge")
  /\ \A i \in OkAt(input) :
       /\ PartOf[input[i]] \notin waiting
       /\ i = LastAt(input, input[i]) \/ pc \in {"hooks", "idle"}
       => results[i] = Answer(i, verdict[PartOf[input[i]]])
  /\ pc = "idle" => \A i \in DOMAIN input : fired[i] = results[i].err

Buffered == {r \in Singles : promise[r] = "buffered"}

\* The promises not called yet are finitely many, the counters add up, and a miss
\* has asked for a refresh before it is counted.
Counters == [total : Nat, tooLarge : Nat, noAgent : Nat, failed : Nat]
CountInv ==
  /\ count \in Counters
  /\ acked \in Nat /\ nudged \in BOOLEAN
  /\ promise \in [Singles -> {"none", "buffered", "tooLarge", "noAgent"} \cup Outcomes]
  /\ IsFiniteSet(Buffered)
  /\ rejected # {} => nudged
  /\ RecordsAccountedFor

IInv == StageInv /\ AnswerInv /\ CountInv

-----------------------------------------------------------------------------
(***************************************************************************)
(* The steps of a call, and its WaitGroup.                                 *)
(***************************************************************************)
\* Of no partition there is no position.
LEMMA AtEmpty == ASSUME NEW in \in Seq(Records) PROVE Cardinality(At(in, {})) = 0
BY AtNone, Zenon

\* When nothing is in flight, and the call is past its buffer or before it, the
\* WaitGroup is at zero.
LEMMA AtRest ==
  ASSUME StageInv, pc \in {"idle", "filter", "copy", "hooks"}
  PROVE  wg = 0
<1>1. pc # "filter" => waiting = {}
  BY Zenon DEF StageInv, waiting
<1> QED
  BY <1>1, AtEmpty, Zenon DEF StageInv

\* ProduceSync starts with the WaitGroup at zero.
LEMMA CallStage ==
  ASSUME StageInv, NEW in \in Inputs, ProduceSync(in)
  PROVE  StageInv'
<1>1. input' = in /\ in \in Seq(Records)
  BY ClientAssumption, Zenon DEF ProduceSync
<1>2. wg' = 0
  BY AtRest, Zenon DEF ProduceSync
<1>3. pc' = "filter" /\ routed' = {} /\ rejected' = {} /\ inflight' = {}
  BY Zenon DEF ProduceSync, StageInv
<1> QED
  BY <1>1, <1>2, <1>3, Zenon DEF StageInv

\* filter adds what the call waits for.
LEMMA FilterStage ==
  ASSUME StageInv, filter
  PROVE  StageInv'
<1>1. /\ input' = input /\ routed' = {} /\ rejected' = {} /\ inflight' = {}
      /\ pc' \in {"route", "copy"} /\ wg' = Cardinality(OkAt(input))
      /\ pc' = "copy" => OkAt(input) = {}
  BY Reads, Zenon DEF filter, waitFor, StageInv
<1>2. OkAt(input) = {} => PartsAt(input) = {}
  BY Zenon DEF PartsAt
<1>3. CASE pc' = "route"
  <2>1. waiting' = PartsAt(input')
    BY <1>3, Zenon DEF waiting
  <2>2. wg' = Cardinality(At(input', waiting'))
    BY <1>1, <2>1, AtAll, Zenon
  <2> QED
    BY <1>1, <1>3, <2>2, Zenon DEF StageInv
<1>4. CASE pc' = "copy"
  <2>1. waiting' = {} /\ PartsAt(input) = {} /\ At(input, {}) = OkAt(input)
    BY <1>1, <1>2, <1>4, AtAll, Zenon DEF waiting
  <2> QED
    BY <1>1, <1>4, <2>1, Zenon DEF StageInv
<1> QED
  BY <1>1, <1>3, <1>4, Zenon

\* A partition is routed, or not, once.
LEMMA RouteStage ==
  ASSUME StageInv, NEW p \in Parts, NEW a \in BOOLEAN, route(p, a)
  PROVE  StageInv'
<1>1. /\ pc = "route" /\ pc' = "route" /\ input' = input /\ wg' = wg /\ inflight' = inflight
      /\ p \in PartsAt(input) /\ p \notin routed /\ p \notin rejected
      /\ \/ routed' = routed \cup {p} /\ rejected' = rejected
         \/ rejected' = rejected \cup {p} /\ routed' = routed
  BY Reads, Zenon DEF route
<1>2. waiting' = waiting
  BY <1>1, Zenon DEF waiting
<1>3. inflight' = {} /\ wg' = Cardinality(At(input', waiting'))
  BY <1>1, <1>2, Zenon DEF StageInv
<1> QED
  BY <1>1, <1>3, Zenon DEF StageInv

\* The positions of the rejected partitions are answered, and those of the routed
\* ones remain.
LEMMA RejectStage ==
  ASSUME StageInv, reject
  PROVE  StageInv'
<1>1. /\ pc = "route" /\ PartsAt(input) = routed \cup rejected
      /\ wg' = wg - Cardinality(At(input, rejected))
      /\ input' = input /\ routed' = routed /\ rejected' = rejected /\ inflight' = inflight
      /\ pc' = IF routed = {} THEN "copy" ELSE "add"
  BY Reads, Zenon DEF reject, write
<1>2. inflight = {} /\ wg = Cardinality(At(input, routed \cup rejected))
  BY <1>1, Zenon DEF StageInv, waiting
<1>3. routed = (routed \cup rejected) \ rejected
  BY Zenon DEF StageInv
<1>4. wg' = Cardinality(At(input, routed))
  BY <1>1, <1>2, <1>3, AtWithout DEF StageInv
<1>5. waiting' = routed
  BY <1>1, <1>2, Zenon DEF waiting
<1> QED
  BY <1>1, <1>2, <1>4, <1>5, Zenon DEF StageInv

\* A completion answers the positions of its partition.
LEMMA DoneStage ==
  ASSUME StageInv, NEW p \in Parts, NEW e \in Outcomes, done(p, e)
  PROVE  StageInv'
<1>1. /\ p \in inflight /\ pc = "wait" /\ inflight' = inflight \ {p}
      /\ wg' = wg - Cardinality(At(input, {p}))
      /\ pc' = pc /\ input' = input /\ routed' = routed /\ rejected' = rejected
  BY Reads, Zenon DEF done, write, StageInv
<1>2. waiting = inflight /\ waiting' = inflight'
  BY <1>1, Zenon DEF waiting
<1>3. wg' = Cardinality(At(input', waiting'))
  BY <1>1, <1>2, AtWithout, Zenon DEF StageInv
<1> QED
  BY <1>1, <1>2, <1>3, Zenon DEF StageInv

\* The steps that leave the WaitGroup alone.
LEMMA QuietStage ==
  ASSUME StageInv, multiAdd \/ wait \/ copy \/ fireUnbuffered
  PROVE  StageInv'
<1>1. input' = input /\ wg' = wg /\ routed' = routed /\ rejected' = rejected
  BY Zenon DEF multiAdd, wait, copy, fireUnbuffered
<1>2. CASE multiAdd
  <2>1. pc = "add" /\ pc' = "wait" /\ inflight' = routed /\ waiting = routed /\ waiting' = routed
    BY <1>2, Zenon DEF multiAdd, waiting
  <2> QED
    BY <1>1, <2>1, Zenon DEF StageInv
<1>3. CASE wait
  <2>1. pc = "wait" /\ pc' = "copy" /\ inflight' = inflight /\ waiting = inflight /\ wg = 0
    BY <1>3, Zenon DEF wait, waiting
  <2>2. inflight = {}
    <3>1. Cardinality(At(input, inflight)) = 0 /\ inflight \in SUBSET PartsAt(input)
      BY <2>1, Zenon DEF StageInv
    <3> QED
      BY <3>1, AtNone, Zenon DEF StageInv
  <2>3. waiting' = {} /\ wg' = Cardinality(At(input', waiting'))
    BY <1>1, <2>1, <2>2, AtEmpty, Zenon DEF waiting, StageInv
  <2> QED
    BY <1>1, <2>1, <2>2, <2>3, Zenon DEF StageInv
<1>4. CASE copy \/ fireUnbuffered
  <2>1. pc \in {"copy", "hooks"} /\ pc' \in {"hooks", "idle"} /\ inflight' = inflight
    BY <1>4, Zenon DEF copy, fireUnbuffered
  <2>2. inflight = {} /\ waiting = {} /\ waiting' = {}
    BY <2>1, Zenon DEF StageInv, waiting
  <2> QED
    BY <1>1, <2>1, <2>2, Zenon DEF StageInv
<1> QED
  BY <1>2, <1>3, <1>4, Zenon

\* Produce and its promise leave a call alone.
LEMMA OtherStage ==
  ASSUME StageInv, UNCHANGED callVars
  PROVE  StageInv'
<1>1. UNCHANGED <<pc, input, wg, routed, rejected, inflight>>
  BY Zenon DEF callVars
<1>2. waiting' = waiting
  BY <1>1, Zenon DEF waiting
<1> QED
  BY <1>1, <1>2, Zenon DEF StageInv

\* No step breaks the stage of a call.
LEMMA StageStep == StageInv /\ [Next]_vars => StageInv'
<1> SUFFICES ASSUME StageInv, [Next]_vars PROVE StageInv'
  BY Zenon
<1>1. CASE UNCHANGED vars
  BY <1>1, OtherStage, Zenon DEF vars
<1>2. CASE \E r \in Singles, a \in BOOLEAN : Produce(r, a)
  BY <1>2, OtherStage, Zenon DEF Produce
<1>3. CASE \E r \in Singles, e \in Outcomes : promiseDone(r, e)
  BY <1>3, OtherStage, Zenon DEF promiseDone
<1>4. CASE CallStep
  BY <1>4, FilterStage, RouteStage, RejectStage, QuietStage, Zenon DEF CallStep
<1>5. CASE \E in \in Inputs : ProduceSync(in)
  BY <1>5, CallStage, Zenon
<1>6. CASE \E p \in Parts, e \in Outcomes : done(p, e)
  BY <1>6, DoneStage, Zenon
<1> QED
  BY <1>1, <1>2, <1>3, <1>4, <1>5, <1>6, Zenon DEF Next

-----------------------------------------------------------------------------
(***************************************************************************)
(* The answers of a call.                                                  *)
(***************************************************************************)
\* The partitions of an input are partitions.
LEMMA PartsOf ==
  ASSUME NEW in \in Seq(Records)
  PROVE  PartsAt(in) \subseteq Parts
<1>1. \A i \in OkAt(in) : in[i] \in Records
  BY DEF OkAt
<1> QED
  BY <1>1, Zenon DEF PartsAt, Parts

\* A new call has no answers, and filter answers what is too large.
LEMMA StartAnswer ==
  ASSUME AnswerInv, filter \/ \E in \in Inputs : ProduceSync(in)
  PROVE  AnswerInv'
<1>1. CASE \E in \in Inputs : ProduceSync(in)
  <2>1. pc' = "filter" /\ DOMAIN results' = DOMAIN input'
    BY <1>1, Zenon DEF ProduceSync
  <2>2. waiting' = PartsAt(input')
    BY <2>1, Zenon DEF waiting
  <2>3. \A i \in OkAt(input') : PartOf[input'[i]] \in PartsAt(input')
    BY Zenon DEF PartsAt
  <2> QED
    BY <2>1, <2>2, <2>3, Zenon DEF AnswerInv
<1>2. CASE filter
  <2>1. /\ input' = input /\ DOMAIN results' = DOMAIN input
        /\ \A i \in DOMAIN input \ OkAt(input) :
             results'[i] = [rec |-> input[i], err |-> "tooLarge"]
        /\ pc' = IF OkAt(input) = {} THEN "copy" ELSE "route"
    BY <1>2, Reads, Zenon DEF filter
  <2>2. \A i \in DOMAIN input' \ OkAt(input') : results'[i] = Answer(i, "tooLarge")'
    BY <2>1, Zenon DEF Answer
  <2>3. \A i \in OkAt(input') : PartOf[input'[i]] \in waiting'
    BY <2>1, Zenon DEF waiting, PartsAt
  <2>4. PartsAt(input') \ waiting' = {}
    BY <2>3, Zenon DEF PartsAt
  <2> QED
    BY <2>1, <2>2, <2>3, <2>4, Zenon DEF AnswerInv
<1> QED
  BY <1>1, <1>2, Zenon

\* write answers the last positions of the records of P, and leaves the others.
LEMMA WriteAnswer ==
  ASSUME StageInv, AnswerInv, NEW P \in SUBSET PartsAt(input), NEW e, e # "none",
         write(P, e), input' = input, waiting' = waiting \ P,
         pc \in {"route", "wait"}, pc' \notin {"hooks", "idle"}
  PROVE  AnswerInv'
<1>1. /\ results' = [i \in DOMAIN input |->
                       IF i \in At(input, P) /\ i = LastAt(input, input[i])
                       THEN [rec |-> input[i], err |-> e] ELSE results[i]]
      /\ verdict' = [p \in Parts |-> IF p \in P THEN e ELSE verdict[p]]
  BY Reads, Zenon DEF write
<1>2. PartsAt(input) \subseteq Parts
  BY PartsOf, Zenon DEF StageInv
<1>3. ASSUME NEW p \in PartsAt(input') \ waiting' PROVE verdict'[p] # "none"
  BY <1>1, <1>2, <1>3, Zenon DEF AnswerInv
<1>4. ASSUME NEW i \in DOMAIN input' \ OkAt(input') PROVE results'[i] = Answer(i, "tooLarge")'
  <2>1. i \notin At(input, P) /\ i \in DOMAIN input \ OkAt(input)
    BY <1>4, Zenon DEF At
  <2> QED
    BY <1>1, <2>1, Zenon DEF AnswerInv, Answer
<1>5. ASSUME NEW i \in OkAt(input'), PartOf[input'[i]] \notin waiting',
             i = LastAt(input', input'[i])
      PROVE  results'[i] = Answer(i, verdict[PartOf[input[i]]])'
  <2> DEFINE p == PartOf[input[i]]
  <2>1. i \in OkAt(input) /\ i \in DOMAIN input /\ p \in PartsAt(input) /\ p \in Parts
    BY <1>2, <1>5, Zenon DEF OkAt, PartsAt
  <2>2. CASE p \in P
    <3>1. results'[i] = [rec |-> input[i], err |-> e]
      BY <1>1, <1>5, <2>1, <2>2, Zenon DEF At
    <3>2. verdict'[p] = e
      BY <1>1, <2>1, <2>2, Zenon
    <3> QED
      BY <3>1, <3>2, Zenon DEF Answer
  <2>3. CASE p \notin P
    <3>1. i \notin At(input, P) /\ p \notin waiting
      BY <1>5, <2>3, Zenon DEF At
    <3>2. results'[i] = results[i] /\ verdict'[p] = verdict[p]
      BY <1>1, <2>1, <2>3, <3>1, Zenon
    <3>3. results[i] = Answer(i, verdict[p])
      BY <1>5, <2>1, <3>1, Zenon DEF AnswerInv
    <3> QED
      BY <3>2, <3>3, Zenon DEF Answer
  <2> QED
    BY <2>2, <2>3, Zenon
<1>6. DOMAIN results' = DOMAIN input'
  BY <1>1, Zenon
<1> QED
  BY <1>3, <1>4, <1>5, <1>6, Zenon DEF AnswerInv

\* A completion answers its partition, reject those without an agent.
LEMMA SettleAnswer ==
  ASSUME StageInv, AnswerInv, reject \/ \E p \in Parts, e \in Outcomes : done(p, e)
  PROVE  AnswerInv'
<1>1. CASE reject
  <2>1. /\ write(rejected, "noAgent") /\ input' = input /\ pc = "route"
        /\ PartsAt(input) = routed \cup rejected /\ inflight' = inflight /\ routed' = routed
        /\ pc' = IF routed = {} THEN "copy" ELSE "add"
    BY <1>1, Reads, Zenon DEF reject
  <2>2. waiting' = waiting \ rejected
    BY <2>1, Zenon DEF waiting, StageInv
  <2>3. rejected \in SUBSET PartsAt(input)
    BY Zenon DEF StageInv
  <2> QED
    BY <2>1, <2>2, <2>3, WriteAnswer, Zenon
<1>2. CASE \E p \in Parts, e \in Outcomes : done(p, e)
  <2>1. PICK p \in Parts, e \in Outcomes : done(p, e)
    BY <1>2, Zenon
  <2>2. /\ write({p}, e) /\ input' = input /\ p \in inflight
        /\ inflight' = inflight \ {p} /\ pc' = pc
    BY <2>1, Zenon DEF done
  <2>3. pc = "wait" /\ {p} \in SUBSET PartsAt(input) /\ e # "none"
    BY <2>2, Zenon DEF StageInv, Outcomes
  <2>4. waiting' = waiting \ {p}
    BY <2>2, <2>3, Zenon DEF waiting
  <2> QED
    BY <2>2, <2>3, <2>4, WriteAnswer, Zenon
<1> QED
  BY <1>1, <1>2, Zenon

\* The copy gives each position what the last one of its record has.
LEMMA CopyAnswer ==
  ASSUME StageInv, AnswerInv, copy
  PROVE  AnswerInv'
<1>1. /\ pc = "copy" /\ pc' = "hooks" /\ input' = input /\ verdict' = verdict
      /\ inflight' = inflight
      /\ results' = [i \in DOMAIN input |-> IF i \in OkAt(input)
                       THEN results[LastAt(input, input[i])] ELSE results[i]]
  BY Reads, Zenon DEF copy, copied
<1>2. waiting = {} /\ waiting' = {}
  BY <1>1, Zenon DEF waiting, StageInv
<1>3. ASSUME NEW i \in OkAt(input) PROVE results'[i] = Answer(i, verdict[PartOf[input[i]]])
  <2> DEFINE k == LastAt(input, input[i])
  <2>1. k \in OkAt(input) /\ input[k] = input[i]
    BY <1>3, LastIs, Zenon DEF StageInv
  <2>2. k = LastAt(input, input[k])
    BY <2>1, Zenon
  <2>3. results[k] = Answer(k, verdict[PartOf[input[k]]])
    BY <1>2, <2>1, <2>2, Zenon DEF AnswerInv
  <2>4. results'[i] = results[k]
    BY <1>1, <1>3, Zenon DEF OkAt
  <2> QED
    BY <2>1, <2>3, <2>4, Zenon DEF Answer
<1>4. ASSUME NEW i \in OkAt(input') PROVE results'[i] = Answer(i, verdict[PartOf[input[i]]])'
  BY <1>1, <1>3, <1>4, Zenon DEF Answer
<1>5. ASSUME NEW i \in DOMAIN input' \ OkAt(input') PROVE results'[i] = Answer(i, "tooLarge")'
  BY <1>1, <1>5, Zenon DEF AnswerInv, Answer
<1>6. \A p \in PartsAt(input') \ waiting' : verdict'[p] # "none"
  BY <1>1, <1>2, Zenon DEF AnswerInv
<1> QED
  BY <1>1, <1>4, <1>5, <1>6, Zenon DEF AnswerInv

\* The other steps of a call write no answer, and fireUnbuffered reports each.
LEMMA QuietAnswer ==
  ASSUME StageInv, StageInv', AnswerInv,
         \/ \E p \in Parts, a \in BOOLEAN : route(p, a)
         \/ multiAdd \/ wait \/ fireUnbuffered \/ UNCHANGED callVars
  PROVE  AnswerInv'
<1>1. input' = input /\ results' = results /\ verdict' = verdict
  BY Zenon DEF route, multiAdd, wait, fireUnbuffered, callVars
<1>2. waiting' = waiting
  BY Zenon DEF route, multiAdd, wait, fireUnbuffered, callVars, waiting, StageInv
<1>3. pc # "filter" \/ pc' = "filter"
  BY Zenon DEF route, multiAdd, wait, fireUnbuffered, callVars
<1>4. pc' \in {"hooks", "idle"} => pc \in {"hooks", "idle"}
  BY Zenon DEF route, multiAdd, wait, fireUnbuffered, callVars
<1>5. pc' = "idle" => \A i \in DOMAIN input : fired'[i] = results[i].err
  BY Zenon DEF route, multiAdd, wait, fireUnbuffered, callVars, AnswerInv, Positions
<1> QED
  BY <1>1, <1>2, <1>3, <1>4, <1>5, Zenon DEF AnswerInv, Answer

\* No step breaks the answers of a call.
LEMMA AnswerStep == StageInv /\ AnswerInv /\ [Next]_vars => AnswerInv'
<1> SUFFICES ASSUME StageInv, AnswerInv, [Next]_vars PROVE AnswerInv'
  BY Zenon
<1>1. StageInv'
  BY StageStep, Zenon
<1>2. CASE UNCHANGED vars
  <2>1. UNCHANGED callVars
    BY <1>2, Zenon DEF vars
  <2> QED
    BY <1>1, <2>1, QuietAnswer, Zenon
<1>3. CASE \E r \in Singles : \/ \E a \in BOOLEAN : Produce(r, a)
                              \/ \E e \in Outcomes : promiseDone(r, e)
  <2>1. UNCHANGED callVars
    BY <1>3, Zenon DEF Produce, promiseDone
  <2> QED
    BY <1>1, <2>1, QuietAnswer, Zenon
<1>4. CASE CallStep
  BY <1>1, <1>4, StartAnswer, QuietAnswer, SettleAnswer, CopyAnswer, Zenon DEF CallStep
<1>5. CASE \E in \in Inputs : ProduceSync(in)
  BY <1>5, StartAnswer, Zenon
<1>6. CASE \E p \in Parts, e \in Outcomes : done(p, e)
  BY <1>6, SettleAnswer, Zenon
<1> QED
  BY <1>2, <1>3, <1>4, <1>5, <1>6, Zenon DEF Next

-----------------------------------------------------------------------------
(***************************************************************************)
(* The counters.                                                           *)
(***************************************************************************)
\* The records of the call that are not answered yet, and the sum the counters
\* make.
unanswered == IF pc = "filter" THEN Len(input) ELSE wg
Sum == /\ count.total = count.tooLarge + count.noAgent + count.failed + acked
                        + (unanswered + Cardinality(Buffered))
       /\ count.noAgent > 0 => nudged

\* That sum is what RecordsAccountedFor is about.
LEMMA SumIs == RecordsAccountedFor <=> Sum
BY Zenon DEF RecordsAccountedFor, Sum, unanswered, Buffered

\* What is not answered is a number.
LEMMA UnansweredNat ==
  ASSUME StageInv
  PROVE  unanswered \in Nat /\ wg \in Nat
<1>1. Cardinality(At(input, waiting)) \in Nat
  BY AtFinite, Zenon DEF StageInv
<1>2. Len(input) \in Nat
  BY DEF StageInv
<1> QED
  BY <1>1, <1>2, Zenon DEF unanswered, StageInv

\* The counters' record.
LEMMA CountFields ==
  ASSUME CountInv
  PROVE  /\ count.total \in Nat /\ count.tooLarge \in Nat /\ count.noAgent \in Nat
         /\ count.failed \in Nat /\ acked \in Nat /\ Cardinality(Buffered) \in Nat
         /\ Sum
<1>1. Cardinality(Buffered) \in Nat
  BY FS_CardinalityType, Zenon DEF CountInv
<1>2. Sum
  BY SumIs, Zenon DEF CountInv
<1>3. /\ count.total \in Nat /\ count.tooLarge \in Nat /\ count.noAgent \in Nat
      /\ count.failed \in Nat /\ acked \in Nat
  BY Zenon DEF CountInv, Counters
<1> QED
  BY <1>1, <1>2, <1>3, Zenon

\* Counters that have taken over n records from those unanswered, or n new ones.
LEMMA CountsOn ==
  ASSUME StageInv, StageInv', CountInv,
         NEW a \in Nat, NEW b \in Nat, NEW c \in Nat, NEW d \in Nat, NEW e \in Nat,
         count' \in Counters,
         count'.total = count.total + a, count'.tooLarge = count.tooLarge + b,
         count'.noAgent = count.noAgent + c, count'.failed = count.failed + d,
         acked' = acked + e, UNCHANGED promise,
         unanswered' = unanswered + a - b - c - d - e,
         nudged' \in BOOLEAN, nudged => nudged', c > 0 => nudged',
         rejected' # {} => nudged'
  PROVE  CountInv'
<1>1. Buffered' = Buffered
  BY Zenon DEF Buffered
<1>2. acked' \in Nat
  BY DEF CountInv
<1>4. Sum'
  <2> DEFINE m == Cardinality(Buffered)
             u == unanswered
             v == unanswered'
             t == count.total
             x == count.tooLarge
             y == count.noAgent
             z == count.failed
             w == acked
  <2>1. /\ m \in Nat /\ u \in Nat /\ v \in Int /\ t \in Nat /\ x \in Nat /\ y \in Nat
        /\ z \in Nat /\ w \in Nat /\ v = u + a - b - c - d - e
        /\ t = x + y + z + w + (u + m)
    BY CountFields, UnansweredNat DEF Sum
  <2> HIDE DEF m, u, v, t, x, y, z, w
  <2>2. t + a = (x + b) + (y + c) + (z + d) + (w + e) + (v + m)
    BY <2>1
  <2>3. count'.total = count'.tooLarge + count'.noAgent + count'.failed + acked'
                       + (unanswered' + Cardinality(Buffered)')
    BY <1>1, <2>2, Zenon DEF m, u, v, t, x, y, z, w
  <2>4. count'.noAgent > 0 => nudged'
    BY CountFields DEF Sum
  <2> QED
    BY <2>3, <2>4, Zenon DEF Sum
<1>5. RecordsAccountedFor'
  BY <1>4, SumIs, PTL
<1> QED
  BY <1>1, <1>2, <1>5, Zenon DEF CountInv

\* A new call brings its records, and filter counts those that are too large.
LEMMA StartCount ==
  ASSUME StageInv, StageInv', CountInv, filter \/ \E in \in Inputs : ProduceSync(in)
  PROVE  CountInv'
<1>1. nudged' = nudged /\ promise' = promise /\ acked' = acked + 0 /\ nudged \in BOOLEAN
  BY DEF filter, ProduceSync, CountInv
<1>2. CASE \E in \in Inputs : ProduceSync(in)
  <2>1. PICK in \in Inputs : ProduceSync(in)
    BY <1>2, Zenon
  <2>2. /\ pc = "idle" /\ pc' = "filter" /\ input' = in /\ rejected' = {}
        /\ count' = [count EXCEPT !.total = @ + Len(in)]
    BY <2>1, Zenon DEF ProduceSync
  <2>3. Len(in) \in Nat
    BY ClientAssumption
  <2>4. /\ count' \in Counters
        /\ count'.total = count.total + Len(in) /\ count'.tooLarge = count.tooLarge + 0
        /\ count'.noAgent = count.noAgent + 0 /\ count'.failed = count.failed + 0
    BY <2>2, <2>3 DEF CountInv, Counters
  <2>5. unanswered = 0 /\ unanswered' = Len(in)
    BY <2>2, AtRest, Zenon DEF unanswered
  <2>6. unanswered' = unanswered + Len(in) - 0 - 0 - 0 - 0
    BY <2>3, <2>5
  <2> QED
    BY <1>1, <2>2, <2>3, <2>4, <2>6, CountsOn
<1>3. CASE filter
  <2> DEFINE n == Cardinality(DOMAIN input \ OkAt(input))
  <2>1. /\ pc = "filter" /\ pc' # "filter" /\ wg' = Cardinality(OkAt(input))
        /\ rejected' = rejected /\ count' = [count EXCEPT !.tooLarge = @ + n]
    BY <1>3, Reads, Zenon DEF filter, waitFor
  <2>2. n \in Nat /\ Cardinality(OkAt(input)) \in Nat /\ Cardinality(OkAt(input)) + n = Len(input)
    BY AtFinite, Zenon DEF StageInv
  <2> HIDE DEF n
  <2>3. /\ count' \in Counters
        /\ count'.total = count.total + 0 /\ count'.tooLarge = count.tooLarge + n
        /\ count'.noAgent = count.noAgent + 0 /\ count'.failed = count.failed + 0
    BY <2>1, <2>2, SMTT(30) DEF CountInv, Counters
  <2>4. unanswered = Len(input) /\ unanswered' = Cardinality(OkAt(input))
    BY <2>1, Zenon DEF unanswered
  <2>5. unanswered' = unanswered + 0 - n - 0 - 0 - 0
    BY <2>2, <2>4
  <2>6. rejected' # {} => nudged'
    BY <1>1, <2>1, Zenon DEF CountInv
  <2> QED
    BY <1>1, <2>2, <2>3, <2>5, <2>6, CountsOn
<1> QED
  BY <1>2, <1>3, Zenon

\* A miss is counted when its positions are answered, and the refresh was asked for
\* when it was met.
LEMMA RejectCount ==
  ASSUME StageInv, StageInv', CountInv, reject
  PROVE  CountInv'
<1> DEFINE n == Cardinality(At(input, rejected))
<1>1. /\ pc = "route" /\ pc' # "filter" /\ wg' = wg - n
      /\ rejected' = rejected /\ nudged' = nudged /\ promise' = promise
      /\ acked' = acked /\ count' = [count EXCEPT !.noAgent = @ + n]
  BY Reads, Zenon DEF reject, write
<1>2. n \in Nat /\ (rejected = {} => n = 0)
  <2>1. input \in Seq(Records)
    BY Zenon DEF StageInv
  <2>2. Cardinality(At(input, {})) = 0 /\ n \in Nat
    BY <2>1, AtEmpty, AtFinite, Zenon
  <2> QED
    BY <2>2, Zenon
<1> HIDE DEF n
<1>3. /\ count' \in Counters
      /\ count'.total = count.total + 0 /\ count'.tooLarge = count.tooLarge + 0
      /\ count'.noAgent = count.noAgent + n /\ count'.failed = count.failed + 0
  BY <1>1, <1>2 DEF CountInv, Counters
<1>4. unanswered' = unanswered + 0 - 0 - n - 0 - 0
  BY <1>1, <1>2, UnansweredNat DEF unanswered
<1>5. /\ acked' = acked + 0 /\ nudged' \in BOOLEAN /\ (nudged => nudged')
      /\ (n > 0 => nudged') /\ (rejected' # {} => nudged')
  BY <1>1, <1>2 DEF CountInv
<1> QED
  BY <1>1, <1>2, <1>3, <1>4, <1>5, CountsOn, Zenon

\* A completion counts the records of its group, failed or produced.
LEMMA DoneCount ==
  ASSUME StageInv, StageInv', CountInv, NEW p \in Parts, NEW e \in Outcomes, done(p, e)
  PROVE  CountInv'
<1> DEFINE n == Cardinality(At(input, {p}))
           f == IF e = "ok" THEN 0 ELSE n
           k == IF e = "ok" THEN n ELSE 0
<1>1. /\ pc' = pc /\ p \in inflight /\ wg' = wg - n
      /\ rejected' = rejected /\ nudged' = nudged /\ promise' = promise
      /\ settle(n, e)
  BY Reads, Zenon DEF done, write
<1>2. n \in Nat
  BY AtFinite, Zenon DEF StageInv
<1> HIDE DEF n
<1>3. f \in Nat /\ k \in Nat /\ n = f + k
  BY <1>2
<1>4. /\ count' \in Counters
      /\ count'.total = count.total + 0 /\ count'.tooLarge = count.tooLarge + 0
      /\ count'.noAgent = count.noAgent + 0 /\ count'.failed = count.failed + f
      /\ acked' = acked + k
  BY <1>1, <1>2 DEF CountInv, Counters, settle
<1> HIDE DEF f, k
<1>5. unanswered' = unanswered + 0 - 0 - 0 - f - k
  <2>1. pc # "filter"
    BY <1>1, Zenon DEF StageInv
  <2> QED
    BY <1>1, <1>2, <1>3, <2>1, UnansweredNat DEF unanswered
<1>6. nudged' \in BOOLEAN /\ (nudged => nudged') /\ (rejected' # {} => nudged')
  BY <1>1, Zenon DEF CountInv
<1> QED
  BY <1>1, <1>3, <1>4, <1>5, <1>6, CountsOn

\* The other steps of a call count nothing, and route asks for a refresh when it
\* meets a miss.
LEMMA QuietCount ==
  ASSUME StageInv, StageInv', CountInv,
         \/ \E p \in Parts, a \in BOOLEAN : route(p, a)
         \/ multiAdd \/ wait \/ copy \/ fireUnbuffered \/ UNCHANGED vars
  PROVE  CountInv'
<1>1. count' = count /\ acked' = acked /\ promise' = promise /\ wg' = wg
  BY Zenon DEF route, multiAdd, wait, copy, fireUnbuffered, vars, callVars
<1>2. \/ pc # "filter" /\ pc' # "filter"
      \/ pc' = pc /\ input' = input
  BY Zenon DEF route, multiAdd, wait, copy, fireUnbuffered, vars, callVars
<1>3. unanswered' = unanswered
  BY <1>1, <1>2, Zenon DEF unanswered
<1>4. nudged' \in BOOLEAN /\ (nudged => nudged') /\ (rejected' # {} => nudged')
  BY Zenon DEF route, multiAdd, wait, copy, fireUnbuffered, vars, callVars, CountInv
<1>5. /\ count' \in Counters
      /\ count'.total = count.total + 0 /\ count'.tooLarge = count.tooLarge + 0
      /\ count'.noAgent = count.noAgent + 0 /\ count'.failed = count.failed + 0
      /\ acked' = acked + 0
  BY <1>1, CountFields DEF CountInv
<1>6. unanswered' = unanswered + 0 - 0 - 0 - 0 - 0
  BY <1>3, UnansweredNat
<1> QED
  BY <1>1, <1>4, <1>5, <1>6, CountsOn

\* The kinds of a promise.
PromiseIs == {"none", "buffered", "tooLarge", "noAgent"} \cup Outcomes

\* A promise that is made is one more to be called, one that is called one less, and
\* one that is answered at once is neither.
LEMMA PromiseSets ==
  ASSUME CountInv, NEW r \in Singles, NEW x \in PromiseIs,
         promise' = [promise EXCEPT ![r] = x]
  PROVE  /\ promise' \in [Singles -> PromiseIs] /\ IsFiniteSet(Buffered')
         /\ x = "buffered" /\ promise[r] # "buffered" =>
              Cardinality(Buffered') = Cardinality(Buffered) + 1
         /\ x # "buffered" /\ promise[r] = "buffered" =>
              Cardinality(Buffered') = Cardinality(Buffered) - 1
         /\ x # "buffered" /\ promise[r] # "buffered" =>
              Cardinality(Buffered') = Cardinality(Buffered)
<1>1. /\ promise' \in [Singles -> PromiseIs]
      /\ promise'[r] = x /\ \A q \in Singles \ {r} : promise'[q] = promise[q]
  BY Zenon DEF CountInv, PromiseIs
<1>2. Buffered' = IF x = "buffered" THEN Buffered \cup {r} ELSE Buffered \ {r}
  BY <1>1, Zenon DEF Buffered
<1>3. IsFiniteSet(Buffered)
  BY Zenon DEF CountInv
<1>4. r \in Buffered <=> promise[r] = "buffered"
  BY Zenon DEF Buffered
<1>5. /\ IsFiniteSet(Buffered \cup {r})
      /\ Cardinality(Buffered \cup {r}) =
           IF r \in Buffered THEN Cardinality(Buffered) ELSE Cardinality(Buffered) + 1
  BY <1>3, FS_AddElement, Zenon
<1>6. /\ IsFiniteSet(Buffered \ {r})
      /\ Cardinality(Buffered \ {r}) =
           IF r \in Buffered THEN Cardinality(Buffered) - 1 ELSE Cardinality(Buffered)
  BY <1>3, FS_RemoveElement, Zenon
<1> QED
  BY <1>1, <1>2, <1>4, <1>5, <1>6, Zenon

\* What is counted for a promise, or no longer to be called, makes up for what was
\* submitted.
LEMMA PromiseCounts ==
  ASSUME CountInv, StageInv, UNCHANGED callVars,
         promise' \in [Singles -> PromiseIs], IsFiniteSet(Buffered'),
         NEW a \in Nat, NEW b \in Nat, NEW c \in Nat, NEW d \in Nat, NEW e \in Nat,
         count' \in Counters,
         count'.total = count.total + a, count'.tooLarge = count.tooLarge + b,
         count'.noAgent = count.noAgent + c, count'.failed = count.failed + d,
         acked' = acked + e,
         Cardinality(Buffered') = Cardinality(Buffered) + a - b - c - d - e,
         nudged' \in BOOLEAN, nudged => nudged', c > 0 => nudged'
  PROVE  CountInv'
<1>1. unanswered' = unanswered /\ rejected' = rejected
  BY Zenon DEF unanswered, callVars
<1>2. Sum'
  <2> DEFINE m == Cardinality(Buffered)
             n == Cardinality(Buffered')
             u == unanswered
             t == count.total
             w == count.tooLarge
             y == count.noAgent
             z == count.failed
             k == acked
  <2>1. /\ m \in Nat /\ u \in Nat /\ t \in Nat /\ w \in Nat /\ y \in Nat /\ z \in Nat
        /\ k \in Nat /\ n = m + a - b - c - d - e
        /\ t = w + y + z + k + (u + m)
    BY CountFields, UnansweredNat, Zenon DEF Sum
  <2> HIDE DEF m, n, u, t, w, y, z, k
  <2>2. t + a = (w + b) + (y + c) + (z + d) + (k + e) + (u + n)
    BY <2>1
  <2>3. count'.total = count'.tooLarge + count'.noAgent + count'.failed + acked'
                       + (unanswered' + Cardinality(Buffered'))
    BY <1>1, <2>2, Zenon DEF m, n, u, t, w, y, z, k
  <2>4. count'.noAgent > 0 => nudged'
    BY CountFields DEF Sum
  <2> QED
    BY <2>3, <2>4, Zenon DEF Sum
<1>3. RecordsAccountedFor'
  BY <1>2, SumIs, PTL
<1>4. acked' \in Nat
  BY DEF CountInv
<1> QED
  BY <1>1, <1>3, <1>4, Zenon DEF CountInv, PromiseIs

\* One counter goes up by one and the others stay.
Bumped(g, h, a, b, c) ==
  /\ h \in Counters
  /\ h.total = g.total + a /\ h.tooLarge = g.tooLarge + b
  /\ h.noAgent = g.noAgent + c /\ h.failed = g.failed

\* So it does in the record of the counters.
LEMMA Bumps ==
  ASSUME NEW g \in Counters
  PROVE  /\ Bumped(g, [g EXCEPT !.total = @ + 1], 1, 0, 0)
         /\ Bumped(g, [g EXCEPT !.tooLarge = @ + 1], 0, 1, 0)
         /\ Bumped(g, [g EXCEPT !.noAgent = @ + 1], 0, 0, 1)
<1>1. Bumped(g, [g EXCEPT !.total = @ + 1], 1, 0, 0)
  BY DEF Bumped, Counters
<1>2. Bumped(g, [g EXCEPT !.tooLarge = @ + 1], 0, 1, 0)
  BY DEF Bumped, Counters
<1>3. Bumped(g, [g EXCEPT !.noAgent = @ + 1], 0, 0, 1)
  BY DEF Bumped, Counters
<1> QED
  BY <1>1, <1>2, <1>3, Zenon

\* Two counters in turn.
LEMMA BumpsTwo ==
  ASSUME NEW g \in Counters
  PROVE  /\ Bumped(g, [g EXCEPT !.total = @ + 1, !.tooLarge = @ + 1], 1, 1, 0)
         /\ Bumped(g, [g EXCEPT !.total = @ + 1, !.noAgent = @ + 1], 1, 0, 1)
<1> DEFINE h == [g EXCEPT !.total = @ + 1]
<1>1. Bumped(g, h, 1, 0, 0) /\ h \in Counters
  BY Bumps, Zenon DEF Bumped
<1>2. /\ [g EXCEPT !.total = @ + 1, !.tooLarge = @ + 1] = [h EXCEPT !.tooLarge = @ + 1]
      /\ [g EXCEPT !.total = @ + 1, !.noAgent = @ + 1] = [h EXCEPT !.noAgent = @ + 1]
  BY Zenon
<1> HIDE DEF h
<1>3. PICK k : k = [h EXCEPT !.tooLarge = @ + 1]
  BY Zenon
<1>4. PICK l : l = [h EXCEPT !.noAgent = @ + 1]
  BY Zenon
<1>5. Bumped(h, k, 0, 1, 0) /\ Bumped(h, l, 0, 0, 1)
  BY <1>1, <1>3, <1>4, Bumps, Zenon
<1>6. g.total \in Nat /\ g.tooLarge \in Nat /\ g.noAgent \in Nat /\ g.failed \in Nat
  BY Zenon DEF Counters
<1>7. Bumped(g, k, 1, 1, 0) /\ Bumped(g, l, 1, 0, 1)
  BY <1>1, <1>5, <1>6 DEF Bumped
<1> QED
  BY <1>2, <1>3, <1>4, <1>7, Zenon

\* Produce answers at once or makes a promise.
LEMMA ProduceCount ==
  ASSUME StageInv, CountInv, NEW r \in Singles, NEW h \in BOOLEAN, Produce(r, h)
  PROVE  CountInv'
<1> DEFINE ok == r \notin TooLarge /\ h
           reason == IF r \in TooLarge THEN "tooLarge" ELSE "noAgent"
<1>1. /\ UNCHANGED callVars /\ acked' = acked /\ promise[r] # "buffered"
      /\ promise' = [promise EXCEPT ![r] = IF ok THEN "buffered" ELSE reason]
      /\ count' = IF ok THEN [count EXCEPT !.total = @ + 1]
                  ELSE [count EXCEPT !.total = @ + 1, ![reason] = @ + 1]
      /\ nudged' = IF r \in TooLarge THEN nudged ELSE nudged \/ ~h
  BY Zenon DEF Produce, routeRecord
<1>2. nudged' \in BOOLEAN /\ (nudged => nudged') /\ (r \notin TooLarge /\ ~h => nudged')
  <2>1. nudged \in BOOLEAN
    BY Zenon DEF CountInv
  <2> QED
    BY <1>1, <2>1, Zenon
<1>3. acked' = acked + 0 /\ Cardinality(Buffered) \in Nat
  BY <1>1, CountFields
<1>4. CASE ok
  <2>1. /\ count' \in Counters
        /\ count'.total = count.total + 1 /\ count'.tooLarge = count.tooLarge + 0
        /\ count'.noAgent = count.noAgent + 0 /\ count'.failed = count.failed + 0
    BY <1>1, <1>4 DEF CountInv, Counters
  <2>2. promise' = [promise EXCEPT ![r] = "buffered"] /\ "buffered" \in PromiseIs
    BY <1>1, <1>4, Zenon DEF PromiseIs
  <2>3. /\ promise' \in [Singles -> PromiseIs] /\ IsFiniteSet(Buffered')
        /\ Cardinality(Buffered') = Cardinality(Buffered) + 1
    BY <1>1, <2>2, PromiseSets, Zenon
  <2>4. Cardinality(Buffered') = Cardinality(Buffered) + 1 - 0 - 0 - 0 - 0
    BY <1>3, <2>3
  <2> QED
    BY <1>1, <1>2, <1>3, <2>1, <2>3, <2>4, PromiseCounts
<1>5. CASE ~ok
  <2> DEFINE b == IF r \in TooLarge THEN 1 ELSE 0
             c == IF r \in TooLarge THEN 0 ELSE 1
  <2>1. /\ reason \in {"tooLarge", "noAgent"} /\ promise' = [promise EXCEPT ![r] = reason]
        /\ count' = [count EXCEPT !.total = @ + 1, ![reason] = @ + 1]
    BY <1>1, <1>5, Zenon
  <2>2. /\ promise' \in [Singles -> PromiseIs] /\ IsFiniteSet(Buffered')
        /\ Cardinality(Buffered') = Cardinality(Buffered)
    <3>1. reason \in PromiseIs /\ reason # "buffered"
      BY Zenon DEF PromiseIs
    <3> HIDE DEF reason
    <3> QED
      BY <1>1, <2>1, <3>1, PromiseSets, Zenon
  <2>3. /\ count' \in Counters
        /\ count'.total = count.total + 1 /\ count'.tooLarge = count.tooLarge + b
        /\ count'.noAgent = count.noAgent + c /\ count'.failed = count.failed + 0
    <3>1. count.failed \in Nat /\ count \in Counters
      BY CountFields, Zenon DEF CountInv
    <3>2. Bumped(count, count', 1, b, c)
      <4>1. CASE r \in TooLarge
        <5>1. reason = "tooLarge" /\ b = 1 /\ c = 0
          BY <4>1, Zenon
        <5> HIDE DEF reason, b, c
        <5> QED
          BY <2>1, <3>1, <5>1, BumpsTwo, Zenon
      <4>2. CASE r \notin TooLarge
        <5>1. reason = "noAgent" /\ b = 0 /\ c = 1
          BY <4>2, Zenon
        <5> HIDE DEF reason, b, c
        <5> QED
          BY <2>1, <3>1, <5>1, BumpsTwo, Zenon
      <4> QED
        BY <4>1, <4>2, Zenon
    <3> QED
      BY <3>1, <3>2 DEF Bumped
  <2>4. b \in Nat /\ c \in Nat /\ (c > 0 => nudged')
    BY <1>2, <1>5
  <2>5. Cardinality(Buffered') = Cardinality(Buffered) + 1 - b - c - 0 - 0
    BY <1>3, <2>2
  <2> HIDE DEF b, c
  <2> QED
    BY <1>1, <1>2, <1>3, <2>2, <2>3, <2>4, <2>5, PromiseCounts, Zenon
<1> QED
  BY <1>4, <1>5, Zenon

\* The promise is called once.
LEMMA PromiseDoneCount ==
  ASSUME StageInv, CountInv, NEW r \in Singles, NEW o \in Outcomes, promiseDone(r, o)
  PROVE  CountInv'
<1> DEFINE f == IF o = "ok" THEN 0 ELSE 1
           k == IF o = "ok" THEN 1 ELSE 0
<1>1. /\ UNCHANGED callVars /\ nudged' = nudged /\ promise[r] = "buffered"
      /\ promise' = [promise EXCEPT ![r] = o] /\ settle(1, o)
  BY Zenon DEF promiseDone
<1>2. /\ count' \in Counters
      /\ count'.total = count.total + 0 /\ count'.tooLarge = count.tooLarge + 0
      /\ count'.noAgent = count.noAgent + 0 /\ count'.failed = count.failed + f
      /\ acked' = acked + k
  BY <1>1 DEF CountInv, Counters, settle
<1>3. o \in PromiseIs /\ o # "buffered"
  BY Zenon DEF PromiseIs, Outcomes
<1>4. /\ promise' \in [Singles -> PromiseIs] /\ IsFiniteSet(Buffered')
      /\ Cardinality(Buffered') = Cardinality(Buffered) - 1
  BY <1>1, <1>3, PromiseSets, Zenon
<1>5. Cardinality(Buffered') = Cardinality(Buffered) + 0 - 0 - 0 - f - k
  BY <1>4, CountFields
<1>6. f \in Nat /\ k \in Nat
  BY Zenon
<1> HIDE DEF f, k
<1>7. nudged' \in BOOLEAN /\ (nudged => nudged')
  BY <1>1, Zenon DEF CountInv
<1> QED
  BY <1>1, <1>2, <1>4, <1>5, <1>6, <1>7, PromiseCounts

\* No step breaks the counters.
LEMMA CountStep == StageInv /\ CountInv /\ [Next]_vars => CountInv'
<1> SUFFICES ASSUME StageInv, CountInv, [Next]_vars PROVE CountInv'
  BY Zenon
<1>1. StageInv'
  BY StageStep, Zenon
<1>2. CASE UNCHANGED vars
  BY <1>1, <1>2, QuietCount, Zenon
<1>3. CASE CallStep
  BY <1>1, <1>3, StartCount, RejectCount, QuietCount, Zenon DEF CallStep
<1>4. CASE \E in \in Inputs : ProduceSync(in)
  BY <1>1, <1>4, StartCount, Zenon
<1>5. CASE \E p \in Parts, e \in Outcomes : done(p, e)
  BY <1>1, <1>5, DoneCount, Zenon
<1>6. CASE \E r \in Singles, a \in BOOLEAN : Produce(r, a)
  BY <1>6, ProduceCount, Zenon
<1>7. CASE \E r \in Singles, e \in Outcomes : promiseDone(r, e)
  BY <1>7, PromiseDoneCount, Zenon
<1> QED
  BY <1>2, <1>3, <1>4, <1>5, <1>6, <1>7, Zenon DEF Next

-----------------------------------------------------------------------------
\* Before the first call nothing is submitted.
LEMMA InitIInv == Init => IInv
<1> SUFFICES ASSUME Init PROVE IInv
  BY Zenon
<1>1. /\ pc = "idle" /\ input = << >> /\ results = << >> /\ wg = 0 /\ routed = {}
      /\ rejected = {} /\ inflight = {} /\ nudged = FALSE /\ acked = 0
      /\ promise = [r \in Singles |-> "none"]
      /\ count = [total |-> 0, tooLarge |-> 0, noAgent |-> 0, failed |-> 0]
  BY Zenon DEF Init
<1>2. input \in Seq(Records) /\ DOMAIN input = {} /\ DOMAIN results = {}
  BY <1>1
<1>3. OkAt(input) = {} /\ PartsAt(input) = {}
  BY <1>2, Zenon DEF OkAt, PartsAt
<1>4. waiting = {}
  BY <1>1, Zenon DEF waiting
<1>5. StageInv
  BY <1>1, <1>2, <1>3, <1>4, AtEmpty, Zenon DEF StageInv
<1>6. AnswerInv
  BY <1>1, <1>2, <1>3, Zenon DEF AnswerInv
<1>7. Buffered = {}
  BY <1>1, Zenon DEF Buffered
<1>8. IsFiniteSet(Buffered) /\ Cardinality(Buffered) = 0
  BY <1>7, FS_EmptySet, Zenon
<1>9. RecordsAccountedFor
  <2>1. Sum
    BY <1>1, <1>8 DEF Sum, unanswered
  <2> QED
    BY <2>1, SumIs, Zenon
<1>10. count \in Counters /\ promise \in [Singles -> {"none", "buffered", "tooLarge", "noAgent"} \cup Outcomes]
  BY <1>1, Zenon DEF Counters
<1>11. CountInv
  BY <1>1, <1>8, <1>9, <1>10, Zenon DEF CountInv
<1> QED
  BY <1>5, <1>6, <1>11, Zenon DEF IInv

\* The inductive invariant holds in every reachable state.
THEOREM ProduceInvariant == Spec => []IInv
<1>1. IInv /\ [Next]_vars => IInv'
  BY StageStep, AnswerStep, CountStep, Zenon DEF IInv
<1> QED
  BY <1>1, InitIInv, PTL DEF Spec

\* The WaitGroup of ProduceSync never goes below zero (it would panic), whatever
\* mix of repeated, too large, rejected and routed records a call has.
THEOREM WaitGroupNeverNegative == Spec => [](wg >= 0)
<1>1. IInv => wg >= 0
  <2> SUFFICES ASSUME IInv PROVE wg >= 0
    BY Zenon
  <2>1. wg \in Nat
    BY UnansweredNat, Zenon DEF IInv
  <2> QED
    BY <2>1
<1> QED
  BY <1>1, ProduceInvariant, PTL

\* A ProduceSync that returns has answered every position, those of repeated
\* records too, with its record and what its partition was told, has called the
\* unbuffered hook with the same, and has nothing in flight.
THEOREM EveryPositionAnsweredHolds == Spec => []EveryPositionAnswered
<1>1. IInv => EveryPositionAnswered
  <2> SUFFICES ASSUME IInv, pc = "idle"
               PROVE  /\ inflight = {}
                      /\ \A i \in Positions :
                           LET err == IF input[i] \in TooLarge THEN "tooLarge"
                                      ELSE verdict[PartOf[input[i]]]
                           IN  /\ err # "none" /\ results[i] = [rec |-> input[i], err |-> err]
                               /\ fired[i] = err
    BY Zenon DEF EveryPositionAnswered
  <2>1. inflight = {} /\ waiting = {}
    BY Zenon DEF IInv, StageInv, waiting
  <2>2. ASSUME NEW i \in DOMAIN input
        PROVE  LET err == IF input[i] \in TooLarge THEN "tooLarge"
                          ELSE verdict[PartOf[input[i]]]
               IN  /\ err # "none" /\ results[i] = [rec |-> input[i], err |-> err]
                   /\ fired[i] = err
    <3>1. fired[i] = results[i].err
      BY <2>2, Zenon DEF IInv, AnswerInv
    <3>2. CASE input[i] \in TooLarge
      <4>1. i \in DOMAIN input \ OkAt(input)
        BY <2>2, <3>2, Zenon DEF OkAt
      <4>2. results[i] = [rec |-> input[i], err |-> "tooLarge"]
        BY <4>1, Zenon DEF IInv, AnswerInv, Answer
      <4> QED
        BY <3>1, <3>2, <4>2
    <3>3. CASE input[i] \notin TooLarge
      <4>1. i \in OkAt(input) /\ PartOf[input[i]] \in PartsAt(input)
        BY <2>2, <3>3, Zenon DEF OkAt, PartsAt
      <4>2. results[i] = [rec |-> input[i], err |-> verdict[PartOf[input[i]]]]
        BY <2>1, <4>1, Zenon DEF IInv, AnswerInv, Answer
      <4>3. verdict[PartOf[input[i]]] # "none"
        BY <2>1, <4>1, Zenon DEF IInv, AnswerInv
      <4> QED
        BY <3>1, <3>3, <4>2, <4>3
    <3> QED
      BY <3>2, <3>3, Zenon
  <2> QED
    BY <2>1, <2>2, Zenon DEF Positions
<1> QED
  BY <1>1, ProduceInvariant, PTL

\* The counters account for every record submitted, once, and a record is counted
\* as rejected for want of an agent only after a refresh was asked for.
THEOREM RecordsAccountedForHolds == Spec => []RecordsAccountedFor
<1>1. IInv => RecordsAccountedFor
  BY Zenon DEF IInv, CountInv
<1> QED
  BY <1>1, ProduceInvariant, PTL

-----------------------------------------------------------------------------
(***************************************************************************)
(* The metadata refresh (RefreshLoop).                                     *)
(*                                                                         *)
(* The pace is kept by a sum: while the goroutine sleeps, the time since   *)
(* the last on-demand fetch and the rest of the sleep together make the    *)
(* delay that fetch started with, and while the fetch is on its duration   *)
(* bounds that time from below.                                            *)
(***************************************************************************)

Types ==
  /\ loop \in {"select", "periodic", "onDemand", "cooldown", "exited"}
  /\ closed \in {"no", "canceled", "done"}
  /\ delay \in 1..MetadataRefreshInterval
  /\ elapsed \in Nat
  /\ remaining \in Nat
  /\ gap \in 0..MetadataRefreshInterval
  /\ minGap \in 0..MetadataRefreshInterval
  /\ late \in Nat

\* Where the time since the last on-demand fetch stands against its delay.
PaceInv ==
  /\ loop \in {"select", "periodic"} => gap >= minGap
  /\ loop = "onDemand" =>
       /\ minGap = delay
       /\ gap >= elapsed \/ gap = MetadataRefreshInterval
  /\ loop = "cooldown" => gap + remaining >= minGap

\* A fetch on the ticker is one nobody asked for.
NudgeInv ==
  /\ OwedIsQueued
  /\ loop = "periodic" => ~asked

\* The goroutine can start a fetch after Close only from a select it was in.
CloseInv ==
  /\ closed = "no" => late = 0 /\ ~busy /\ loop # "exited"
  /\ busy => loop # "select" /\ late = 0
  /\ loop = "select" => late = 0
  /\ late <= 1

LoopInv == Types /\ PaceInv /\ NudgeInv /\ CloseInv

-----------------------------------------------------------------------------
\* A value that fits is not changed by the arithmetic of time.Duration.
LEMMA Fits ==
  ASSUME NEW d \in 0..MaxDuration
  PROVE  Duration(d) = d
<1> DEFINE M == MaxDuration + 1
<1>1. M \in Nat /\ M > 0 /\ d + M \in Nat /\ d + M < 2 * M
  BY RefreshAssumption
<1>2. (d + M) % (2 * M) = d + M
  <2> HIDE DEF M
  <2>1. ASSUME NEW a \in Nat, NEW m \in Nat, a < m PROVE a % m = a
    BY <2>1
  <2> QED
    BY <1>1, <2>1
<1> QED
  BY <1>1, <1>2, RefreshAssumption DEF Duration

\* refreshBackoff.advance doubles up to the ceiling: the delay does not shrink,
\* and the product never wraps around.
LEMMA AdvanceGrows ==
  ASSUME NEW d \in 1..MetadataRefreshInterval
  PROVE  advance(d) \in d..MetadataRefreshInterval
<1>1. CASE d > MetadataRefreshInterval \div 2
  BY <1>1, RefreshAssumption DEF advance
<1>2. CASE ~(d > MetadataRefreshInterval \div 2)
  <2>1. d * 2 \in d..MetadataRefreshInterval
    BY <1>2, RefreshAssumption
  <2>2. Duration(d * 2) = d * 2
    BY <2>1, Fits, RefreshAssumption
  <2> QED
    BY <1>2, <2>1, <2>2 DEF advance
<1> QED
  BY <1>1, <1>2

-----------------------------------------------------------------------------
(***************************************************************************)
(* The inductive invariant, part by part.                                  *)
(***************************************************************************)
\* Every step keeps the types.
LEMMA TypesStep ==
  ASSUME Types, RNext
  PROVE  Types'
<1> USE RefreshAssumption DEF Types
<1>1. CASE triggerRefresh
  BY <1>1 DEF triggerRefresh, loopVars
<1>2. CASE selectDone \/ selectPeriodic \/ selectNudge
  BY <1>2 DEF selectDone, selectPeriodic, selectNudge, StartFetch, histVars
<1>3. CASE periodicDone \/ onDemandDone
  BY <1>3 DEF periodicDone, onDemandDone, FetchNudges
<1>4. CASE cooldownDone
  <2>1. advance(delay) \in 1..MetadataRefreshInterval
    BY AdvanceGrows
  <2> QED
    BY <1>4, <2>1 DEF cooldownDone, histVars
<1>5. CASE refreshCancel \/ refreshWait
  BY <1>5 DEF refreshCancel, refreshWait, loopVars, histVars
<1>6. CASE clock
  BY <1>6 DEF clock
<1> QED
  BY <1>1, <1>2, <1>3, <1>4, <1>5, <1>6 DEF RNext, Loop

\* Only selectNudge starts a count, and time moves it on by as much as it takes
\* off the cooldown or adds to the fetch.
LEMMA PaceStep ==
  ASSUME Types, PaceInv, CloseInv, RNext
  PROVE  PaceInv'
<1> USE RefreshAssumption DEF Types, PaceInv
<1>1. CASE triggerRefresh
  BY <1>1 DEF triggerRefresh, loopVars
<1>2. CASE selectDone \/ selectPeriodic \/ selectNudge
  BY <1>2 DEF selectDone, selectPeriodic, selectNudge, StartFetch, histVars
<1>3. CASE periodicDone
  BY <1>3 DEF periodicDone
<1>4. CASE onDemandDone
  BY <1>4 DEF onDemandDone
<1>5. CASE cooldownDone
  BY <1>5 DEF cooldownDone, histVars
<1>6. CASE refreshCancel \/ refreshWait
  BY <1>6 DEF refreshCancel, refreshWait, loopVars, histVars
<1>7. CASE clock
  BY <1>7 DEF clock, Fetching
<1> QED
  BY <1>1, <1>2, <1>3, <1>4, <1>5, <1>6, <1>7, SMTT(30) DEF RNext, Loop

\* Every step that owes a refresh nudges, and the nudge goes only with a fetch.
LEMMA NudgeStep ==
  ASSUME Types, NudgeInv, RNext
  PROVE  NudgeInv'
<1> USE DEF Types, NudgeInv, OwedIsQueued
<1>1. CASE triggerRefresh
  BY <1>1 DEF triggerRefresh, loopVars
<1>2. CASE selectDone \/ selectPeriodic \/ selectNudge
  BY <1>2 DEF selectDone, selectPeriodic, selectNudge, StartFetch, histVars
<1>3. CASE periodicDone \/ onDemandDone
  BY <1>3 DEF periodicDone, onDemandDone, FetchNudges
<1>4. CASE cooldownDone
  BY <1>4 DEF cooldownDone, histVars
<1>5. CASE refreshCancel \/ refreshWait
  BY <1>5 DEF refreshCancel, refreshWait, loopVars, histVars
<1>6. CASE clock
  BY <1>6 DEF clock
<1> QED
  BY <1>1, <1>2, <1>3, <1>4, <1>5, <1>6 DEF RNext, Loop

\* After Close every fetch that returns ends the goroutine.
LEMMA CloseStep ==
  ASSUME Types, CloseInv, RNext
  PROVE  CloseInv'
<1> USE DEF Types, CloseInv
<1>1. CASE triggerRefresh
  BY <1>1 DEF triggerRefresh, loopVars
<1>2. CASE selectDone \/ selectPeriodic \/ selectNudge
  BY <1>2 DEF selectDone, selectPeriodic, selectNudge, StartFetch, histVars
<1>3. CASE periodicDone \/ onDemandDone
  BY <1>3 DEF periodicDone, onDemandDone
<1>4. CASE cooldownDone
  BY <1>4 DEF cooldownDone, histVars
<1>5. CASE refreshCancel
  <2>1. closed = "no" /\ closed' = "canceled" /\ loop' = loop /\ late' = late
    BY <1>5 DEF refreshCancel, loopVars
  <2>2. busy' => loop # "select"
    BY <1>5, Zenon DEF refreshCancel
  <2> QED
    BY <2>1, <2>2
<1>6. CASE refreshWait
  BY <1>6 DEF refreshWait, loopVars, histVars
<1>7. CASE clock
  BY <1>7 DEF clock
<1> QED
  BY <1>1, <1>2, <1>3, <1>4, <1>5, <1>6, <1>7 DEF RNext, Loop

\* The delays, the channel and the count of late fetches are consistent in every
\* state of the refresh goroutine.
THEOREM RefreshInvariant == RSpec => []LoopInv
<1>1. RInit => LoopInv
  BY RefreshAssumption DEF RInit, LoopInv, Types, PaceInv, NudgeInv, CloseInv, OwedIsQueued
<1>2. LoopInv /\ [RNext]_rvars => LoopInv'
  <2> SUFFICES ASSUME LoopInv, [RNext]_rvars PROVE LoopInv'
    OBVIOUS
  <2>1. CASE RNext
    BY <2>1, TypesStep, PaceStep, NudgeStep, CloseStep DEF LoopInv
  <2>2. CASE UNCHANGED rvars
    BY <2>2 DEF rvars, loopVars, histVars, LoopInv, Types, PaceInv, NudgeInv, CloseInv, OwedIsQueued
  <2> QED
    BY <2>1, <2>2
<1> QED
  BY <1>1, <1>2, PTL DEF RSpec

-----------------------------------------------------------------------------
\* However often the produce path calls triggerRefresh, an on-demand fetch starts
\* no sooner after the previous one than the backoff's delay then was, and the
\* delay shrinks only after a fetch nobody asked for (client.go, the refresh loop
\* and refreshBackoff), for any intervals.
THEOREM OnDemandPacedHolds == RSpec => OnDemandPaced
<1> DEFINE A == /\ loop = "select" /\ loop' = "onDemand" => gap >= minGap
                /\ delay' < delay => ~asked
<1>1. LoopInv /\ [RNext]_rvars => [A]_rvars
  <2> SUFFICES ASSUME LoopInv, RNext PROVE A
    OBVIOUS
  <2>1. loop = "select" => gap >= minGap
    BY DEF LoopInv, PaceInv
  <2>2. ASSUME delay' < delay PROVE ~asked
    <3>1. delay \in Nat
      BY RefreshAssumption DEF LoopInv, Types
    <3>2. delay' # delay
      BY <2>2, <3>1
    <3>3. periodicDone \/ (cooldownDone /\ delay' = advance(delay))
      <4>1. periodicDone \/ cooldownDone
        BY <3>2 DEF RNext, Loop, triggerRefresh, selectDone, selectPeriodic, selectNudge,
           onDemandDone, refreshCancel, refreshWait, clock, loopVars
      <4> QED
        BY <3>2, <4>1, SMTT(30) DEF cooldownDone
    <3>4. advance(delay) \in delay..MetadataRefreshInterval
      BY AdvanceGrows DEF LoopInv, Types
    <3>5. periodicDone
      BY <2>2, <3>1, <3>3, <3>4, RefreshAssumption
    <3> QED
      BY <3>5 DEF periodicDone, LoopInv, NudgeInv
  <2> QED
    BY <2>1, <2>2
<1> QED
  BY <1>1, RefreshInvariant, PTL DEF RSpec, OnDemandPaced

\* A nudge that finds the channel full loses nothing: whatever is owed is still
\* in the channel (triggerRefresh, noteLeaderDrops).
THEOREM OwedIsQueuedHolds == RSpec => []OwedIsQueued
<1>1. LoopInv => OwedIsQueued
  BY DEF LoopInv, NudgeInv
<1> QED
  BY <1>1, RefreshInvariant, PTL

\* Close is followed by no fetch when it came during a fetch or its cooldown, and
\* by one at most otherwise (Close, refreshCancel).
THEOREM FewLateFetchesHolds == RSpec => []FewLateFetches
<1>1. LoopInv => FewLateFetches
  BY DEF LoopInv, Types, CloseInv, FewLateFetches
<1> QED
  BY <1>1, RefreshInvariant, PTL
=============================================================================
