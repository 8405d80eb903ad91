--------------------------- MODULE HedgerProofs ---------------------------
(***************************************************************************)
(* Proofs about the Hedger.                                                *)
(*                                                                         *)
(* HedgeCall: what one call of Hedger.ProduceSync reports, how often it    *)
(* sends a partition, and the cause it books a failure under, for any      *)
(* partitions, candidate lists and cap.                                    *)
(*                                                                         *)
(* HealthGates: what the gates before it let through, for any agents,      *)
(* snapshots and configured ratios.                                        *)
(*                                                                         *)
(* The argument about a call follows the data: an answer becomes an        *)
(* outcome of the accumulator, the accumulator a response, and the two     *)
(* responses the one that is returned.                                     *)
(***************************************************************************)
EXTENDS HedgeCall, HealthGates, FiniteSetTheorems, WellFoundedInduction, TLAPS

-----------------------------------------------------------------------------
(***************************************************************************)
(* Results, answers and the accumulator.                                   *)
(***************************************************************************)

\* A result's fields.
LEMMA ResultFields ==
  ASSUME NEW res \in Results
  PROVE  /\ res.has \in BOOLEAN /\ res.err \subseteq Errors
         /\ DOMAIN res.codes \subseteq Parts
         /\ \A p \in DOMAIN res.codes : res.codes[p] \in Codes
         /\ BadParts(res.codes) \subseteq Parts
BY DEF Results, Responses, BadParts

\* A result is built from its fields.
LEMMA MakeResult ==
  ASSUME NEW P \in SUBSET Parts, NEW codes \in [P -> Codes], NEW err \in SUBSET Errors,
         NEW has \in BOOLEAN
  PROVE  [has |-> has, codes |-> codes, err |-> err] \in Results
BY DEF Results, Responses

\* ProduceResult.error() is nil exactly for a response without a bad code.
LEMMA SucceededIff ==
  ASSUME NEW res \in Results
  PROVE  succeeded(res) <=> res.err = {} /\ res.has /\ BadParts(res.codes) = {}
<1>1. BadParts(res.codes) \cap Parts = BadParts(res.codes)
  BY ResultFields
<1>2. CASE res.err # {}
  BY <1>2 DEF succeeded, resultErrors, scopedErrors
<1>3. CASE res.err = {} /\ ~res.has
  BY <1>3 DEF succeeded, resultErrors, scopedErrors
<1>4. CASE res.err = {} /\ res.has /\ BadParts(res.codes) = {}
  BY <1>1, <1>4 DEF succeeded, resultErrors, scopedErrors
<1>5. CASE res.err = {} /\ res.has /\ BadParts(res.codes) # {}
  <2>1. resultErrors(res) = {{res.codes[p]} : p \in BadParts(res.codes)}
    BY <1>1, <1>5 DEF resultErrors, scopedErrors
  <2>2. PICK p \in BadParts(res.codes) : TRUE
    BY <1>5
  <2>3. {res.codes[p]} \in resultErrors(res)
    BY <2>1, <2>2
  <2> QED
    BY <1>5, <2>3 DEF succeeded
<1> QED
  BY <1>2, <1>3, <1>4, <1>5, ResultFields

\* What an attempt for P comes back with is a result about partitions of P only.
LEMMA AnswersAreResults ==
  ASSUME NEW P \in SUBSET Parts, ctx \in {"live", "canceled", "deadline"},
         NEW res \in Answers(P)
  PROVE  res \in Results /\ DOMAIN res.codes \subseteq P
<1>1. ASSUME NEW Q \in SUBSET P, NEW codes \in [Q -> Codes], res = RespResult(codes)
      PROVE  res \in Results /\ DOMAIN res.codes \subseteq P
  BY <1>1, MakeResult, Zenon DEF RespResult
<1>2. ASSUME NEW e \in Errors, res = ErrResult({e})
      PROVE  res \in Results /\ DOMAIN res.codes \subseteq P
  <2>1. NoResponse \in [{} -> Codes] /\ {e} \in SUBSET Errors
    BY DEF NoResponse, Codes
  <2> QED
    BY <1>2, <2>1, MakeResult, Zenon DEF ErrResult
<1> QED
  BY <1>1, <1>2 DEF Answers, Errors, ctxErr

\* A leg whose scoped error is nil was answered with a response without any bad
\* code, so all it reports is acknowledged.
LEMMA CleanLeg ==
  ASSUME NEW P \in SUBSET Parts, ctx \in {"live", "canceled", "deadline"},
         NEW res \in Answers(P), {} \in scopedErrors(res, P)
  PROVE  res.err = {} /\ res.has /\ BadParts(res.codes) = {} /\ Acked(res) = DOMAIN res.codes
<1>1. res \in Results /\ DOMAIN res.codes \subseteq P
  BY AnswersAreResults
<1>2. BadParts(res.codes) \cap P = BadParts(res.codes)
  BY <1>1 DEF BadParts
<1>3. res.err = {} /\ res.has /\ BadParts(res.codes) = {}
  BY <1>2 DEF scopedErrors
<1> QED
  BY <1>1, <1>3, SucceededIff DEF Acked

\* An error a leg may report.
LEMMA LegErrors ==
  ASSUME NEW P \in SUBSET Parts, NEW res \in Results, NEW err \in scopedErrors(res, P)
  PROVE  err \subseteq Errors
<1>1. \A p \in BadParts(res.codes) : res.codes[p] \in {"retriable", "fatal"}
  BY ResultFields DEF BadParts, Codes
<1> QED
  BY <1>1, ResultFields DEF scopedErrors, Errors

\* A leg with an error resolves nothing.
LEMMA AccumulateKeeps ==
  ASSUME NEW a \in Accumulators, NEW res, NEW P, NEW err, err # {}
  PROVE  /\ accumulate(a, res, P, err).pending = a.pending
         /\ accumulate(a, res, P, err).resolved = a.resolved
<1> DEFINE F == [p \in Parts |-> IF p \in BadParts(res.codes) \cap P \cap a.pending
                                 THEN res.codes[p] ELSE a.failed[p]]
           B == a.aborted \/ ~retriable(err)
<1>1. accumulate(a, res, P, err) = [a EXCEPT !.lastErr = err, !.aborted = B, !.failed = F]
  BY DEF accumulate, accumulateError, Accumulators
<1> HIDE DEF F, B
<1> QED
  BY <1>1 DEF Accumulators

\* A leg without error resolves its own partitions of the response.
LEMMA AccumulateResolves ==
  ASSUME NEW a \in Accumulators, NEW res, NEW P
  PROVE  /\ accumulate(a, res, P, {}).pending = a.pending \ (P \cap DOMAIN res.codes)
         /\ accumulate(a, res, P, {}).resolved = a.resolved \cup (P \cap DOMAIN res.codes)
<1> DEFINE R == P \cap DOMAIN res.codes
           F == [p \in Parts |-> IF p \in R THEN "none" ELSE a.failed[p]]
<1>1. accumulate(a, res, P, {}) =
        [a EXCEPT !.pending = a.pending \ R, !.resolved = a.resolved \cup R, !.failed = F]
  BY DEF accumulate, accumulateSuccess, Accumulators
<1> HIDE DEF F, R
<1>2. accumulate(a, res, P, {}) =
        [pending |-> a.pending \ R, resolved |-> a.resolved \cup R, failed |-> F,
         lastErr |-> a.lastErr, aborted |-> a.aborted]
  BY <1>1, Zenon DEF Accumulators
<1> QED
  BY <1>2 DEF R

\* Either way it is an accumulator again.
LEMMA AccumulateType ==
  ASSUME NEW a \in Accumulators, NEW res \in Results, NEW P \in SUBSET Parts,
         NEW err \in SUBSET Errors
  PROVE  accumulate(a, res, P, err) \in Accumulators
<1>1. CASE err # {}
  <2> DEFINE F == [p \in Parts |-> IF p \in BadParts(res.codes) \cap P \cap a.pending
                                   THEN res.codes[p] ELSE a.failed[p]]
             B == a.aborted \/ ~retriable(err)
  <2>1. F \in [Parts -> {"none", "retriable", "fatal"}]
    BY ResultFields DEF Accumulators, BadParts, Codes
  <2>2. B \in BOOLEAN
    BY DEF retriable, Accumulators
  <2>3. accumulate(a, res, P, err) = [a EXCEPT !.lastErr = err, !.aborted = B, !.failed = F]
    BY <1>1 DEF accumulate, accumulateError, Accumulators
  <2> HIDE DEF F, B
  <2> QED
    BY <2>1, <2>2, <2>3, Zenon DEF Accumulators
<1>2. CASE err = {}
  <2> DEFINE R == P \cap DOMAIN res.codes
             F == [p \in Parts |-> IF p \in R THEN "none" ELSE a.failed[p]]
  <2>1. F \in [Parts -> {"none", "retriable", "fatal"}] /\ R \subseteq Parts
    BY DEF Accumulators
  <2>2. accumulate(a, res, P, err) =
          [a EXCEPT !.pending = a.pending \ R, !.resolved = a.resolved \cup R, !.failed = F]
    BY <1>2 DEF accumulate, accumulateSuccess, Accumulators
  <2> HIDE DEF F, R
  <2>3. accumulate(a, res, P, err) =
          [pending |-> a.pending \ R, resolved |-> a.resolved \cup R, failed |-> F,
           lastErr |-> a.lastErr, aborted |-> a.aborted]
    BY <2>2, Zenon DEF Accumulators
  <2> QED
    BY <2>1, <2>3 DEF Accumulators
<1> QED
  BY <1>1, <1>2

\* The accumulator's response reports on every partition, and "ok" for exactly the
\* resolved ones.
LEMMA ResponseFields ==
  ASSUME NEW a \in Accumulators, a.pending \cup a.resolved = Parts
  PROVE  /\ accResponse(a) \in [Parts -> Codes]
         /\ BadParts(accResponse(a)) = Parts \ a.resolved
<1>1. \A p \in Parts : /\ accResponse(a)[p] \in Codes
                       /\ accResponse(a)[p] = "ok" <=> p \in a.resolved
  BY DEF accResponse, Accumulators, syntheticCode, Codes
<1>2. accResponse(a) \in [Parts -> Codes]
  BY <1>1, Zenon DEF accResponse
<1> QED
  BY <1>1, <1>2 DEF BadParts

\* What the cascade makes of the accumulator when it ends.
LEMMA CascadeResult ==
  ASSUME NEW a \in Accumulators, a.pending \cup a.resolved = Parts,
         ctx \in {"live", "canceled", "deadline"}, NEW s, cascadeEnds(a, s)
  PROVE  /\ fbRes' \in Results /\ fbRes'.has /\ fbRes'.codes = accResponse(a)
         /\ ctx = "live" /\ a.pending = {} => succeeded(fbRes')
<1>1. accResponse(a) \in [Parts -> Codes] /\ BadParts(accResponse(a)) = Parts \ a.resolved
  BY ResponseFields
<1>2. ctxErr \subseteq Errors /\ (ctx = "live" => ctxErr = {})
  BY DEF ctxErr, Errors
<1> DEFINE E == IF a.pending = {} THEN {} ELSE {"recordTimeout"} \cup a.lastErr
<1>3. E \subseteq Errors
  BY DEF Accumulators, Errors
<1>4. fbRes' = [has |-> TRUE, codes |-> accResponse(a), err |-> IF ctxErr = {} THEN E ELSE ctxErr]
  BY Zenon DEF cascadeEnds, accResult
<1>5. fbRes' \in Results
  BY <1>1, <1>2, <1>3, <1>4, MakeResult, Zenon
<1> QED
  BY <1>1, <1>2, <1>4, <1>5, SucceededIff

\* selectProduceResult: the primary's success; else the fallback's response, which is
\* a success exactly when the fallback was one.
LEMMA SelectFields ==
  ASSUME NEW primary \in Results, NEW fallback \in Results, fallback.has
  PROVE  LET res == selectProduceResult(primary, fallback)
         IN  /\ res \in Results
             /\ succeeded(primary) => res = primary
             /\ ~succeeded(primary) => /\ res.has /\ res.codes = fallback.codes
                                       /\ succeeded(fallback) => succeeded(res)
<1>1. CASE succeeded(primary)
  BY <1>1 DEF selectProduceResult
<1>2. CASE ~succeeded(primary) /\ (fallback.err = {} \/ primary.err = {})
  BY <1>2 DEF selectProduceResult
<1>3. CASE ~succeeded(primary) /\ fallback.err # {} /\ primary.err # {}
  <2>1. selectProduceResult(primary, fallback) =
          [has |-> fallback.has, codes |-> fallback.codes, err |-> primary.err \cup fallback.err]
    BY <1>3 DEF selectProduceResult
  <2>2. primary.err \cup fallback.err \in SUBSET Errors
    BY ResultFields
  <2>3. selectProduceResult(primary, fallback) \in Results
    BY <2>1, <2>2 DEF Results
  <2> QED
    BY <1>3, <2>1, <2>3, SucceededIff
<1> QED
  BY <1>1, <1>2, <1>3

-----------------------------------------------------------------------------
(***************************************************************************)
(* The inductive invariant.                                                *)
(***************************************************************************)
\* The cascade is not over.
Open == {"off", "loop", "collect"}

\* Every partition is pending or resolved, and a resolved one was acknowledged.
AccountsForParts ==
  /\ acc.pending \cup acc.resolved = Parts
  /\ acc.resolved \subseteq stored

\* While the cascade goes on there is something left to do.
OpenIsPending == casc \in Open => acc.pending # {} /\ ~acc.aborted

\* Before the cascade is started nothing of it has run.
CascadeStarts ==
  /\ pc = "start" => casc = "off" /\ attempts = 1
  /\ pc \in {"wait", "armed"} => casc = "off"

\* A primary that succeeded has stored everything, and after it failed the call
\* waits for the cascade alone.
PrimaryIsKnown ==
  /\ prim = "ready" /\ succeeded(primRes) => Parts \subseteq stored
  /\ pc = "cascade" => prim = "ready" /\ ~succeeded(primRes)

\* The cascade's result is the accumulator's response, and after it failed the call
\* waits for the primary alone.
FallbackIsKnown ==
  /\ casc \in {"ended", "done"} => fbRes.has /\ fbRes.codes = accResponse(acc)
  /\ pc = "awaitPrimary" => casc = "done" /\ ~succeeded(fbRes)

\* Why the cascade ended: it ran out of candidates, it was aborted, the context is
\* done, or it succeeded; and once classified, the stop names what happened.
StopIsKnown ==
  /\ ctx = "deadline" => due
  /\ casc = "ended" =>
       /\ fbStop = "none" \/ exhausted(fbStop)
       /\ fbStop = "none" => acc.aborted \/ ctx # "live" \/ succeeded(fbRes)
  /\ casc = "done" =>
       /\ fbStop = "none" => succeeded(fbRes)
       /\ fbStop = "canceled" => ctx = "canceled"
       /\ fbStop = "writeTimeout" => due
       /\ fbStop = "terminalError" => acc.aborted

\* tried holds what sent lists and nothing else; a partition that is pending went out
\* with every wave.
SentIsTried ==
  /\ \E p \in Parts : pc # "start" => Len(sent[p]) = attempts
  /\ \A p \in Parts :
       IF pc = "start" THEN sent[p] = << >> /\ tried[p] = {Primary}
       ELSE /\ \A j \in 1..Len(sent[p]) : sent[p][j] \in tried[p]
            /\ IsFiniteSet(tried[p]) /\ Cardinality(tried[p]) = Len(sent[p])
            /\ \A j, k \in 1..Len(sent[p]) : sent[p][j] = sent[p][k] => j = k
            /\ Len(sent[p]) <= attempts /\ Len(sent[p]) <= MaxHedgeAgents
            /\ p \in acc.pending /\ casc \in Open => Len(sent[p]) = attempts

\* What the call returned.
Reported == NoFalseAck /\ FailsOnlyWhenAllFailed /\ CauseIsRanked

IInv ==
  /\ TypeOK
  /\ AccountsForParts /\ OpenIsPending /\ CascadeStarts
  /\ PrimaryIsKnown /\ FallbackIsKnown /\ StopIsKnown
  /\ SentIsTried
  /\ Reported

-----------------------------------------------------------------------------
(***************************************************************************)
(* Every action preserves it.                                              *)
(***************************************************************************)
\* Before the call nothing has happened.
LEMMA InitIInv == Init => IInv
<1> SUFFICES ASSUME Init PROVE IInv
  OBVIOUS
<1> USE HedgeAssumption DEF Init
<1>1. NoResult \in Results
  <2>1. NoResponse \in [{} -> Codes]
    BY DEF NoResponse
  <2> QED
    BY <2>1, MakeResult, Zenon DEF NoResult, ErrResult
<1>2. newAccumulator \in Accumulators
  BY DEF newAccumulator, Accumulators
<1>3. TypeOK
  <2>1. sent \in [Parts -> Seq(Agents)] /\ tried \in [Parts -> SUBSET Agents]
    OBVIOUS
  <2>2. due \in BOOLEAN /\ win \in BOOLEAN
    BY Zenon
  <2>3. fbStop \in Stops /\ stop \in Stops
    BY DEF Stops
  <2> QED
    BY <1>1, <1>2, <2>1, <2>2, <2>3 DEF TypeOK
<1>4. AccountsForParts /\ OpenIsPending
  BY DEF AccountsForParts, OpenIsPending, newAccumulator
<1>5. CascadeStarts /\ PrimaryIsKnown /\ FallbackIsKnown /\ StopIsKnown /\ SentIsTried
  BY DEF CascadeStarts, PrimaryIsKnown, FallbackIsKnown, StopIsKnown, SentIsTried
<1>6. Reported
  BY DEF Reported, Returned, NoFalseAck, FailsOnlyWhenAllFailed, CauseIsRanked
<1> QED
  BY <1>3, <1>4, <1>5, <1>6 DEF IInv

\* A step that does not return reports nothing.
LEMMA NotReturned == pc' # "returned" => Reported'
BY DEF Reported, Returned, NoFalseAck, FailsOnlyWhenAllFailed, CauseIsRanked

\* The context ends or its deadline is reached: no stop that was recorded is undone.
LEMMA ContextIInv ==
  ASSUME IInv, cancelCtx \/ deadlineReached \/ deadlineFires
  PROVE  IInv'
<1> USE DEF cancelCtx, deadlineReached, deadlineFires, callVars, primVars, cascVars
<1>1. TypeOK'
  BY ZenonT(40) DEF IInv, TypeOK
<1>2. AccountsForParts' /\ OpenIsPending' /\ CascadeStarts' /\ SentIsTried'
  BY DEF IInv, AccountsForParts, OpenIsPending, CascadeStarts, SentIsTried
<1>3. PrimaryIsKnown' /\ FallbackIsKnown'
  BY DEF IInv, PrimaryIsKnown, FallbackIsKnown
<1>4. StopIsKnown'
  BY DEF IInv, StopIsKnown
<1> QED
  BY <1>1, <1>2, <1>3, <1>4, NotReturned DEF IInv

\* The primary answers: a success is of all partitions, for the coverage check makes
\* an error of anything less.
LEMMA PrimaryReturnsIInv ==
  ASSUME IInv, pc # "returned", primaryReturns
  PROVE  IInv'
<1> USE DEF primaryReturns, callVars, cascVars
<1>1. PICK res \in Answers(Parts) : /\ primRes' = withCoverageCheck(res)
                                    /\ primErr' \in resultErrors(primRes')
                                    /\ stored' = stored \cup Acked(res)
  OBVIOUS
<1>2. res \in Results
  BY AnswersAreResults DEF IInv, TypeOK
<1>3. primRes' \in Results
  <2>1. CASE primRes' = [res EXCEPT !.err = {"incomplete"}]
    BY <1>2, <2>1 DEF Results, Errors
  <2> QED
    BY <1>1, <1>2, <2>1 DEF withCoverageCheck
<1>4. primErr' \subseteq Errors
  BY <1>1, <1>3, LegErrors, ZenonT(30) DEF resultErrors
<1>5. Acked(res) \subseteq Parts
  BY <1>2, ResultFields DEF Acked
<1>6. TypeOK'
  BY <1>1, <1>3, <1>4, <1>5, ZenonT(20) DEF IInv, TypeOK
<1>7. AccountsForParts' /\ OpenIsPending' /\ CascadeStarts' /\ SentIsTried'
  BY <1>1 DEF IInv, AccountsForParts, OpenIsPending, CascadeStarts, SentIsTried
<1>8. PrimaryIsKnown'
  <2>1. ASSUME succeeded(primRes') PROVE Parts \subseteq stored'
    <3>1. primRes'.err = {} /\ primRes'.has /\ BadParts(primRes'.codes) = {}
      BY <1>3, <2>1, SucceededIff
    <3>2. res.err = {} /\ Parts \subseteq DOMAIN res.codes /\ primRes' = res
      BY <1>1, <1>2, <3>1 DEF withCoverageCheck, Results
    <3> QED
      BY <1>1, <2>1, <3>2 DEF Acked
  <2>2. pc' # "cascade"
    BY DEF IInv, PrimaryIsKnown
  <2> QED
    BY <2>1, <2>2 DEF PrimaryIsKnown
<1>9. FallbackIsKnown' /\ StopIsKnown'
  BY DEF IInv, FallbackIsKnown, StopIsKnown
<1> QED
  BY <1>6, <1>7, <1>8, <1>9, NotReturned DEF IInv

\* The cascade leaves its loop with accumulator a, for reason s.
LEMMA EndsIInv ==
  ASSUME IInv, pc # "returned", casc \in {"loop", "collect"},
         acc' \in Accumulators, acc'.pending \cup acc'.resolved = Parts,
         stored \subseteq stored', stored' \subseteq Parts, acc'.resolved \subseteq stored',
         NEW s, s = "none" \/ exhausted(s), cascadeEnds(acc', s),
         s = "none" => acc'.aborted \/ ctx # "live" \/ acc'.pending = {},
         UNCHANGED <<cand, callVars, primVars, tried, attempts, ctx, due, sent>>
  PROVE  IInv'
<1> USE DEF callVars, primVars
<1>1. casc' = "ended" /\ fbStop' = s /\ legs' = {}
  BY DEF cascadeEnds
<1>2. /\ fbRes' \in Results /\ fbRes'.has /\ fbRes'.codes = accResponse(acc')
      /\ ctx = "live" /\ acc'.pending = {} => succeeded(fbRes')
  BY CascadeResult DEF IInv, TypeOK
<1>3. TypeOK'
  BY <1>1, <1>2, SMTT(30) DEF IInv, TypeOK, Stops, exhausted
<1>4. AccountsForParts' /\ OpenIsPending'
  BY <1>1 DEF AccountsForParts, OpenIsPending, Open
<1>5. CascadeStarts' /\ pc # "awaitPrimary"
  BY DEF IInv, CascadeStarts, FallbackIsKnown
<1>6. PrimaryIsKnown' /\ FallbackIsKnown'
  BY <1>1, <1>2, <1>5, Zenon DEF IInv, PrimaryIsKnown, FallbackIsKnown
<1>7. StopIsKnown'
  BY <1>1, <1>2 DEF IInv, StopIsKnown
<1>8. SentIsTried'
  BY <1>1 DEF IInv, SentIsTried, Open
<1> QED
  BY <1>3, <1>4, <1>5, <1>6, <1>7, <1>8, NotReturned DEF IInv

\* The loop or a wave is left because the context is done, or no candidate is left.
LEMMA LoopEndsIInv ==
  ASSUME IInv, pc # "returned", loopCtxDone \/ waveCtxDone \/ waveExhausted
  PROVE  IInv'
<1>1. /\ casc \in {"loop", "collect"} /\ acc' = acc /\ stored' = stored
      /\ UNCHANGED <<cand, callVars, primVars, tried, attempts, ctx, due, sent>>
  BY DEF loopCtxDone, waveCtxDone, waveExhausted
<1>2. \E s : /\ s = "none" \/ exhausted(s)
             /\ cascadeEnds(acc, s)
             /\ s = "none" => ctx # "live"
  BY DEF loopCtxDone, waveCtxDone, waveExhausted, exhaustionOf, exhausted
<1>3. /\ acc \in Accumulators /\ acc.pending \cup acc.resolved = Parts
      /\ stored \subseteq Parts /\ acc.resolved \subseteq stored
  BY DEF IInv, TypeOK, AccountsForParts
<1> QED
  BY <1>1, <1>2, <1>3, EndsIInv

\* The stop is classified: a terminal error, else the context, else the exhaustion;
\* "none" is left only if the cascade succeeded.
LEMMA StopsIInv ==
  ASSUME IInv, pc # "returned", cascadeStops
  PROVE  IInv'
<1> USE DEF cascadeStops, callVars, primVars
<1>1. TypeOK'
  BY DEF IInv, TypeOK, classifyProduceStop, Stops, exhausted
<1>2. AccountsForParts' /\ OpenIsPending' /\ CascadeStarts' /\ SentIsTried'
  BY DEF IInv, AccountsForParts, OpenIsPending, CascadeStarts, SentIsTried, Open
<1>3. PrimaryIsKnown' /\ FallbackIsKnown'
  BY DEF IInv, PrimaryIsKnown, FallbackIsKnown
<1>4. StopIsKnown'
  <2>1. ctxStopErr = IF ctx = "live" THEN IF due THEN {"deadline"} ELSE {} ELSE {ctx}
    BY DEF ctxStopErr, ctxErr
  <2>2. ctx \in {"live", "canceled", "deadline"}
    BY DEF IInv, TypeOK
  <2>3. fbStop' = "canceled" => ctx = "canceled"
    BY <2>1, <2>2 DEF IInv, StopIsKnown, classifyProduceStop, exhausted
  <2>4. fbStop' = "writeTimeout" => due
    BY <2>1, <2>2 DEF IInv, StopIsKnown, classifyProduceStop, exhausted
  <2>5. fbStop' = "terminalError" => acc.aborted
    BY <2>1, <2>2 DEF IInv, StopIsKnown, classifyProduceStop, exhausted
  <2>6. fbStop' = "none" => succeeded(fbRes)
    BY <2>1, <2>2 DEF IInv, StopIsKnown, classifyProduceStop, exhausted
  <2> QED
    BY <2>3, <2>4, <2>5, <2>6 DEF IInv, StopIsKnown
<1> QED
  BY <1>1, <1>2, <1>3, <1>4, NotReturned, Zenon DEF IInv

\* What one leg does to the accumulator: it resolves partitions only when its scoped
\* error is nil.
LEMMA CollectedFields ==
  ASSUME acc \in Accumulators, ctx \in {"live", "canceled", "deadline"},
         NEW own \in SUBSET Parts, NEW res \in Answers(own), NEW err \in scopedErrors(res, own),
         acc' = accumulate(acc, res, own, err)
  PROVE  /\ acc' \in Accumulators
         /\ err # {} => acc'.pending = acc.pending /\ acc'.resolved = acc.resolved
         /\ err = {} => /\ acc'.pending = acc.pending \ (own \cap DOMAIN res.codes)
                        /\ acc'.resolved = acc.resolved \cup (own \cap DOMAIN res.codes)
<1>1. res \in Results
  BY AnswersAreResults, Zenon
<1>2. err \in SUBSET Errors
  BY <1>1, LegErrors, Zenon
<1>3. acc' \in Accumulators
  BY <1>1, <1>2, AccumulateType, Zenon
<1>4. ASSUME err # {} PROVE acc'.pending = acc.pending /\ acc'.resolved = acc.resolved
  BY <1>4, AccumulateKeeps
<1>5. ASSUME err = {}
      PROVE  /\ acc'.pending = acc.pending \ (own \cap DOMAIN res.codes)
             /\ acc'.resolved = acc.resolved \cup (own \cap DOMAIN res.codes)
  BY <1>5, AccumulateResolves
<1> QED
  BY <1>3, <1>4, <1>5

\* A leg's result: what it resolves was acknowledged by its own response.
LEMMA CollectIInv ==
  ASSUME IInv, pc # "returned", NEW leg \in legs, collectLeg(leg)
  PROVE  IInv'
<1> USE DEF collectLeg, callVars, primVars
<1> DEFINE a == acc'
<1>0. PICK res \in Answers(leg.own) : \E err \in scopedErrors(res, leg.own) :
        /\ a = accumulate(acc, res, leg.own, err)
        /\ stored' = stored \cup Acked(res)
        /\ IF accDone(a) THEN cascadeEnds(a, "none")
           ELSE /\ legs' = legs \ {leg}
                /\ casc' = IF legs = {leg} THEN "loop" ELSE "collect"
                /\ UNCHANGED <<fbRes, fbStop>>
  OBVIOUS
<1>1. PICK err \in scopedErrors(res, leg.own) :
        /\ a = accumulate(acc, res, leg.own, err)
        /\ stored' = stored \cup Acked(res)
        /\ IF accDone(a) THEN cascadeEnds(a, "none")
           ELSE /\ legs' = legs \ {leg}
                /\ casc' = IF legs = {leg} THEN "loop" ELSE "collect"
                /\ UNCHANGED <<fbRes, fbStop>>
  BY <1>0
<1>2. acc \in Accumulators /\ leg.own \in SUBSET Parts /\ ctx \in {"live", "canceled", "deadline"}
  BY ZenonT(20) DEF IInv, TypeOK
<1>3. res \in Results /\ err \in SUBSET Errors
  BY <1>2, AnswersAreResults, LegErrors
<1>4. /\ a \in Accumulators
      /\ err # {} => a.pending = acc.pending /\ a.resolved = acc.resolved
      /\ err = {} => /\ a.pending = acc.pending \ (leg.own \cap DOMAIN res.codes)
                     /\ a.resolved = acc.resolved \cup (leg.own \cap DOMAIN res.codes)
  BY <1>1, <1>2, CollectedFields, ZenonT(40)
<1>5. err = {} => Acked(res) = DOMAIN res.codes
  BY <1>2, CleanLeg
<1>6. a.pending \cup a.resolved = Parts /\ a.pending \subseteq acc.pending
  BY <1>2, <1>4 DEF IInv, AccountsForParts
<1>7. Acked(res) \subseteq Parts /\ stored' \subseteq Parts
  BY <1>1, <1>3, ResultFields, Zenon DEF Acked, IInv, TypeOK
<1>8. a.resolved \subseteq stored'
  BY <1>1, <1>4, <1>5, Zenon DEF IInv, AccountsForParts
<1> HIDE DEF a
<1>9. CASE accDone(a)
  BY <1>1, <1>4, <1>6, <1>7, <1>8, <1>9, EndsIInv, Zenon DEF accDone, a
<1>10. CASE ~accDone(a)
  <2>1. casc' \in {"loop", "collect"} /\ legs' \subseteq legs /\ UNCHANGED <<fbRes, fbStop>>
    BY <1>1, <1>10, Zenon
  <2>2. TypeOK'
    BY <1>4, <1>7, <2>1, ZenonT(20) DEF IInv, TypeOK, a
  <2>3. AccountsForParts' /\ OpenIsPending'
    BY <1>6, <1>8, <1>10 DEF AccountsForParts, OpenIsPending, accDone, a
  <2>4. CascadeStarts'
    BY Zenon DEF IInv, CascadeStarts
  <2>5. PrimaryIsKnown' /\ FallbackIsKnown' /\ StopIsKnown'
    BY <1>1, <2>1, ZenonT(20) DEF IInv, PrimaryIsKnown, FallbackIsKnown, StopIsKnown
  <2>6. SentIsTried'
    BY <1>6, <2>1, ZenonT(20) DEF IInv, SentIsTried, Open, a
  <2> QED
    BY <2>2, <2>3, <2>4, <2>5, <2>6, NotReturned, Zenon DEF IInv
<1> QED
  BY <1>9, <1>10

\* A nonempty set of naturals has a least element.
LEMMA LeastNat ==
  ASSUME NEW T \in SUBSET Nat, T # {}
  PROVE  \E x \in T : \A y \in T : x <= y
<1> DEFINE R == {ss \in Nat \X Nat : ss[1] < ss[2]}
<1>1. IsWellFoundedOn(R, Nat)
  BY NatLessThanWellFounded DEF OpToRel
<1> HIDE DEF R
<1>2. PICK x \in T : \A y \in T : ~(<<y, x>> \in R)
  BY <1>1, WFMin, Zenon
<1>3. \A y \in T : <<y, x>> \in R <=> y < x
  BY DEF R
<1>4. \A y \in T : ~(y < x)
  BY <1>2, <1>3, Zenon
<1>5. x \in Nat /\ \A y \in T : y \in Nat
  OBVIOUS
<1> QED
  BY <1>4, <1>5

\* The next candidate of a partition that can be sent elsewhere is an agent it was
\* not sent to, and the cap leaves room for it.
LEMMA NextCandidate ==
  ASSUME IInv, NEW p \in Parts, exhaustionOf(p) = "none"
  PROVE  /\ nextCandidate(p) \in Agents /\ nextCandidate(p) \notin tried[p]
         /\ ~(Cardinality(tried[p]) >= MaxHedgeAgents)
<1>1. Untried(p) # {} /\ ~(Cardinality(tried[p]) >= MaxHedgeAgents)
  BY DEF exhaustionOf
<1>2. cand[p] \in Seq(Agents)
  BY HedgeAssumption DEF IInv, TypeOK
<1>3. Untried(p) \in SUBSET Nat
  BY <1>2 DEF Untried
<1> DEFINE j == CHOOSE j \in Untried(p) : \A k \in Untried(p) : j <= k
<1>4. j \in Untried(p)
  BY <1>1, <1>3, LeastNat
<1>5. nextCandidate(p) = cand[p][j]
  BY DEF nextCandidate
<1> HIDE DEF j
<1> QED
  BY <1>1, <1>2, <1>4, <1>5 DEF Untried

\* One partition is sent to one more agent.
LEMMA SentOnce ==
  ASSUME NEW s \in Seq(Agents), NEW T, NEW a \in Agents, a \notin T,
         \A j \in 1..Len(s) : s[j] \in T,
         \A j, k \in 1..Len(s) : s[j] = s[k] => j = k,
         NEW t, t = Append(s, a)
  PROVE  /\ t \in Seq(Agents) /\ Len(t) = Len(s) + 1
         /\ \A j \in 1..Len(t) : t[j] \in T \cup {a}
         /\ \A j, k \in 1..Len(t) : t[j] = t[k] => j = k
<1>1. t \in Seq(Agents) /\ Len(t) = Len(s) + 1 /\ Len(s) \in Nat
  OBVIOUS
<1>2. \A j \in 1..Len(t) : t[j] = IF j = Len(s) + 1 THEN a ELSE s[j]
  BY <1>1
<1>3. \A j \in 1..Len(t) : j = Len(s) + 1 \/ j \in 1..Len(s)
  BY <1>1
<1> QED
  BY <1>1, <1>2, <1>3

\* A wave sends every pending partition to one more agent.
LEMMA WaveIInv ==
  ASSUME IInv, pc # "returned", waveDispatched
  PROVE  IInv'
<1> USE DEF waveDispatched, callVars, primVars
<1>1. pc # "start" /\ acc.pending # {} /\ acc.pending \subseteq Parts
  BY DEF IInv, TypeOK, Accumulators, CascadeStarts, OpenIsPending, Open
<1>2. ASSUME NEW p \in acc.pending
      PROVE  /\ nextCandidate(p) \in Agents /\ nextCandidate(p) \notin tried[p]
             /\ ~(Cardinality(tried[p]) >= MaxHedgeAgents)
  BY <1>1, <1>2, NextCandidate, Zenon
<1>3. ASSUME NEW p \in acc.pending
      PROVE  /\ sent'[p] \in Seq(Agents) /\ Len(sent'[p]) = attempts' /\ Len(sent[p]) = attempts
             /\ \A j \in 1..Len(sent'[p]) : sent'[p][j] \in tried'[p]
             /\ \A j, k \in 1..Len(sent'[p]) : sent'[p][j] = sent'[p][k] => j = k
             /\ IsFiniteSet(tried'[p]) /\ Cardinality(tried'[p]) = Len(sent'[p])
             /\ Len(sent'[p]) <= MaxHedgeAgents
  <2> DEFINE a == nextCandidate(p)
             T == tried[p]
             q == sent[p]
  <2>1. p \in Parts /\ attempts \in Nat /\ q \in Seq(Agents) /\ attempts' = attempts + 1
    BY <1>1, Zenon DEF IInv, TypeOK
  <2>2. /\ a \in Agents /\ a \notin T /\ ~(Cardinality(T) >= MaxHedgeAgents)
        /\ \A j \in 1..Len(q) : q[j] \in T
        /\ \A j, k \in 1..Len(q) : q[j] = q[k] => j = k
        /\ IsFiniteSet(T) /\ Cardinality(T) = Len(q) /\ Len(q) = attempts
    BY <1>1, <1>2, <2>1, Zenon DEF IInv, SentIsTried, Open
  <2>3. tried'[p] = T \cup {a} /\ sent'[p] = Append(q, a)
    BY <2>1, Zenon
  <2> HIDE DEF a, T, q, waveDispatched
  <2>4. /\ sent'[p] \in Seq(Agents) /\ Len(sent'[p]) = Len(q) + 1
        /\ \A j \in 1..Len(sent'[p]) : sent'[p][j] \in T \cup {a}
        /\ \A j, k \in 1..Len(sent'[p]) : sent'[p][j] = sent'[p][k] => j = k
    BY <2>1, <2>2, <2>3, SentOnce, SMTT(30)
  <2>5. IsFiniteSet(T \cup {a}) /\ Cardinality(T \cup {a}) = Cardinality(T) + 1
    BY <2>2, FS_AddElement
  <2>6. MaxHedgeAgents \in Nat
    BY HedgeAssumption
  <2>7. Len(q) + 1 <= MaxHedgeAgents /\ Len(q) = attempts
    BY <2>1, <2>2, <2>6
  <2>8. Len(sent[p]) = attempts
    BY <2>7 DEF q
  <2> QED
    BY <2>1, <2>2, <2>3, <2>4, <2>5, <2>7, <2>8, Zenon
<1>4. ASSUME NEW p \in Parts \ acc.pending PROVE tried'[p] = tried[p] /\ sent'[p] = sent[p]
  OBVIOUS
<1>5. TypeOK'
  <2>1. tried' \in [Parts -> SUBSET Agents]
    BY <1>1, <1>2, Zenon DEF IInv, TypeOK
  <2>2. sent' \in [Parts -> Seq(Agents)]
    BY <1>1, <1>3, <1>4, Zenon DEF IInv, TypeOK
  <2>3. legs' \subseteq [agent : Agents, own : SUBSET Parts]
    BY <1>1, <1>2
  <2>4. /\ casc' = "collect" /\ attempts' = attempts + 1
        /\ UNCHANGED <<cand, callVars, primVars, acc, fbStop, fbRes, ctx, due, stored>>
    OBVIOUS
  <2> HIDE DEF waveDispatched
  <2> QED
    BY <2>1, <2>2, <2>3, <2>4, SMTT(30) DEF IInv, TypeOK
<1>6. AccountsForParts' /\ OpenIsPending' /\ CascadeStarts'
  BY <1>1 DEF IInv, AccountsForParts, OpenIsPending, CascadeStarts, Open
<1>7. PrimaryIsKnown' /\ FallbackIsKnown' /\ StopIsKnown'
  BY DEF IInv, PrimaryIsKnown, FallbackIsKnown, StopIsKnown
<1>8. SentIsTried'
  <2>1. attempts \in Nat /\ attempts' = attempts + 1 /\ pc' # "start" /\ acc' = acc
    BY <1>1, ZenonT(20) DEF IInv, TypeOK
  <2>2. \E p \in Parts : Len(sent'[p]) = attempts'
    BY <1>1, <1>3, Zenon
  <2>3. ASSUME NEW p \in Parts \ acc.pending
        PROVE  /\ \A j \in 1..Len(sent[p]) : sent[p][j] \in tried[p]
               /\ IsFiniteSet(tried[p]) /\ Cardinality(tried[p]) = Len(sent[p])
               /\ \A j, k \in 1..Len(sent[p]) : sent[p][j] = sent[p][k] => j = k
               /\ Len(sent[p]) <= attempts' /\ Len(sent[p]) <= MaxHedgeAgents
    BY <1>1, <2>1 DEF IInv, TypeOK, SentIsTried
  <2> HIDE DEF waveDispatched
  <2>4. ASSUME NEW p \in Parts
        PROVE  /\ \A j \in 1..Len(sent'[p]) : sent'[p][j] \in tried'[p]
               /\ IsFiniteSet(tried'[p]) /\ Cardinality(tried'[p]) = Len(sent'[p])
               /\ \A j, k \in 1..Len(sent'[p]) : sent'[p][j] = sent'[p][k] => j = k
               /\ Len(sent'[p]) <= attempts' /\ Len(sent'[p]) <= MaxHedgeAgents
               /\ p \in acc.pending => Len(sent'[p]) = attempts'
    <3>1. CASE p \in acc.pending
      BY <1>3, <2>1, <3>1, SMTT(30)
    <3>2. CASE p \notin acc.pending
      BY <1>4, <2>3, <3>2, Zenon
    <3> QED
      BY <3>1, <3>2
  <2> QED
    BY <2>1, <2>2, <2>4 DEF SentIsTried
<1> QED
  BY <1>5, <1>6, <1>7, <1>8, NotReturned, ZenonT(20) DEF IInv

\* The primary is sent, and the hedge decided on.
LEMMA StartIInv ==
  ASSUME IInv, start
  PROVE  IInv'
<1> USE HedgeAssumption DEF start
<1>1. TypeOK'
  <2>1. sent' \in [Parts -> Seq(Agents)]
    BY SMTT(30)
  <2> QED
    BY <2>1 DEF IInv, TypeOK
<1>2. AccountsForParts' /\ OpenIsPending' /\ CascadeStarts'
  BY DEF IInv, AccountsForParts, OpenIsPending, CascadeStarts, Open
<1>3. PrimaryIsKnown' /\ FallbackIsKnown' /\ StopIsKnown'
  BY Zenon DEF IInv, PrimaryIsKnown, FallbackIsKnown, StopIsKnown
<1>4. SentIsTried'
  <2>1. /\ pc = "start" /\ pc' # "start" /\ attempts' = 1
        /\ \A p \in Parts : sent'[p] = <<Primary>> /\ tried'[p] = {Primary}
    BY DEF IInv, CascadeStarts, SentIsTried
  <2>2. IsFiniteSet({Primary}) /\ Cardinality({Primary}) = 1
    BY FS_Singleton, Zenon
  <2>3. 1 <= MaxHedgeAgents /\ \E p \in Parts : TRUE
    OBVIOUS
  <2> DEFINE q == <<Primary>>
  <2>4. Len(q) = 1 /\ \A j \in 1..Len(q) : j = 1 /\ q[j] = Primary
    OBVIOUS
  <2> HIDE DEF start, q
  <2>5. \A p \in Parts : sent'[p] = q
    BY <2>1 DEF q
  <2>6. ASSUME NEW p \in Parts
        PROVE  /\ \A j \in 1..Len(sent'[p]) : sent'[p][j] \in tried'[p]
               /\ IsFiniteSet(tried'[p]) /\ Cardinality(tried'[p]) = Len(sent'[p])
               /\ \A j, k \in 1..Len(sent'[p]) : sent'[p][j] = sent'[p][k] => j = k
               /\ Len(sent'[p]) = attempts' /\ Len(sent'[p]) <= attempts'
               /\ Len(sent'[p]) <= MaxHedgeAgents
    <3>1. sent'[p] = q /\ tried'[p] = {Primary} /\ attempts' = 1
      BY <2>1, <2>5
    <3>2. \A j \in 1..Len(q) : q[j] \in {Primary}
      BY <2>4
    <3>3. \A j, k \in 1..Len(q) : q[j] = q[k] => j = k
      BY <2>4
    <3>4. Len(q) = attempts' /\ Len(q) <= attempts' /\ Len(q) <= MaxHedgeAgents
      BY <2>3, <2>4, <3>1
    <3>5. Cardinality({Primary}) = Len(q)
      BY <2>2, <2>4, Zenon
    <3> QED
      BY <2>2, <3>1, <3>2, <3>3, <3>4, <3>5
  <2> QED
    BY <2>1, <2>3, <2>6, Zenon DEF SentIsTried
<1> QED
  BY <1>1, <1>2, <1>3, <1>4, NotReturned, Zenon DEF IInv, start

\* The cascade is started or awaited, by the hedge timer or after the other attempt
\* has failed.
LEMMA CourseIInv ==
  ASSUME IInv, hedgeTimerFires \/ primaryFails \/ primaryFailsInRace \/ fallbackFails
  PROVE  IInv'
<1> USE DEF hedgeTimerFires, primaryFails, primaryFailsInRace, fallbackFails, primVars, cascVars
<1>1. TypeOK'
  BY ZenonT(20) DEF IInv, TypeOK
<1>2. AccountsForParts' /\ OpenIsPending' /\ CascadeStarts'
  BY Zenon DEF IInv, AccountsForParts, OpenIsPending, CascadeStarts, Open
<1>3. PrimaryIsKnown' /\ FallbackIsKnown' /\ StopIsKnown'
  BY ZenonT(20) DEF IInv, PrimaryIsKnown, FallbackIsKnown, StopIsKnown, CascadeStarts
<1>4. SentIsTried'
  BY ZenonT(30) DEF IInv, SentIsTried, CascadeStarts, Open
<1> QED
  BY <1>1, <1>2, <1>3, <1>4, NotReturned, Zenon DEF IInv

-----------------------------------------------------------------------------
(***************************************************************************)
(* The call returns.                                                       *)
(***************************************************************************)
\* Returning leaves everything but what is reported as it was.
LEMMA ReturnIInv ==
  ASSUME IInv, NEW res \in Results, NEW d \in Nat, NEW s \in Stops, NEW w \in BOOLEAN,
         return(res, d, s, w), pc \notin {"start", "returned"},
         UNCHANGED <<cand, primVars, cascVars, ctx, due, stored, sent>>, Reported'
  PROVE  IInv'
<1> USE DEF return, primVars, cascVars
<1>1. TypeOK'
  BY ZenonT(20) DEF IInv, TypeOK
<1>2. AccountsForParts' /\ OpenIsPending' /\ CascadeStarts' /\ PrimaryIsKnown'
  BY Zenon DEF IInv, AccountsForParts, OpenIsPending, CascadeStarts, PrimaryIsKnown
<1>3. FallbackIsKnown' /\ StopIsKnown' /\ SentIsTried'
  BY DEF IInv, FallbackIsKnown, StopIsKnown, SentIsTried
<1> QED
  BY <1>1, <1>2, <1>3, Zenon DEF IInv

\* What a response of the accumulator tells the caller of a partition.
LEMMA TellsOfParts ==
  ASSUME IInv, casc = "done", NEW res, res.has, res.codes = fbRes.codes
  PROVE  \A p \in Parts : recordFails(res, p) <=> p \notin acc.resolved
<1>1. BadParts(res.codes) = Parts \ acc.resolved
  BY ResponseFields DEF IInv, TypeOK, AccountsForParts, FallbackIsKnown
<1> QED
  BY <1>1, ZenonT(20) DEF recordFails

\* A success tells of no failure.
LEMMA SuccessTells ==
  ASSUME NEW res \in Results, succeeded(res)
  PROVE  \A p \in Parts : ~recordFails(res, p)
BY SucceededIff DEF recordFails

\* The primary's success is returned: it stored everything.
LEMMA PrimaryWinsIInv ==
  ASSUME IInv, primaryWins
  PROVE  IInv'
<1>1. /\ prim = "ready" /\ succeeded(primRes) /\ return(primRes, 1, "none", FALSE)
      /\ pc \notin {"start", "returned"}
      /\ UNCHANGED <<cand, primVars, cascVars, ctx, due, stored, sent>>
  BY Zenon DEF primaryWins
<1>2. primRes \in Results /\ "none" \in Stops
  BY DEF IInv, TypeOK, Stops
<1>3. result' = primRes /\ stored' = stored /\ acc' = acc /\ succeeded(result')
  BY <1>1 DEF return, cascVars
<1>4. \A p \in Parts : ~recordFails(result', p)
  BY <1>2, <1>3, SuccessTells, Zenon
<1>5. Parts \subseteq stored /\ acc.resolved \subseteq Parts
  BY <1>1, Zenon DEF IInv, PrimaryIsKnown, TypeOK, Accumulators
<1>6. Reported'
  BY <1>3, <1>4, <1>5, Zenon DEF Reported, NoFalseAck, FailsOnlyWhenAllFailed, CauseIsRanked
<1> QED
  BY <1>1, <1>2, <1>6, ReturnIInv, Zenon

\* The cascade's success is returned: it resolved everything.
LEMMA FallbackWinsIInv ==
  ASSUME IInv, fallbackWins
  PROVE  IInv'
<1>1. /\ casc = "done" /\ succeeded(fbRes) /\ return(fbRes, attempts, fbStop, TRUE)
      /\ pc \notin {"start", "returned"}
      /\ UNCHANGED <<cand, primVars, cascVars, ctx, due, stored, sent>>
  BY Zenon DEF fallbackWins
<1>2. fbRes \in Results /\ attempts \in Nat /\ fbStop \in Stops /\ acc.resolved \subseteq Parts
  BY DEF IInv, TypeOK, Accumulators
<1>3. result' = fbRes /\ stored' = stored /\ acc' = acc /\ succeeded(result')
  BY <1>1 DEF return, cascVars
<1>4. \A p \in Parts : ~recordFails(result', p)
  BY <1>2, <1>3, SuccessTells
<1>5. \A p \in Parts : p \in acc.resolved
  BY <1>1, <1>3, <1>4, TellsOfParts DEF IInv, FallbackIsKnown
<1>6. acc.resolved \subseteq stored
  BY Zenon DEF IInv, AccountsForParts
<1>7. Reported'
  BY <1>2, <1>3, <1>4, <1>5, <1>6, Zenon
  DEF Reported, NoFalseAck, FailsOnlyWhenAllFailed, CauseIsRanked
<1> QED
  BY <1>1, <1>2, <1>7, ReturnIInv, Zenon

\* Both attempts have failed, and res is what selectProduceResult makes of them.
LEMMA BothSettledIInv ==
  ASSUME IInv, casc = "done", prim = "ready", pc \notin {"start", "returned"},
         succeeded(primRes) \/ pc = "cascade" \/ ~succeeded(fbRes),
         NEW d \in Nat, NEW w \in BOOLEAN,
         LET res == selectProduceResult(primRes, fbRes)
         IN  return(res, d, finalStop(res, fbStop), w),
         UNCHANGED <<cand, primVars, cascVars, ctx, due, stored, sent>>
  PROVE  IInv'
<1> DEFINE res == selectProduceResult(primRes, fbRes)
           s == finalStop(res, fbStop)
<1>1. return(res, d, s, w)
  BY Zenon
<1>2. /\ primRes \in Results /\ fbRes \in Results /\ fbRes.has /\ fbStop \in Stops
      /\ acc.resolved \subseteq Parts /\ acc.resolved \subseteq stored
      /\ ctx \in {"live", "canceled", "deadline"} /\ due \in BOOLEAN
  BY Zenon DEF IInv, TypeOK, Accumulators, FallbackIsKnown, AccountsForParts
<1>3. /\ res \in Results
      /\ succeeded(primRes) => res = primRes
      /\ ~succeeded(primRes) => /\ res.has /\ res.codes = fbRes.codes
                                /\ succeeded(fbRes) => succeeded(res)
  BY <1>2, SelectFields, Zenon
<1> HIDE DEF res
<1>4. s \in Stops
  BY <1>2 DEF finalStop, Stops
<1>5. /\ result' = res /\ stop' = s /\ pc' = "returned" /\ stored' = stored /\ acc' = acc
      /\ UNCHANGED <<primVars, cascVars, ctx, due>>
  BY <1>1 DEF return, cascVars
<1>6. NoFalseAck'
  <2>1. CASE succeeded(primRes)
    BY <1>5, <2>1, Zenon DEF NoFalseAck, IInv, PrimaryIsKnown
  <2>2. CASE ~succeeded(primRes)
    BY <1>2, <1>3, <1>5, <2>2, TellsOfParts, Zenon DEF NoFalseAck
  <2> QED
    BY <2>1, <2>2, Zenon
<1>7. \A p \in acc.resolved : ~recordFails(res, p)
  <2>1. CASE succeeded(primRes)
    BY <1>2, <1>3, <2>1, SuccessTells, Zenon
  <2>2. CASE ~succeeded(primRes)
    BY <1>2, <1>3, <2>2, TellsOfParts, Zenon
  <2> QED
    BY <2>1, <2>2, ZenonT(40)
<1>8. ~succeeded(res) => ~succeeded(primRes) /\ ~succeeded(fbRes)
  BY <1>3, Zenon
<1>9. FailsOnlyWhenAllFailed'
  BY <1>5, <1>7, <1>8, Zenon DEF FailsOnlyWhenAllFailed, primVars, cascVars
<1>10. CauseIsRanked'
  <2> SUFFICES ASSUME ~succeeded(res)
               PROVE  /\ s # "none"
                      /\ exhausted(s) => ~due /\ ctx = "live"
                      /\ s = "canceled" => ctx = "canceled"
                      /\ s = "writeTimeout" => due
                      /\ s = "terminalError" => acc.aborted \/ ~retriable(primErr)
    BY <1>5 DEF CauseIsRanked, primVars, cascVars
  <2>1. ctxStopErr = IF ctx = "live" THEN IF due THEN {"deadline"} ELSE {} ELSE {ctx}
    BY Zenon DEF ctxStopErr, ctxErr
  <2>2. /\ fbStop # "none"
        /\ fbStop = "canceled" => ctx = "canceled"
        /\ fbStop = "writeTimeout" => due
        /\ fbStop = "terminalError" => acc.aborted
        /\ ctx = "deadline" => due
    BY <1>8, Zenon DEF IInv, StopIsKnown
  <2>3. CASE ~(exhausted(fbStop) \/ fbStop = "writeTimeout")
    BY <2>2, <2>3, Zenon DEF finalStop, exhausted
  <2>4. CASE (exhausted(fbStop) \/ fbStop = "writeTimeout")
             /\ primErr # {} /\ "canceled" \notin primErr /\ ~retriable(primErr)
    BY <2>4, ZenonT(20) DEF finalStop, exhausted
  <2>5. CASE (exhausted(fbStop) \/ fbStop = "writeTimeout")
             /\ ~(primErr # {} /\ "canceled" \notin primErr /\ ~retriable(primErr))
    BY <1>2, <2>1, <2>2, <2>5 DEF finalStop, exhausted
  <2> QED
    BY <2>3, <2>4, <2>5, ZenonT(20)
<1> QED
  BY <1>1, <1>3, <1>4, <1>6, <1>9, <1>10, ReturnIInv, Zenon DEF Reported

\* Every step of the call preserves the invariant.
LEMMA StepIInv == IInv /\ [Next]_vars => IInv'
<1> SUFFICES ASSUME IInv, [Next]_vars PROVE IInv'
  BY Zenon
<1>1. CASE UNCHANGED vars
  <2> USE <1>1 DEF vars, callVars, primVars, cascVars
  <2>1. TypeOK'
    BY ZenonT(20) DEF IInv, TypeOK
  <2>2. AccountsForParts' /\ OpenIsPending' /\ CascadeStarts' /\ PrimaryIsKnown'
    BY ZenonT(40) DEF IInv, AccountsForParts, OpenIsPending, CascadeStarts, PrimaryIsKnown
  <2>3. FallbackIsKnown' /\ StopIsKnown' /\ SentIsTried'
    BY ZenonT(40) DEF IInv, FallbackIsKnown, StopIsKnown, SentIsTried
  <2>4. Reported'
    BY DEF IInv, Reported, NoFalseAck, FailsOnlyWhenAllFailed, CauseIsRanked, Returned
  <2> QED
    BY <2>1, <2>2, <2>3, <2>4, Zenon DEF IInv
<1>2. CASE Next
  <2>1. pc # "returned"
    BY <1>2 DEF Next
  <2>2. CASE cancelCtx \/ deadlineReached \/ deadlineFires
    BY <2>2, ContextIInv
  <2>3. CASE primaryReturns
    BY <2>1, <2>3, PrimaryReturnsIInv
  <2>4. CASE Cascade
    BY <2>1, <2>4, LoopEndsIInv, StopsIInv, WaveIInv, CollectIInv DEF Cascade
  <2>5. CASE start \/ hedgeTimerFires \/ primaryFails \/ primaryFailsInRace \/ fallbackFails
    BY <2>5, StartIInv, CourseIInv
  <2>6. CASE primaryWins \/ fallbackWins
    BY <2>6, PrimaryWinsIInv, FallbackWinsIInv, Zenon
  <2>7. CASE cascadeSettles
    <3>1. prim = "ready" /\ attempts \in Nat /\ succeeded(fbRes) \in BOOLEAN
      BY <2>7, Zenon DEF cascadeSettles, IInv, PrimaryIsKnown, TypeOK, succeeded
    <3> QED
      BY <2>7, <3>1, BothSettledIInv, Zenon DEF cascadeSettles
  <2>8. CASE primarySettles
    <3>1. casc = "done" /\ ~succeeded(fbRes) /\ attempts \in Nat /\ 1 \in Nat
      BY <2>8 DEF primarySettles, IInv, FallbackIsKnown, TypeOK
    <3> QED
      BY <2>8, <3>1, BothSettledIInv, Zenon DEF primarySettles
  <2> QED
    BY <1>2, <2>2, <2>3, <2>4, <2>5, <2>6, <2>7, <2>8, Zenon DEF Next, Settle
<1> QED
  BY <1>1, <1>2

-----------------------------------------------------------------------------
\* The inductive invariant holds in every reachable state.
THEOREM CallInvariant == Spec => []IInv
BY InitIInv, StepIInv, PTL DEF Spec

\* The caller is told of success only for partitions that some attempt acknowledged.
THEOREM NoFalseAckHolds == Spec => []NoFalseAck
<1>1. IInv => NoFalseAck
  BY DEF IInv, Reported
<1> QED
  BY <1>1, CallInvariant, PTL

\* The call gives up nothing that a wave has landed, and fails only when the primary
\* and the cascade both have.
THEOREM FailsOnlyWhenAllFailedHolds == Spec => []FailsOnlyWhenAllFailed
<1>1. IInv => FailsOnlyWhenAllFailed
  BY DEF IInv, Reported
<1> QED
  BY <1>1, CallInvariant, PTL

\* No partition is sent twice to an agent, or to more agents than the cap, and the
\* attempt depth that is recorded is the length of the longest path.
THEOREM AttemptsAreBounded == Spec => []AttemptsBounded
<1>1. IInv => AttemptsBounded
  <2> SUFFICES ASSUME IInv PROVE AttemptsBounded
    BY Zenon
  <2>1. CASE pc = "start"
    BY <2>1, HedgeAssumption, SMTT(30) DEF IInv, SentIsTried, AttemptsBounded
  <2>2. CASE pc # "start"
    <3>1. \A p \in Parts : DOMAIN sent[p] = 1..Len(sent[p])
      BY DEF IInv, TypeOK
    <3> QED
      BY <2>2, <3>1 DEF IInv, SentIsTried, AttemptsBounded
  <2> QED
    BY <2>1, <2>2
<1> QED
  BY <1>1, CallInvariant, PTL

\* A failed call is booked under the cause that ranks first.
THEOREM CauseIsRankedHolds == Spec => []CauseIsRanked
<1>1. IInv => CauseIsRanked
  BY DEF IInv, Reported
<1> QED
  BY <1>1, CallInvariant, PTL

-----------------------------------------------------------------------------
(***************************************************************************)
(* Whether to hedge and to demote (HealthGates).                           *)
(***************************************************************************)
\* Every agent has a snapshot.
SnapInv == snap \in [Nodes -> Snapshots]

\* Snapshots come and go.
LEMMA SnapshotsStay == GSpec => []SnapInv
<1>1. GInit => SnapInv
  BY Zenon DEF GInit, SnapInv
<1>2. SnapInv /\ [GNext]_snap => SnapInv'
  BY Zenon DEF SnapInv, GNext, observe
<1> QED
  BY <1>1, <1>2, PTL DEF GSpec

\* The numbers of a snapshot.
LEMMA SnapshotCounts ==
  ASSUME SnapInv, NEW n \in Nodes
  PROVE  /\ snap[n].ok \in Nat /\ snap[n].faulty \in Nat /\ snap[n].filled \in Nat
         /\ snap[n].filled <= snap[n].ok + snap[n].faulty
         /\ requests(n) = snap[n].ok + snap[n].faulty
<1>1. snap[n] \in Snapshots
  BY Zenon DEF SnapInv
<1>2. /\ snap[n] \in [sum : Nat, ok : Nat, faulty : Nat, filled : Nat]
      /\ snap[n].filled <= snap[n].ok + snap[n].faulty
  BY <1>1, GatesAssumption, Zenon
<1> QED
  BY <1>2, Zenon DEF requests

\* The agents of the cluster view are counted, and with a view there are some.
LEMMA ViewCounts ==
  /\ Cardinality(Observed) \in Nat /\ Cardinality(Measured) \in Nat
  /\ Cardinality(faulty) \in Nat /\ Cardinality(slow) \in Nat
  /\ Qualified # {} => Cardinality(Observed) # 0
  /\ Measured # {} => Cardinality(Measured) # 0
<1>1. /\ Observed \subseteq Nodes /\ Qualified \subseteq Observed
      /\ Measured \subseteq Qualified /\ faulty \subseteq Nodes /\ slow \subseteq Measured
  BY Zenon DEF Observed, Qualified, Measured, faulty, slow
<1>2. IsFiniteSet(Nodes)
  BY GatesAssumption, Zenon
<1>3. \A S : S \subseteq Nodes => IsFiniteSet(S)
  BY <1>2, FS_Subset, Zenon
<1>4. IsFiniteSet(Observed) /\ IsFiniteSet(Measured) /\ IsFiniteSet(faulty) /\ IsFiniteSet(slow)
  <2>1. Measured \subseteq Nodes /\ slow \subseteq Nodes
    BY <1>1, Zenon
  <2> QED
    BY <1>1, <1>3, <2>1, Zenon
<1>5. \A S : IsFiniteSet(S) => Cardinality(S) \in Nat /\ (Cardinality(S) = 0 => S = {})
  BY FS_CardinalityType, FS_EmptySet, Zenon
<1> QED
  BY <1>1, <1>4, <1>5, Zenon

\* maxFractionFloor lets one agent of any number pass.
LEMMA FloorPassesOne ==
  ASSUME NEW M \in Ratios, NEW o \in Nat, o # 0, NEW f \in Nat, f <= 1
  PROVE  ~Above(<<f, o>>, maxFractionFloor(M, o))
<1>1. M[1] \in Nat /\ M[2] \in Nat /\ M[2] > 0
  BY DEF Ratios
<1>2. f = 0 \/ f = 1
  OBVIOUS
<1>3. CASE Above(M, <<1, o>>)
  <2>1. M[1] * o > M[2]
    BY <1>1, <1>3 DEF Above
  <2>2. ~(f * M[2] > M[1] * o)
    BY <1>1, <1>2, <2>1
  <2> QED
    BY <1>3, <2>2 DEF maxFractionFloor, Above
<1>4. CASE ~Above(M, <<1, o>>)
  <2>1. ~(f * o > 1 * o)
    BY <1>2
  <2>2. maxFractionFloor(M, o) = <<1, o>>
    BY <1>4, Zenon DEF maxFractionFloor
  <2> QED
    BY <2>1, <2>2 DEF Above
<1> QED
  BY <1>3, <1>4, Zenon

\* With no contributor there is nothing above a fraction.
LEMMA FloorPassesNone ==
  ASSUME NEW M \in Ratios
  PROVE  ~Above(<<0, 1>>, maxFractionFloor(M, 0))
<1>1. M[1] \in Nat /\ M[2] \in Nat
  BY DEF Ratios
<1>2. maxFractionFloor(M, 0) = M
  BY Zenon DEF maxFractionFloor
<1> QED
  BY <1>1, <1>2 DEF Above

\* Whatever the size of the cluster and the configured fractions, one bad agent is
\* demoted and hedged around (maxFractionFloor, isDemotionSuppressed, shouldHedge).
THEOREM OneBadAgentPassesTheGates == GSpec => []OneBadAgentIsActedOn
<1>1. OneBadAgentIsActedOn
  <2> SUFFICES ASSUME hasClusterStats, Cardinality(faulty) <= 1
               PROVE  /\ ~isDemotionSuppressed
                      /\ Cardinality(slow) <= 1 => \A n \in Qualified : hedges(n)
    BY Zenon DEF OneBadAgentIsActedOn
  <2>1. Qualified # {} /\ Cardinality(Observed) \in Nat /\ Cardinality(Observed) # 0
    BY ViewCounts, Zenon DEF hasClusterStats
  <2>2. MaxFaultyFraction \in Ratios /\ MaxSlowFraction \in Ratios
    BY GatesAssumption, Zenon
  <2>3. Observed # {}
    BY <2>1, Zenon DEF Qualified
  <2>4. ~Above(faultyFraction, maxFractionFloor(MaxFaultyFraction, Cardinality(Observed)))
    BY <2>1, <2>2, <2>3, ViewCounts, FloorPassesOne, Zenon DEF faultyFraction
  <2>5. ~isDemotionSuppressed
    BY <2>4, Zenon DEF isDemotionSuppressed
  <2>6. ASSUME Cardinality(slow) <= 1, NEW n \in Qualified PROVE hedges(n)
    <3>1. ~Above(slowFraction, maxFractionFloor(MaxSlowFraction, Cardinality(Measured)))
      <4>1. CASE Measured # {}
        BY <2>2, <2>6, <4>1, ViewCounts, FloorPassesOne, Zenon DEF slowFraction
      <4>2. CASE Measured = {}
        <5>1. Cardinality(Measured) = 0
          BY <4>2, FS_EmptySet, Zenon
        <5> QED
          BY <2>2, <4>2, <5>1, FloorPassesNone, Zenon DEF slowFraction
      <4> QED
        BY <4>1, <4>2, Zenon
    <3>2. shouldHedge(n) = "baseline" \/ shouldHedge(n) = "slow"
      BY <2>4, <2>6, <3>1 DEF shouldHedge
    <3> QED
      BY <3>2, Zenon DEF hedges
  <2> QED
    BY <2>5, <2>6, Zenon
<1> QED
  BY <1>1, PTL

\* ceil(1 / FaultyThreshold) requests suffice for one of them to be the threshold.
LEMMA BaseIsCeiling ==
  /\ base \in Nat
  /\ FaultyThreshold[1] \in Nat \ {0} /\ FaultyThreshold[2] \in Nat \ {0}
  /\ base * FaultyThreshold[1] >= FaultyThreshold[2]
<1> DEFINE t == FaultyThreshold[1]
           u == FaultyThreshold[2]
<1>1. t \in Nat \ {0} /\ u \in Nat \ {0}
  BY GatesAssumption DEF Ratios
<1>2. base = (u + t - 1) \div t
  BY Zenon DEF base
<1> HIDE DEF t, u
<1>3. base \in Nat /\ base * t >= u
  BY <1>1, <1>2
<1> QED
  BY <1>1, <1>3, Zenon DEF t, u

\* The smaller of two numbers.
LEMMA MinOfTwo ==
  ASSUME NEW a \in Nat, NEW b \in Nat
  PROVE  Min({a, b}) <= b
<1>1. \E x \in {a, b} : \A y \in {a, b} : x <= y
  <2>1. a <= b \/ b <= a
    OBVIOUS
  <2> QED
    BY <2>1
<1>2. \A y \in {a, b} : Min({a, b}) <= y
  BY <1>1, Zenon DEF Min
<1> QED
  BY <1>2, Zenon

\* errorRateMinRequests follows the traffic: with enough of it no agent is demoted
\* for a single error, and with little of it an agent that only fails is.
THEOREM AgentsAreJudgedByTraffic == GSpec => []JudgedByTraffic
<1>1. SnapInv => JudgedByTraffic
  <2> SUFFICES ASSUME SnapInv PROVE JudgedByTraffic
    BY Zenon
  <2> DEFINE t == FaultyThreshold[1]
             u == FaultyThreshold[2]
  <2>1. base \in Nat /\ t \in Nat \ {0} /\ u \in Nat \ {0} /\ base * t >= u
    BY BaseIsCeiling, Zenon
  <2>2. ASSUME NEW n PROVE Above(errorRate(n), FaultyThreshold) <=> snap[n].faulty * u > t * requests(n)
    BY DEF Above, errorRate
  <2> HIDE DEF t, u
  <2>3. ASSUME avgRequestsPerAgent >= base, NEW n \in Nodes, n \in faulty \/ isDemoted(n, FALSE)
        PROVE  snap[n].faulty > 1
    <3>1. errorRateMinRequests = base
      BY <2>3, Zenon DEF errorRateMinRequests
    <3>2. isFaulty(n, base)
      BY <2>3, <3>1, Zenon DEF faulty, isDemoted
    <3>3. requests(n) >= base /\ snap[n].faulty * u > t * requests(n)
      BY <2>2, <3>2, Zenon DEF isFaulty
    <3>4. snap[n].faulty \in Nat /\ requests(n) \in Nat
      BY SnapshotCounts
    <3>5. t * requests(n) >= u
      <4> DEFINE r == requests(n)
      <4>1. r \in Nat /\ r >= base
        BY <3>3, <3>4
      <4> HIDE DEF r
      <4>2. t * r >= t * base
        BY <2>1, <4>1
      <4>3. t * r >= u
        BY <2>1, <4>1, <4>2
      <4> QED
        BY <4>3 DEF r
    <3> DEFINE k == snap[n].faulty
               r == requests(n)
    <3>6. k \in Nat /\ r \in Nat /\ k * u > t * r /\ t * r >= u
      BY <3>3, <3>4, <3>5, Zenon
    <3> HIDE DEF k, r
    <3>7. k > 1
      BY <2>1, <3>6
    <3> QED
      BY <3>7 DEF k
  <2>4. ASSUME ~(avgRequestsPerAgent >= base), NEW n \in Qualified, snap[n].ok = 0,
               Above(<<1, 1>>, FaultyThreshold)
        PROVE  n \in faulty
    <3>1. n \in Nodes /\ snap[n].filled >= MinFilled /\ MinFilled \in Nat \ {0}
      BY <2>4, GatesAssumption, Zenon DEF Qualified, Observed
    <3>2. errorRateMinRequests = Min({base, MinFilled})
      BY <2>4, Zenon DEF errorRateMinRequests
    <3>3. Min({base, MinFilled}) <= MinFilled
      BY <2>1, <3>1, MinOfTwo
    <3>4. u > t
      <4>1. 1 * FaultyThreshold[2] > FaultyThreshold[1] * 1
        BY <2>4, Zenon DEF Above
      <4> QED
        BY <2>1, <4>1 DEF t, u
    <3> DEFINE k == snap[n].faulty
               r == requests(n)
               m == Min({base, MinFilled})
    <3>5. k \in Nat /\ r = k /\ k >= MinFilled
      BY <2>4, <3>1, SnapshotCounts
    <3>6. m \in Nat
      <4>1. m \in {base, MinFilled}
        <5>1. \E x \in {base, MinFilled} : \A y \in {base, MinFilled} : x <= y
          <6>1. base <= MinFilled \/ MinFilled <= base
            BY <2>1, <3>1
          <6> QED
            BY <2>1, <3>1, <6>1
        <5> QED
          BY <5>1, Zenon DEF Min
      <4> QED
        BY <2>1, <3>1, <4>1
    <3> HIDE DEF k, r, m
    <3>7. r >= m
      BY <3>1, <3>3, <3>5, <3>6, SMTT(30) DEF m
    <3>8. k * u > t * r
      BY <2>1, <3>1, <3>4, <3>5
    <3>9. isFaulty(n, errorRateMinRequests)
      BY <2>2, <2>4, <3>2, <3>7, <3>8, Zenon DEF isFaulty, k, r, m
    <3> QED
      BY <3>1, <3>9, Zenon DEF faulty
  <2> QED
    BY <2>3, <2>4, Zenon DEF JudgedByTraffic
<1> QED
  BY <1>1, SnapshotsStay, PTL

=============================================================================
