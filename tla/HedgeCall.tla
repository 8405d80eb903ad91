----------------------------- MODULE HedgeCall -----------------------------
(***************************************************************************)
(* One call of Hedger.ProduceSync (hedger.go): the primary attempt in its  *)
(* goroutine, the hedge timer, the cascade of hedge waves over the         *)
(* candidates of each partition, run after a failed primary or racing it,  *)
(* and the call's context, which may be canceled or expire at any point.   *)
(*                                                                         *)
(* Agents answer an attempt with a response over any part of what they     *)
(* were sent, or with an error.  A leg's result reaches the cascade        *)
(* through the hedge buffer; see HedgeLegs for legs that share a flush.    *)
(***************************************************************************)
EXTENDS Naturals, Sequences, ProduceResults

CONSTANTS
  Agents,
  Primary,          \* the agent the batch was routed to
  CandidateLists,   \* the lists the strategy may return for a partition
  MaxHedgeAgents

ASSUME HedgeAssumption ==
  /\ Primary \in Agents
  /\ CandidateLists \subseteq Seq(Agents)
  /\ MaxHedgeAgents \in Nat \ {0}
  /\ Parts # {}

VARIABLES
  cand,       \* [Parts -> CandidateLists]: hedgerCandidates, fixed for the call
  pc,         \* where ProduceSync is
  prim,       \* "off", "running", "ready": the primary goroutine and its channel
  primRes,    \* its result, coverage-checked
  primErr,    \* primRes.error()
  casc,       \* runHedgingAttempts: "off", "loop", "collect", "ended" or "done"
  acc,        \* produceResultAccumulator
  tried,      \* [Parts -> SUBSET Agents]
  legs,       \* legs of the current wave not yet collected: [agent, own]
  attempts,   \* attempt depth of the cascade
  fbStop,     \* its exhaustion, then its produceStop
  fbRes,      \* its result
  ctx,        \* workCtx.Err(): "live", "canceled" or "deadline"
  due,        \* the write deadline has been reached, timer fired or not
  result,     \* what ProduceSync returned
  stop,       \* the produceStop it recorded
  depth,      \* the attempt depth it recorded
  win,        \* hedge_wins_total was counted
  stored,     \* history: partitions acknowledged by an attempt without error
  sent        \* history: [Parts -> Seq(Agents)], the agents p was sent to

callVars == <<pc, result, stop, depth, win>>
primVars == <<prim, primRes, primErr>>
cascVars == <<casc, acc, tried, legs, attempts, fbStop, fbRes>>
vars == <<cand, callVars, primVars, cascVars, ctx, due, stored, sent>>

Stops == {"none", "noAlternate", "listDrained", "budgetCap", "terminalError",
          "writeTimeout", "canceled"}
exhausted(s) == s \in {"noAlternate", "listDrained", "budgetCap"}

NoResult == ErrResult({})

Init ==
  /\ cand \in [Parts -> CandidateLists]
  /\ pc = "start"
  /\ prim = "off" /\ primRes = NoResult /\ primErr = {}
  /\ casc = "off" /\ acc = newAccumulator
  /\ tried = [p \in Parts |-> {Primary}]
  /\ legs = {} /\ attempts = 1 /\ fbStop = "none" /\ fbRes = NoResult
  /\ ctx = "live" /\ due = FALSE
  /\ result = NoResult /\ stop = "none" /\ depth = 0 /\ win = FALSE
  /\ stored = {} /\ sent = [p \in Parts |-> <<>>]

-----------------------------------------------------------------------------
\* ctx.Err() and ctxStopErr(ctx) as errors.
ctxErr == IF ctx = "live" THEN {} ELSE {ctx}
ctxStopErr == IF ctx = "live" /\ due THEN {"deadline"} ELSE ctxErr

\* What an attempt that sent P may come back with: any response, an error of the
\* agent or of its own deadline, or the error of a context that is done.
Answers(P) ==
  {RespResult(codes) : codes \in UNION {[Q -> Codes] : Q \in SUBSET P}}
    \cup {ErrResult({e}) : e \in {"retriable", "transport", "fatal", "deadline"}}
    \cup (IF ctx = "live" THEN {} ELSE {ErrResult(ctxErr)})

\* An attempt is all-or-nothing: it acknowledges what its response reports when
\* the response has no error at all.
Acked(res) == IF succeeded(res) THEN DOMAIN res.codes ELSE {}

-----------------------------------------------------------------------------
(***************************************************************************)
(* The context: canceled by the caller, or its write deadline is reached   *)
(* and, some time later, reported.                                         *)
(***************************************************************************)
cancelCtx ==
  /\ ctx = "live" /\ pc # "returned"
  /\ ctx' = "canceled"
  /\ UNCHANGED <<cand, callVars, primVars, cascVars, due, stored, sent>>

deadlineReached ==
  /\ ~due /\ pc # "returned"
  /\ due' = TRUE
  /\ UNCHANGED <<cand, callVars, primVars, cascVars, ctx, stored, sent>>

deadlineFires ==
  /\ ctx = "live" /\ due /\ pc # "returned"
  /\ ctx' = "deadline"
  /\ UNCHANGED <<cand, callVars, primVars, cascVars, due, stored, sent>>

(***************************************************************************)
(* The primary goroutine.                                                  *)
(***************************************************************************)
primaryReturns ==
  /\ prim = "running"
  /\ \E res \in Answers(Parts) :
       /\ primRes' = withCoverageCheck(res)
       /\ primErr' \in resultErrors(primRes')
       /\ stored' = stored \cup Acked(res)
  /\ prim' = "ready"
  /\ UNCHANGED <<cand, callVars, cascVars, ctx, due, sent>>

-----------------------------------------------------------------------------
(***************************************************************************)
(* The cascade: runHedgingAttempts and runHedgingAttempt.                  *)
(***************************************************************************)

\* Why the cascade ended.  A terminal error outranks a context that is done
\* afterwards, which outranks running out of candidates.
classifyProduceStop(terminal, terminalErr, cErr, exhaustion) ==
  IF terminal /\ "canceled" \notin terminalErr THEN "terminalError"
  ELSE IF "canceled" \in cErr THEN "canceled"
  ELSE IF "deadline" \in cErr THEN "writeTimeout"
  ELSE IF exhausted(exhaustion) THEN exhaustion
  ELSE IF terminal THEN "terminalError" ELSE "none"

\* The loop is left: the merged result, with the error of a context that is done.
cascadeEnds(a, exhaustion) ==
  /\ casc' = "ended"
  /\ fbRes' = IF ctxErr = {} THEN accResult(a) ELSE [accResult(a) EXCEPT !.err = ctxErr]
  /\ fbStop' = exhaustion
  /\ legs' = {}

\* The context is read again for the stop; it may have ended since the result.
cascadeStops ==
  /\ casc = "ended"
  /\ casc' = "done"
  /\ fbStop' = classifyProduceStop(acc.aborted, acc.lastErr, ctxStopErr, fbStop)
  /\ UNCHANGED <<cand, callVars, primVars, acc, tried, legs, attempts, fbRes, ctx, due,
                 stored, sent>>

\* The first candidate of p not tried yet.
Untried(p) == {j \in DOMAIN cand[p] : cand[p][j] \notin tried[p]}
nextCandidate(p) == cand[p][CHOOSE j \in Untried(p) : \A k \in Untried(p) : j <= k]

\* Mutant: one agent more than the cap.
exhaustionOf_late(p) ==
  IF Cardinality(tried[p]) > MaxHedgeAgents THEN "budgetCap"
  ELSE IF Untried(p) # {} THEN "none"
  ELSE IF Cardinality(tried[p]) = 1 THEN "noAlternate" ELSE "listDrained"

\* Why p cannot be sent anywhere else, "none" when it can.
exhaustionOf(p) ==
  IF Cardinality(tried[p]) >= MaxHedgeAgents THEN "budgetCap"
  ELSE IF Untried(p) # {} THEN "none"
  ELSE IF Cardinality(tried[p]) = 1 THEN "noAlternate" ELSE "listDrained"

\* The loop condition fails: workCtx is done.
loopCtxDone ==
  /\ casc = "loop" /\ ctx # "live"
  /\ cascadeEnds(acc, "none")
  /\ UNCHANGED <<cand, callVars, primVars, acc, tried, attempts, ctx, due, stored, sent>>

\* A pending partition has no agent left: no wave is dispatched.  The pending
\* partitions are visited in map order, so any such partition may be the first
\* (what the visit added to tried before it stopped is not read again).
waveExhausted ==
  /\ casc = "loop" /\ ctx = "live"
  /\ \E p \in acc.pending :
       /\ exhaustionOf(p) # "none"
       /\ cascadeEnds(acc, exhaustionOf(p))
  /\ UNCHANGED <<cand, callVars, primVars, acc, tried, attempts, ctx, due, stored, sent>>

\* Each pending partition goes to its next candidate; one leg per agent.
waveDispatched ==
  /\ casc = "loop" /\ ctx = "live"
  /\ \A p \in acc.pending : exhaustionOf(p) = "none"
  /\ tried' = [p \in Parts |-> IF p \in acc.pending
                               THEN tried[p] \cup {nextCandidate(p)} ELSE tried[p]]
  /\ legs' = {[agent |-> a, own |-> {p \in acc.pending : nextCandidate(p) = a}] :
                a \in {nextCandidate(p) : p \in acc.pending}}
  /\ sent' = [p \in Parts |-> IF p \in acc.pending
                              THEN Append(sent[p], nextCandidate(p)) ELSE sent[p]]
  /\ attempts' = attempts + 1
  /\ casc' = "collect"
  /\ UNCHANGED <<cand, callVars, primVars, acc, fbStop, fbRes, ctx, due, stored>>

\* A leg's result is received and accumulated; the wave goes on until the batch
\* is resolved or aborted, or every leg has reported.
collectLeg(leg) ==
  /\ casc = "collect"
  /\ leg \in legs
  /\ \E res \in Answers(leg.own) : \E err \in scopedErrors(res, leg.own) :
       LET a == accumulate(acc, res, leg.own, err)
       IN  /\ acc' = a
           /\ stored' = stored \cup Acked(res)
           /\ IF accDone(a) THEN cascadeEnds(a, "none")
              ELSE /\ legs' = legs \ {leg}
                   /\ casc' = IF legs = {leg} THEN "loop" ELSE "collect"
                   /\ UNCHANGED <<fbRes, fbStop>>
  /\ UNCHANGED <<cand, callVars, primVars, tried, attempts, ctx, due, sent>>

\* attemptCtx.Done() is taken instead of a result.
waveCtxDone ==
  /\ casc = "collect" /\ ctx # "live"
  /\ cascadeEnds(acc, "none")
  /\ UNCHANGED <<cand, callVars, primVars, acc, tried, attempts, ctx, due, stored, sent>>

-----------------------------------------------------------------------------
(***************************************************************************)
(* ProduceSync and runHedgingAttemptsAndRaceWithPrimary.                   *)
(***************************************************************************)

\* Mutant: the cascade's own stop is final.
finalStop_asIs(res, s) == s

\* The cause of a failed produce once the primary's result is known too.
finalStop(res, s) ==
  IF ~(exhausted(s) \/ s = "writeTimeout") \/ succeeded(res) THEN s
  ELSE IF primErr # {} /\ "canceled" \notin primErr /\ ~retriable(primErr)
       THEN "terminalError"
  ELSE IF s = "writeTimeout" THEN s
  ELSE IF "deadline" \in ctxStopErr THEN "writeTimeout"
  ELSE IF "canceled" \in ctxStopErr THEN "canceled" ELSE s

\* ProduceSync returns res, having recorded depth d, stop s and a hedge win w.
return(res, d, s, w) ==
  /\ pc' = "returned"
  /\ result' = res /\ depth' = d /\ stop' = s /\ win' = w

\* The hedge decision: none, after a delay, or at once (delay 0).
start ==
  /\ pc = "start"
  /\ pc' \in {"wait", "armed", "race"}
  /\ prim' = "running"
  /\ casc' = IF pc' = "race" THEN "loop" ELSE "off"
  /\ sent' = [p \in Parts |-> <<Primary>>]
  /\ UNCHANGED <<cand, result, stop, depth, win, primRes, primErr, acc, tried, legs,
                 attempts, fbStop, fbRes, ctx, due, stored>>

hedgeTimerFires ==
  /\ pc = "armed"
  /\ pc' = "race" /\ casc' = "loop"
  /\ UNCHANGED <<cand, result, stop, depth, win, primVars, acc, tried, legs, attempts,
                 fbStop, fbRes, ctx, due, stored, sent>>

\* The primary's success is returned as it is.
primaryWins ==
  /\ pc \in {"wait", "armed", "race"}
  /\ prim = "ready" /\ succeeded(primRes)
  /\ return(primRes, 1, "none", FALSE)
  /\ UNCHANGED <<cand, primVars, cascVars, ctx, due, stored, sent>>

\* Mutant: the cascade is awaited and never started.
primaryFails_noCascade ==
  /\ pc \in {"wait", "armed"}
  /\ prim = "ready" /\ ~succeeded(primRes)
  /\ pc' = "cascade"
  /\ UNCHANGED <<cand, result, stop, depth, win, primVars, cascVars, ctx, due, stored, sent>>

\* No race yet: a failed primary starts the cascade.
primaryFails ==
  /\ pc \in {"wait", "armed"}
  /\ prim = "ready" /\ ~succeeded(primRes)
  /\ pc' = "cascade" /\ casc' = "loop"
  /\ UNCHANGED <<cand, result, stop, depth, win, primVars, acc, tried, legs, attempts,
                 fbStop, fbRes, ctx, due, stored, sent>>

\* In the race: wait for the fallback.
primaryFailsInRace ==
  /\ pc = "race"
  /\ prim = "ready" /\ ~succeeded(primRes)
  /\ pc' = "cascade"
  /\ UNCHANGED <<cand, result, stop, depth, win, primVars, cascVars, ctx, due, stored, sent>>

\* The cascade ends after the primary failed, in the race or not.
cascadeSettles ==
  /\ pc = "cascade" /\ casc = "done"
  /\ LET res == selectProduceResult(primRes, fbRes)
     IN  return(res, attempts, finalStop(res, fbStop), succeeded(fbRes))
  /\ UNCHANGED <<cand, primVars, cascVars, ctx, due, stored, sent>>

fallbackWins ==
  /\ pc = "race"
  /\ casc = "done" /\ succeeded(fbRes)
  /\ return(fbRes, attempts, fbStop, TRUE)
  /\ UNCHANGED <<cand, primVars, cascVars, ctx, due, stored, sent>>

\* Mutant: the first failure is returned.
fallbackFails_returns ==
  /\ pc = "race"
  /\ casc = "done" /\ ~succeeded(fbRes)
  /\ return(fbRes, attempts, fbStop, FALSE)
  /\ UNCHANGED <<cand, primVars, cascVars, ctx, due, stored, sent>>

\* The fallback failed first: let the primary finish.
fallbackFails ==
  /\ pc = "race"
  /\ casc = "done" /\ ~succeeded(fbRes)
  /\ pc' = "awaitPrimary"
  /\ UNCHANGED <<cand, result, stop, depth, win, primVars, cascVars, ctx, due, stored, sent>>

primarySettles ==
  /\ pc = "awaitPrimary" /\ prim = "ready"
  /\ LET res == selectProduceResult(primRes, fbRes)
     IN  return(res, IF succeeded(primRes) THEN 1 ELSE attempts, finalStop(res, fbStop), FALSE)
  /\ UNCHANGED <<cand, primVars, cascVars, ctx, due, stored, sent>>

\* The deferred cancel of workCtx unwinds whatever still runs.  Its results go
\* to buffered channels nobody reads, so nothing of it is followed further.
Cascade ==
  \/ loopCtxDone \/ waveExhausted \/ waveDispatched \/ waveCtxDone \/ cascadeStops
  \/ \E leg \in legs : collectLeg(leg)

Settle ==
  \/ primaryWins \/ primaryFails \/ primaryFailsInRace \/ cascadeSettles
  \/ fallbackWins \/ fallbackFails \/ primarySettles

Next ==
  /\ pc # "returned"
  /\ \/ start \/ hedgeTimerFires \/ Settle
     \/ primaryReturns \/ Cascade
     \/ cancelCtx \/ deadlineReached \/ deadlineFires

Spec == Init /\ [][Next]_vars

\* Goroutines run, and every attempt is bounded by its own deadline.  Neither a
\* cancellation nor the hedge timer is needed for the call to end.
Fairness ==
  /\ WF_vars(start) /\ WF_vars(primaryReturns) /\ WF_vars(Cascade) /\ WF_vars(Settle)

FairSpec == Spec /\ Fairness

-----------------------------------------------------------------------------
TypeOK ==
  /\ cand \in [Parts -> CandidateLists]
  /\ pc \in {"start", "wait", "armed", "race", "cascade", "awaitPrimary", "returned"}
  /\ prim \in {"off", "running", "ready"}
  /\ primRes \in Results /\ primErr \in SUBSET Errors
  /\ casc \in {"off", "loop", "collect", "ended", "done"}
  /\ acc \in Accumulators
  /\ tried \in [Parts -> SUBSET Agents]
  /\ legs \subseteq [agent : Agents, own : SUBSET Parts]
  /\ attempts \in Nat
  /\ fbStop \in Stops /\ fbRes \in Results
  /\ ctx \in {"live", "canceled", "deadline"} /\ due \in BOOLEAN
  /\ result \in Results /\ stop \in Stops /\ depth \in Nat /\ win \in BOOLEAN
  /\ stored \subseteq Parts /\ sent \in [Parts -> Seq(Agents)]

Returned == pc = "returned"

\* The caller is told a partition succeeded (recordErrFromResult finds no error,
\* which it also does for a partition the response omits) only if some attempt
\* acknowledged it in a response without error.
NoFalseAck ==
  Returned => \A p \in Parts : ~recordFails(result, p) => p \in stored

\* Nothing is given up that was or can still be won.  What a wave already landed is
\* not reported as failed because a later wave, the primary or the context failed
\* afterwards; and the call fails only when the primary has answered with a failure
\* and the cascade has ended with one.
FailsOnlyWhenAllFailed ==
  Returned =>
    /\ \A p \in acc.resolved : ~recordFails(result, p)
    /\ ~succeeded(result) =>
         /\ prim = "ready" /\ ~succeeded(primRes)
         /\ casc = "done" /\ ~succeeded(fbRes)

\* No partition is sent to an agent twice or to more than MaxHedgeAgents agents,
\* the racing primary included, and the attempt depth is the length of the
\* longest such path.
AttemptsBounded ==
  /\ \A p \in Parts : /\ Len(sent[p]) <= MaxHedgeAgents
                     /\ \A j, k \in DOMAIN sent[p] : sent[p][j] = sent[p][k] => j = k
  /\ pc # "start" => /\ \A p \in Parts : Len(sent[p]) <= attempts
                     /\ \E p \in Parts : Len(sent[p]) = attempts

\* Every failed call has a cause, the one classifyProduceStop and finalStop rank
\* first: it never falls through to the internal-error bucket, it is booked as out
\* of candidates only if its deadline had not passed, and as canceled only if its
\* ctx was.
CauseIsRanked ==
  Returned /\ ~succeeded(result) =>
    /\ stop # "none"
    /\ exhausted(stop) => ~due /\ ctx = "live"
    /\ stop = "canceled" => ctx = "canceled"
    /\ stop = "writeTimeout" => due
    /\ stop = "terminalError" => acc.aborted \/ ~retriable(primErr)

\* The call returns.
CallReturns == <>Returned
=============================================================================
