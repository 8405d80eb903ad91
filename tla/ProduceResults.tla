--------------------------- MODULE ProduceResults ---------------------------
(***************************************************************************)
(* produce_result.go, and what client.go and produce.go read out of a      *)
(* result: the outcome of a produce attempt, its classification, and the   *)
(* accumulator that merges the outcomes of several attempts.               *)
(*                                                                         *)
(* An error is the set of the errors in its wrap chain, {} when nil, so    *)
(* errors.Is is membership and wrapping is union.  "retriable" stands for  *)
(* retriable Kafka codes and wire errors of one agent, "transport" for     *)
(* kgo's retryable broker errors (the one class whose Kafka code is        *)
(* UNKNOWN_SERVER_ERROR), "fatal" for everything that is not retried.      *)
(***************************************************************************)
EXTENDS FiniteSets

CONSTANT Parts   \* the (topic, partition) pairs of one call

Codes == {"ok", "retriable", "fatal"}
Errors == {"canceled", "deadline", "retriable", "transport", "fatal",
           "empty", "incomplete", "recordTimeout"}

\* A response: the ErrorCode of each partition it reports on.
Responses == UNION {[P -> Codes] : P \in SUBSET Parts}
NoResponse == [p \in {} |-> "ok"]

\* A ProduceResult; has says whether resp is not nil.
Results == [has : BOOLEAN, codes : Responses, err : SUBSET Errors]

RespResult(codes) == [has |-> TRUE, codes |-> codes, err |-> {}]
ErrResult(err) == [has |-> FALSE, codes |-> NoResponse, err |-> err]

BadParts(codes) == {p \in DOMAIN codes : codes[p] # "ok"}

-----------------------------------------------------------------------------
\* scopeProduceResultToPartitions(res, own).error(): the result's own error, or
\* the code of the first own partition that has one.  Which is first depends on
\* the order of the response, so this is the set of the errors it may be.
scopedErrors(res, own) ==
  IF res.err # {} THEN {res.err}
  ELSE IF ~res.has THEN {{"empty"}}
  ELSE IF BadParts(res.codes) \cap own = {} THEN {{}}
  ELSE {{res.codes[p]} : p \in BadParts(res.codes) \cap own}

\* ProduceResult.error(), likewise; parseProduceResponse reads all partitions.
resultErrors(res) == scopedErrors(res, Parts)

succeeded(res) == resultErrors(res) = {{}}

\* getProduceResultErr(err).retriable.  A canceled ctx is tested first.
retriable(err) ==
  "canceled" \notin err /\ err \cap {"deadline", "retriable", "transport"} # {}

\* getProduceResultErr(err).code, or REQUEST_TIMED_OUT when no error was seen.
syntheticCode(err) ==
  IF err = {} \/ err \cap {"canceled", "deadline", "retriable"} # {}
  THEN "retriable" ELSE "fatal"

\* Mutant: no coverage check.
withCoverageCheck_none(res) == res

\* withCoverageCheck: a response that omits a requested partition is an error.
withCoverageCheck(res) ==
  IF res.err = {} /\ ~(res.has /\ Parts \subseteq DOMAIN res.codes)
  THEN [res EXCEPT !.err = {"incomplete"}] ELSE res

\* recordErrFromResult(res, p) # nil: the response is authoritative when present,
\* and a partition it does not mention has no error.
recordFails(res, p) ==
  IF res.has THEN p \in BadParts(res.codes) ELSE res.err # {}

-----------------------------------------------------------------------------
(***************************************************************************)
(* produceResultAccumulator.  failed holds "none" for no entry; a resolved *)
(* entry always has code "ok".                                             *)
(***************************************************************************)
Accumulators ==
  [pending : SUBSET Parts, resolved : SUBSET Parts,
   failed : [Parts -> {"none", "retriable", "fatal"}],
   lastErr : SUBSET Errors, aborted : BOOLEAN]

newAccumulator ==
  [pending |-> Parts, resolved |-> {}, failed |-> [p \in Parts |-> "none"],
   lastErr |-> {}, aborted |-> FALSE]

\* A leg that sent own and whose scoped error is err # {}: nothing is resolved.
accumulateError(acc, res, own, err) ==
  [acc EXCEPT
    !.lastErr = err,
    !.aborted = @ \/ ~retriable(err),
    !.failed = [p \in Parts |-> IF p \in BadParts(res.codes) \cap own \cap acc.pending
                                THEN res.codes[p] ELSE @[p]]]

\* A leg without error: its own partitions in the response are resolved.
accumulateSuccess(acc, res, own) ==
  LET R == own \cap DOMAIN res.codes
  IN  [acc EXCEPT !.pending = @ \ R,
                  !.resolved = @ \cup R,
                  !.failed = [p \in Parts |-> IF p \in R THEN "none" ELSE @[p]]]

accumulate(acc, res, own, err) ==
  IF err # {} THEN accumulateError(acc, res, own, err)
              ELSE accumulateSuccess(acc, res, own)

accDone(acc) == acc.pending = {} \/ acc.aborted

\* responseLocked: one entry per partition, real where known, else synthesized.
accResponse(acc) ==
  [p \in acc.resolved \cup acc.pending |->
     IF p \in acc.resolved THEN "ok"
     ELSE IF acc.failed[p] # "none" THEN acc.failed[p]
     ELSE syntheticCode(acc.lastErr)]

accResult(acc) ==
  [has |-> TRUE, codes |-> accResponse(acc),
   err |-> IF acc.pending = {} THEN {} ELSE {"recordTimeout"} \cup acc.lastErr]

\* Mutant: the primary's response is kept when both have an error.
selectProduceResult_primaryResp(primary, fallback) ==
  IF succeeded(primary) THEN primary
  ELSE IF fallback.err = {} THEN fallback
  ELSE [primary EXCEPT !.err = @ \cup fallback.err]

selectProduceResult(primary, fallback) ==
  IF succeeded(primary) THEN primary
  ELSE IF fallback.err = {} THEN fallback
  ELSE IF primary.err # {}
       THEN [has |-> fallback.has, codes |-> fallback.codes,
             err |-> primary.err \cup fallback.err]
  ELSE IF fallback.has THEN fallback ELSE primary
=============================================================================
