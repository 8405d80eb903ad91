--------------------------- MODULE ClientProduce ---------------------------
(***************************************************************************)
(* WarpstreamClient.ProduceSync and Produce (client.go).  The records of a *)
(* ProduceSync are checked, grouped and routed per partition, handed to    *)
(* the buffer, and answered position by position when all groups have      *)
(* completed; a caller may pass the same record several times.  Produce    *)
(* takes one record and answers it with a promise.  Both count records.    *)
(*                                                                         *)
(* The buffer is what RecordBuffer shows it to be: it calls the done of    *)
(* each group once, from any goroutine, possibly before MultiAdd returns.  *)
(* Timestamps, stamped on accepted records, are data of RecordBatches.     *)
(***************************************************************************)
EXTENDS Integers, Sequences, FiniteSets

CONSTANTS
  Records,    \* *kgo.Record pointers
  PartOf,     \* [Records -> partitions]
  TooLarge,   \* SUBSET Records: above BatchMaxBytes on their own
  Inputs,     \* the record slices a caller may pass to ProduceSync
  Singles,    \* SUBSET Records: those passed to Produce
  MaxRecords  \* bound on the records submitted

ASSUME ClientAssumption ==
  /\ DOMAIN PartOf = Records /\ TooLarge \subseteq Records
  /\ Inputs \subseteq Seq(Records) \ {<< >>}
  /\ Singles \subseteq Records /\ MaxRecords \in Nat

VARIABLES
  pc,        \* "idle", "filter", "route", "add", "wait", "copy", "hooks"
  input,     \* records
  results,   \* [1..Len(input) -> slot]: kgo.ProduceResults
  wg,        \* the WaitGroup's counter
  routed,    \* partitions with an agent
  rejected,  \* partitions without
  inflight,  \* routed partitions whose done has not been called
  nudged,    \* whether a metadata refresh was asked for
  fired,     \* the errors the unbuffered hook was called with, in order
  verdict,   \* history: [partitions -> what the call was told of them]
  promise,   \* [Singles -> "none", "buffered", or what the promise was called with]
  count,     \* the counters: records submitted, rejected by reason, and failed
  acked      \* history: records reported as produced

callVars == <<pc, input, results, wg, routed, rejected, inflight, fired, verdict>>
vars == <<callVars, nudged, promise, count, acked>>

Parts == {PartOf[r] : r \in Records}
Unset == [rec |-> "none", err |-> "none"]
Outcomes == {"ok", "failed"}

Init ==
  /\ pc = "idle" /\ input = << >> /\ results = << >> /\ wg = 0
  /\ routed = {} /\ rejected = {} /\ inflight = {} /\ nudged = FALSE
  /\ fired = << >> /\ verdict = [p \in Parts |-> "none"]
  /\ promise = [r \in Singles |-> "none"] /\ acked = 0
  /\ count = [total |-> 0, tooLarge |-> 0, noAgent |-> 0, failed |-> 0]

-----------------------------------------------------------------------------
Positions == DOMAIN input
okIndices == {i \in Positions : input[i] \notin TooLarge}
OkParts == {PartOf[input[i]] : i \in okIndices}

\* The last position of a record: the one completions write.
indexOf(r) == CHOOSE i \in okIndices : input[i] = r /\ \A j \in okIndices : input[j] = r => j <= i

\* The positions whose records are in one of the partitions P.
InParts(P) == {i \in okIndices : PartOf[input[i]] \in P}

\* write: the slots of the records of partitions P, and one wg.Done for each.
write(P, err) ==
  /\ results' = [i \in Positions |->
                   IF i \in InParts(P) /\ i = indexOf(input[i])
                   THEN [rec |-> input[i], err |-> err] ELSE results[i]]
  /\ wg' = wg - Cardinality(InParts(P))
  /\ verdict' = [p \in Parts |-> IF p \in P THEN err ELSE verdict[p]]

ProduceSync(in) ==
  /\ count.total + Len(in) <= MaxRecords
  /\ pc = "idle" /\ pc' = "filter"
  /\ count' = [count EXCEPT !.total = @ + Len(in)]
  /\ input' = in /\ results' = [i \in DOMAIN in |-> Unset]
  /\ routed' = {} /\ rejected' = {}
  /\ fired' = << >> /\ verdict' = [p \in Parts |-> "none"]
  /\ UNCHANGED <<wg, inflight, nudged, promise, acked>>

\* Mutant: the WaitGroup counts the positions already answered too.
waitFor_all == Len(input)

waitFor == Cardinality(okIndices)

\* Records that are too large are answered; the call waits for the others.
filter ==
  /\ pc = "filter"
  /\ results' = [i \in Positions |-> IF i \in okIndices THEN Unset
                                     ELSE [rec |-> input[i], err |-> "tooLarge"]]
  /\ wg' = waitFor
  /\ count' = [count EXCEPT !.tooLarge = @ + Cardinality(Positions \ okIndices)]
  /\ pc' = IF okIndices = {} THEN "copy" ELSE "route"
  /\ UNCHANGED <<input, routed, rejected, inflight, nudged, fired, verdict, promise, acked>>

\* routeRecords looks up each partition once; the first miss asks for a refresh.
route(p, hasAgent) ==
  /\ pc = "route" /\ p \in OkParts \ (routed \cup rejected)
  /\ IF hasAgent THEN routed' = routed \cup {p} /\ UNCHANGED <<rejected, nudged>>
     ELSE rejected' = rejected \cup {p} /\ nudged' = TRUE /\ UNCHANGED routed
  /\ UNCHANGED <<pc, input, results, wg, inflight, fired, verdict, promise, count, acked>>

\* The groups without an agent are answered.
reject ==
  /\ pc = "route" /\ OkParts = routed \cup rejected
  /\ write(rejected, "noAgent")
  /\ count' = [count EXCEPT !.noAgent = @ + Cardinality(InParts(rejected))]
  /\ pc' = IF routed = {} THEN "copy" ELSE "add"
  /\ UNCHANGED <<input, routed, rejected, inflight, nudged, fired, promise, acked>>

\* buffer.MultiAdd(routed)
multiAdd ==
  /\ pc = "add" /\ pc' = "wait"
  /\ inflight' = routed
  /\ UNCHANGED <<input, results, wg, routed, rejected, nudged, fired, verdict, promise, count, acked>>

\* Mutant: a failed group counts once.
settle_once(n, err) ==
  /\ count' = IF err = "ok" THEN count ELSE [count EXCEPT !.failed = @ + 1]
  /\ acked' = IF err = "ok" THEN acked + n ELSE acked

\* The completion of n records that were dispatched.
settle(n, err) ==
  /\ count' = IF err = "ok" THEN count ELSE [count EXCEPT !.failed = @ + n]
  /\ acked' = IF err = "ok" THEN acked + n ELSE acked

\* The done of a group: perPartitionDone, then write.
done(p, err) ==
  /\ p \in inflight /\ inflight' = inflight \ {p}
  /\ settle(Cardinality(InParts({p})), err)
  /\ write({p}, err)
  /\ UNCHANGED <<pc, input, routed, rejected, nudged, fired, promise>>

wait ==
  /\ pc = "wait" /\ wg = 0 /\ pc' = "copy"
  /\ UNCHANGED <<input, results, wg, routed, rejected, inflight, nudged, fired, verdict, promise, count, acked>>

\* Mutant: repeated positions are not filled.
copied_none(i) == results[i]

\* The deferred copy to the other positions of a repeated record.
copied(i) == IF i \in okIndices THEN results[indexOf(input[i])] ELSE results[i]

copy ==
  /\ pc = "copy" /\ pc' = "hooks"
  /\ results' = [i \in Positions |-> copied(i)]
  /\ UNCHANGED <<input, wg, routed, rejected, inflight, nudged, fired, verdict, promise, count, acked>>

\* The deferred unbuffered hooks, in input order; the call returns.
fireUnbuffered ==
  /\ pc = "hooks" /\ pc' = "idle"
  /\ fired' = [i \in Positions |-> results[i].err]
  /\ UNCHANGED <<input, results, wg, routed, rejected, inflight, nudged, verdict, promise, count, acked>>

\* routeRecord: a miss asks for a refresh.
routeRecord(hasAgent) == nudged' = (nudged \/ ~hasAgent)

\* Produce: a record that is too large or has no agent is answered at once, and
\* any other one is added to the buffer.
Produce(r, hasAgent) ==
  /\ count.total < MaxRecords /\ promise[r] # "buffered"
  /\ LET reason == IF r \in TooLarge THEN "tooLarge" ELSE "noAgent"
         ok == r \notin TooLarge /\ hasAgent
     IN  /\ promise' = [promise EXCEPT ![r] = IF ok THEN "buffered" ELSE reason]
         /\ count' = IF ok THEN [count EXCEPT !.total = @ + 1]
                     ELSE [count EXCEPT !.total = @ + 1, ![reason] = @ + 1]
  /\ IF r \in TooLarge THEN UNCHANGED nudged ELSE routeRecord(hasAgent)
  /\ UNCHANGED <<callVars, acked>>

\* The buffer resolves it: the unbuffered hook, then the promise.
promiseDone(r, err) ==
  /\ promise[r] = "buffered" /\ promise' = [promise EXCEPT ![r] = err]
  /\ settle(1, err)
  /\ UNCHANGED <<callVars, nudged>>

CallStep == filter \/ (\E p \in Parts, a \in BOOLEAN : route(p, a)) \/ reject
            \/ multiAdd \/ wait \/ copy \/ fireUnbuffered

Next ==
  \/ \E in \in Inputs : ProduceSync(in)
  \/ CallStep
  \/ \E p \in Parts, e \in Outcomes : done(p, e)
  \/ \E r \in Singles, a \in BOOLEAN : Produce(r, a)
  \/ \E r \in Singles, e \in Outcomes : promiseDone(r, e)

Spec == Init /\ [][Next]_vars

\* The caller's goroutine runs, and the buffer resolves every promise
\* (ClientClose, ClientSettles).
FairSpec == Spec /\ WF_vars(CallStep) /\ \A p \in Parts : WF_vars(\E e \in Outcomes : done(p, e))

-----------------------------------------------------------------------------
\* wg never goes below zero, which would panic.
TypeOK ==
  /\ pc \in {"idle", "filter", "route", "add", "wait", "copy", "hooks"}
  /\ wg >= 0 /\ DOMAIN results = Positions
  /\ routed \cup rejected \subseteq Parts /\ inflight \subseteq routed
  /\ nudged \in BOOLEAN /\ Len(fired) \in {0, Len(input)}

\* Results are in input order and each record has its own outcome: on return every
\* position, those of a repeated record included, holds its record and what its
\* partition was told (or that it was too large), and the unbuffered hook was
\* called once for each position with that error.  No group is still in flight, so
\* no late completion races the caller's reads.
EveryPositionAnswered ==
  pc = "idle" =>
    /\ inflight = {}
    /\ \A i \in Positions :
         LET err == IF input[i] \in TooLarge THEN "tooLarge" ELSE verdict[PartOf[input[i]]]
         IN  err # "none" /\ results[i] = [rec |-> input[i], err |-> err] /\ fired[i] = err

\* warpstream_produce_records_failed_total: "Records rejected before dispatch are
\* counted by warpstream_produce_records_rejected_total instead".  Every record
\* submitted, repeated ones as often as they are passed, is rejected for one reason,
\* failed, produced or still to be answered, and never two of these; and none is
\* rejected for want of an agent without a refresh having been asked for.
RecordsAccountedFor ==
  LET unanswered == (IF pc = "filter" THEN Len(input) ELSE wg)
                    + Cardinality({r \in Singles : promise[r] = "buffered"})
  IN  /\ count.total = count.tooLarge + count.noAgent + count.failed + acked + unanswered
      /\ count.noAgent > 0 => nudged

\* ProduceSync returns, whatever mix of rejected, repeated and routed records.
CallReturns == (pc = "filter") ~> (pc = "idle")
=============================================================================
