------------------------- MODULE ClientCloseProofs -------------------------
(***************************************************************************)
(* Closing the client, and hedge legs sharing the hedge buffer, for every  *)
(* number of flushes, legs, agents and calls of Close.                     *)
(*                                                                         *)
(* Every step of the client is a step of the hedge buffer or leaves it     *)
(* alone, so that IInv of RecordBufferProofs holds here.  OrderInv relates *)
(* the stage of WarpstreamClient.Close to the hedge buffer's own Close;    *)
(* ScopeInv follows the batches of a leg from the call to the response.    *)
(***************************************************************************)
EXTENDS ClientClose, RecordBufferProofs

\* The stage of closeOnce and the state of the hedge buffer go together: it is open
\* while a flush of the main buffer runs.
StageInv ==
  /\ flush \in [Calls -> {"none", "running", "late", "done"}]
  /\ mainClosed \in BOOLEAN
  /\ stage \in {"open", "main", "hedger", "closed"}
  /\ waiting \in Nat /\ returned \in Nat
  /\ mainClosed <=> stage # "open"
  /\ closer = "open" <=> stage \in {"open", "main"}
  /\ closer = "closed" <=> stage = "closed"
  /\ returned > 0 => stage = "closed"
  /\ stage \in {"hedger", "closed"} => \A c \in Calls : flush[c] # "running"

\* Nobody is told that the hedge buffer is closed before it is.
OrderInv ==
  /\ StageInv
  /\ legRes \in [Calls -> Result]
  /\ \A n \in Agents : aClosed[n] => closer # "open"
  /\ \A f \in flights : f.res.kind \in {"none", "err", "resp"}
  /\ closer = "open" => \A c \in Calls : legRes[c].kind # "closed"

-----------------------------------------------------------------------------
\* The batch of item i: items of a leg have one chunk.
batch(i) == <<i, 1>>

\* A flush that carries the entry has not returned.
awaited(e) == \E f \in flights : f.res.kind = "none" /\ e \in elems(f.entries)

\* What became of an entry is known: it was handed over, and its flush has returned
\* or it was dropped.
over(e) == pc[CallOf[e[1]]] # "idle" /\ ~ahead(e) /\ ~batched(e) /\ ~awaited(e)

\* All entries of the leg of e are in s too.
together(e, s) == \A j \in ItemsOf(CallOf[e[1]]) : batch(j) \in elems(s)

\* The result says of the entry whether it landed.
tells(res, e) == e \in landed <=> PartOf[e[1]] \in res.ok

\* A flush has reported to nobody before it returns; after that what became of its
\* entries is known and is what the response says.
ReturnInv ==
  \A f \in flights :
    /\ f.res.kind = "none" => f.next = 1
    /\ f.res.kind # "none" => \A e \in elems(f.entries) : over(e)
    /\ f.res.kind = "resp" => /\ f.res.ok \cap f.res.bad = {}
                              /\ \A e \in elems(f.entries) : tells(f.res, e)

\* Only what a flush carried has landed, and only what a call handed over is in a
\* batch or a flush.
LandInv ==
  /\ \A e \in landed : over(e)
  /\ \A e \in Entry : pc[CallOf[e[1]]] = "idle" => ~outstanding(e) /\ ~awaited(e)

\* A leg travels in one flush: what its call has added is in the batch it is adding
\* to, and it is all there when the lock is released.
WholeInv ==
  /\ \A f \in flights : \A e \in elems(f.entries) : together(e, f.entries)
  /\ \A n \in Agents : \A e \in elems(pending[n]) :
       mu[n] # CallOf[e[1]] => together(e, pending[n])
  /\ \A n \in Agents : mu[n] # None =>
       \A j \in ItemsOf(mu[n]) : ahead(batch(j)) \/ batch(j) \in elems(pending[n])

\* A leg that got a response got the one of the flush that carried all it sent.
AnswerInv ==
  \A c \in Calls : legRes[c].kind = "resp" =>
    /\ legRes[c].ok \cap legRes[c].bad = {}
    /\ \A i \in ItemsOf(c) : over(batch(i)) /\ tells(legRes[c], batch(i))

\* A call has only bins to dispatch that hold something.
LeftInv == \A c \in Calls : \A n \in left[c] : Bin[c][n] # << >>

ScopeInv == BinInv /\ LeftInv /\ PlaceInv /\ ReturnInv /\ LandInv /\ WholeInv

\* No overflow of the byte cap cuts a leg in two: a call that has added a part of
\* its leg has room for the next one.
LegsFit ==
  \A c \in Calls : buf[c] # None /\ mu[buf[c]] = c /\ 1 < cur[c][1]
                   /\ cur[c][1] <= Len(Bin[c][buf[c]]) =>
    ~overflows(buf[c], WireBytes(<<NextItem(c), cur[c][2]>>))

-----------------------------------------------------------------------------
(***************************************************************************)
(* Steps of the client, seen from the hedge buffer.                        *)
(***************************************************************************)
\* What a step of the client does to the hedge buffer and to the legs' results.
LEMMA ClientStep ==
  ASSUME [CNext]_cvars
  PROVE  /\ [Next]_vars
         /\ legRes' = legRes \/ legRes' = [c \in Calls |-> legDone(c)]
<1>1. CASE bufferStep
  BY <1>1, Zenon DEF bufferStep, Next
<1>2. ASSUME NEW c \in Calls, startFlush(c) \/ addLeg(c) \/ writeTimeout(c) \/ produceReturns(c)
      PROVE  [Next]_vars /\ (legRes' = legRes \/ legRes' = [d \in Calls |-> legDone(d)])
  BY <1>2, Zenon DEF startFlush, addLeg, writeTimeout, produceReturns, hvars, Next
<1>3. CASE callClose \/ closeDone \/ closeHedger \/ clientClosed
  BY <1>3, Zenon DEF callClose, closeDone, closeHedger, clientClosed, hvars, Next
<1>4. CASE UNCHANGED cvars
  BY <1>4, Zenon DEF cvars, hvars
<1> QED
  BY <1>1, <1>2, <1>3, <1>4, Zenon DEF CNext

\* The invariant of the buffer holds in the client.
LEMMA ClientIInv == IInv /\ [CNext]_cvars => IInv'
BY ClientStep, StepIInv, Zenon

\* wrappedDone calls the done of the items it is given, if at all, with their result.
LEMMA WrappedDoneFires ==
  ASSUME NEW S, NEW res, wrappedDone(S, res), NEW i \in Items, fires'[i] # fires[i]
  PROVE  i \in S /\ outcome'[i] = res[i]
BY Zenon DEF wrappedDone

\* A leg's flush reports its result to the one chunk of an item.
LEMMA DeliverFires ==
  ASSUME IInv, NEW f \in flights, deliver(f), NEW i \in Items, fires'[i] # fires[i]
  PROVE  /\ f.res.kind # "none"
         /\ f.entries[f.next][1] = i /\ outcome'[i] = f.res
<1>1. PICK j : j = f.entries[f.next][1]
  BY Zenon
<1>2. j \in Items
  BY <1>1, PlaceTypes, SeqElement, EntryIsChunk, Zenon
<1>3. Len(Chunks[j]) = 1
  BY <1>2, LegAssumption, Zenon
<1>4. wrappedDone({j}, [k \in {j} |-> f.res])
  BY <1>1, <1>3, Zenon DEF deliver, chunkDone
<1>5. i \in {j} /\ outcome'[i] = [k \in {j} |-> f.res][i]
  BY <1>4, WrappedDoneFires, Zenon
<1> QED
  BY <1>1, <1>5, Zenon DEF deliver

\* Who calls the done of an item, and with what: a canceled ctx, a closed buffer, or
\* the flush that reports to it.
LEMMA FiredBy ==
  ASSUME IInv, [Next]_vars, NEW i \in Items, fires'[i] # fires[i]
  PROVE  \/ outcome'[i].kind = "ctx"
         \/ outcome'[i].kind = "closed" /\ (cbClosed \/ \E n \in Agents : aClosed[n])
         \/ \E f \in flights : /\ deliver(f) /\ f.res.kind # "none"
                               /\ f.entries[f.next][1] = i /\ outcome'[i] = f.res
<1>0. ErrResult("ctx").kind = "ctx" /\ ErrResult("closed").kind = "closed"
  BY Zenon DEF ErrResult
<1>1. ASSUME NEW S, NEW k, failItems(S, k) PROVE outcome'[i] = ErrResult(k)
  <2>1. i \in S /\ outcome'[i] = [j \in S |-> ErrResult(k)][i]
    BY <1>1, WrappedDoneFires, Zenon DEF failItems
  <2> QED
    BY <2>1, Zenon
<1>2. ASSUME NEW c \in Calls, rejectCanceled(c) PROVE outcome'[i].kind = "ctx"
  BY <1>0, <1>1, <1>2, Zenon DEF rejectCanceled
<1>3. ASSUME NEW c \in Calls, NEW n \in Agents, agentBufferForClosed(c, n)
      PROVE  outcome'[i].kind = "closed" /\ cbClosed
  BY <1>0, <1>1, <1>3, Zenon DEF agentBufferForClosed
<1>4. ASSUME NEW c \in Calls, multiAddClosed(c)
      PROVE  outcome'[i].kind = "closed" /\ \E n \in Agents : aClosed[n]
  <2>1. buf[c] \in Agents /\ aClosed[buf[c]]
    BY <1>4, ZenonT(40) DEF multiAddClosed, IInv, TypeOK
  <2> QED
    BY <1>0, <1>1, <1>4, <2>1, Zenon DEF multiAddClosed, failChunks
<1>5. ASSUME NEW j \in Items, ctxWatch(j) PROVE outcome'[i].kind = "ctx"
  <2>1. DOMAIN fires = Items /\ DOMAIN outcome = Items
    BY Zenon DEF IInv, TypeOK
  <2>2. /\ outcome' = [outcome EXCEPT ![j] = ErrResult("ctx")]
        /\ fires' = [fires EXCEPT ![j] = 1]
    BY <1>5, Zenon DEF ctxWatch
  <2>3. i = j
    BY <2>1, <2>2, Zenon
  <2> QED
    BY <1>0, <2>1, <2>2, <2>3, Zenon
<1>6. ASSUME NEW f \in flights, deliver(f)
      PROVE  f.res.kind # "none" /\ f.entries[f.next][1] = i /\ outcome'[i] = f.res
  BY <1>6, DeliverFires, Zenon
<1>7. ASSUME \/ \E c \in Calls : \/ wrap(c) \/ cancel(c) \/ binByAgent(c) \/ multiAddLock(c)
                                 \/ addToNextProduceLocked(c) \/ maybeStartNextFlushTimerLocked(c)
                                 \/ \E n \in Agents : agentBufferFor(c, n)
             \/ \E n \in Agents : lingerElapses(n) \/ timerFlush(n) \/ closeAgent(n)
             \/ \E f \in flights : flushReturns(f)
             \/ Close \/ closeReturns \/ UNCHANGED vars
      PROVE  FALSE
  <2>1. fires' = fires
    BY <1>7, Zenon DEF wrap, cancel, binByAgent, multiAddLock, addToNextProduceLocked,
         maybeStartNextFlushTimerLocked, agentBufferFor, lingerElapses, timerFlush, closeAgent,
         flushReturns, Close, closeReturns, doneVars, vars
  <2> QED
    BY <2>1, Zenon
<1> QED
  BY <1>2, <1>3, <1>4, <1>5, <1>6, <1>7, Zenon DEF Next, CallStep

\* The same of the result of a leg, which is that of the first of its items.
LEMMA LegAnsweredBy ==
  ASSUME IInv, [CNext]_cvars, NEW c \in Calls, DOMAIN legRes = Calls
  PROVE  \/ legRes'[c] = legRes[c]
         \/ legRes'[c].kind = "ctx"
         \/ legRes'[c].kind = "closed" /\ (cbClosed \/ \E n \in Agents : aClosed[n])
         \/ \E f \in flights : /\ deliver(f) /\ f.res.kind # "none"
                               /\ f.entries[f.next][1] \in ItemsOf(c) /\ legRes'[c] = f.res
<1> SUFFICES ASSUME legRes'[c] # legRes[c]
             PROVE  \/ legRes'[c].kind = "ctx"
                    \/ legRes'[c].kind = "closed" /\ (cbClosed \/ \E n \in Agents : aClosed[n])
                    \/ \E f \in flights : /\ deliver(f) /\ f.res.kind # "none"
                                          /\ f.entries[f.next][1] \in ItemsOf(c)
                                          /\ legRes'[c] = f.res
  BY Zenon
<1>1. legRes'[c] = legDone(c)
  BY ClientStep, Zenon
<1>2. Firing(c) # {} /\ legDone(c) = outcome'[CHOOSE i \in Firing(c) : TRUE]
  BY <1>1, Zenon DEF legDone
<1>3. PICK i : i = CHOOSE j \in Firing(c) : TRUE
  BY Zenon
<1>4. i \in Firing(c)
  BY <1>2, <1>3, Zenon
<1>5. i \in Items /\ i \in ItemsOf(c) /\ fires'[i] > fires[i]
  BY <1>4, Zenon DEF Firing, ItemsOf
<1>6. fires'[i] # fires[i]
  <2>1. fires[i] \in Nat
    BY <1>5, Zenon DEF IInv, TypeOK
  <2> QED
    BY <1>5, <2>1
<1>7. [Next]_vars
  BY ClientStep, Zenon
<1>8. \/ outcome'[i].kind = "ctx"
      \/ outcome'[i].kind = "closed" /\ (cbClosed \/ \E n \in Agents : aClosed[n])
      \/ \E f \in flights : /\ deliver(f) /\ f.res.kind # "none"
                            /\ f.entries[f.next][1] = i /\ outcome'[i] = f.res
  BY <1>5, <1>6, <1>7, FiredBy, Zenon
<1>9. legRes'[c] = outcome'[i]
  BY <1>1, <1>2, <1>3, Zenon
<1> QED
  BY <1>5, <1>8, <1>9, Zenon

-----------------------------------------------------------------------------
(***************************************************************************)
(* OrderInv is inductive.                                                  *)
(***************************************************************************)
\* A client that has just been created.
LEMMA InitOrder == CInit => IInv /\ OrderInv
<1> SUFFICES ASSUME CInit PROVE IInv /\ OrderInv
  BY Zenon
<1>1. IInv
  BY InitIInv, Zenon DEF CInit, HInit
<1>2. /\ closer = "open" /\ flights = {} /\ \A n \in Agents : ~aClosed[n]
      /\ legRes = [c \in Calls |-> NoResult]
      /\ flush = [c \in Calls |-> "none"] /\ mainClosed = FALSE /\ stage = "open"
      /\ waiting = 0 /\ returned = 0
  BY Zenon DEF CInit, HInit, Init
<1>3. legRes \in [Calls -> Result] /\ \A c \in Calls : legRes[c].kind = "none"
  BY <1>2, ErrResultType, Zenon DEF NoResult, ErrResult
<1>4. waiting \in Nat /\ returned \in Nat /\ ~(returned > 0)
  BY <1>2
<1> QED
  BY <1>1, <1>2, <1>3, <1>4, Zenon DEF OrderInv, StageInv

\* What flushes of the hedge buffer return with is an error or a response.
LEMMA FlightKinds ==
  ASSUME IInv, \A f \in flights : f.res.kind \in {"none", "err", "resp"}, [Next]_vars
  PROVE  \A f \in flights' : f.res.kind \in {"none", "err", "resp"}
<1>1. ASSUME NEW f \in flights, flushReturns(f)
      PROVE  \A g \in flights' : g.res.kind \in {"none", "err", "resp"}
  <2>1. PICK res \in [kind : {"resp"}, ok : SUBSET WireParts(f.entries),
                      bad : SUBSET WireParts(f.entries)] \cup {ErrResult("err")} :
          flights' = (flights \ {f}) \cup {[f EXCEPT !.res = res]}
    BY <1>1, Zenon DEF flushReturns
  <2>2. res.kind \in {"err", "resp"}
    BY <2>1 DEF ErrResult
  <2>3. [f EXCEPT !.res = res].res = res
    BY Zenon DEF IInv, TypeOK, Flight
  <2> QED
    BY <2>1, <2>2, <2>3, Zenon
<1>2. ASSUME NEW f \in flights, deliver(f)
      PROVE  \A g \in flights' : g.res.kind \in {"none", "err", "resp"}
  <2>1. \A g \in flights' : g \in flights \/ g = [f EXCEPT !.next = f.next + 1]
    BY <1>2, Zenon DEF deliver
  <2>2. [f EXCEPT !.next = f.next + 1].res = f.res
    BY Zenon DEF IInv, TypeOK, Flight
  <2> QED
    BY <2>1, <2>2, Zenon
<1>3. ASSUME NEW n, startFlushLocked(n)
      PROVE  \A g \in flights' : g.res.kind \in {"none", "err", "resp"}
  BY <1>3, FlushFlights, Zenon
<1>4. ASSUME NEW n \in Agents, timerFlush(n) \/ closeAgent(n)
      PROVE  \A g \in flights' : g.res.kind \in {"none", "err", "resp"}
  BY <1>3, <1>4, Zenon DEF timerFlush, closeAgent
<1>5. ASSUME NEW c \in Calls, addToNextProduceLocked(c)
      PROVE  \A g \in flights' : g.res.kind \in {"none", "err", "resp"}
  <2>1. startFlushLocked(buf[c]) \/ flights' = flights
    BY <1>5, Zenon DEF addToNextProduceLocked
  <2> QED
    BY <1>3, <2>1, Zenon
<1>6. ASSUME \/ \E c \in Calls : \/ wrap(c) \/ cancel(c) \/ rejectCanceled(c) \/ binByAgent(c)
                                 \/ multiAddLock(c) \/ multiAddClosed(c)
                                 \/ maybeStartNextFlushTimerLocked(c)
                                 \/ \E n \in Agents : agentBufferFor(c, n) \/ agentBufferForClosed(c, n)
             \/ \E i \in Items : ctxWatch(i)
             \/ \E n \in Agents : lingerElapses(n)
             \/ Close \/ closeReturns \/ UNCHANGED vars
      PROVE  flights' = flights
  BY <1>6, Zenon DEF wrap, cancel, rejectCanceled, binByAgent, multiAddLock, multiAddClosed,
       maybeStartNextFlushTimerLocked, agentBufferFor, agentBufferForClosed, ctxWatch,
       lingerElapses, Close, closeReturns, vars
<1> QED
  BY <1>1, <1>2, <1>4, <1>5, <1>6, Zenon DEF Next, CallStep

\* Only the client's Close closes the hedge buffer, and an agent's buffer is closed
\* only by that.
LEMMA CloserMoves ==
  ASSUME [CNext]_cvars, IInv
  PROVE  /\ closer' = closer \/ closeHedger \/ clientClosed
         /\ \A n \in Agents : aClosed'[n] => aClosed[n] \/ closer = "draining"
<1>1. ASSUME \/ \E c \in Calls : CallStep(c) \/ wrap(c) \/ cancel(c)
             \/ \E i \in Items : ctxWatch(i)
             \/ \E n \in Agents : lingerElapses(n) \/ timerFlush(n)
             \/ \E f \in flights : flushReturns(f) \/ deliver(f)
             \/ Close \/ closeReturns \/ UNCHANGED vars
      PROVE  aClosed' = aClosed
  BY <1>1, Zenon DEF CallStep, wrap, cancel, rejectCanceled, binByAgent, multiAddLock, multiAddClosed,
       addToNextProduceLocked, maybeStartNextFlushTimerLocked, agentBufferFor, agentBufferForClosed,
       ctxWatch, lingerElapses, timerFlush, flushReturns, deliver, Close, closeReturns, agentVars, vars
<1>2. ASSUME NEW n \in Agents, closeAgent(n)
      PROVE  closer' = closer /\ \A m \in Agents : aClosed'[m] => aClosed[m] \/ closer = "draining"
  BY <1>2, Zenon DEF closeAgent, closeVars
<1>3. \A n \in Agents : aClosed'[n] => aClosed[n] \/ closer = "draining"
  BY <1>1, <1>2, ClientStep, Zenon DEF Next
<1>4. ASSUME \/ \E c \in Calls : CallStep(c) \/ wrap(c) \/ cancel(c)
             \/ \E i \in Items : ctxWatch(i)
             \/ \E n \in Agents : lingerElapses(n) \/ timerFlush(n) \/ closeAgent(n)
             \/ \E f \in flights : flushReturns(f) \/ deliver(f)
             \/ UNCHANGED vars
      PROVE  closer' = closer
  BY <1>4, Zenon DEF CallStep, wrap, cancel, rejectCanceled, binByAgent, multiAddLock, multiAddClosed,
       addToNextProduceLocked, maybeStartNextFlushTimerLocked, agentBufferFor, agentBufferForClosed,
       ctxWatch, lingerElapses, timerFlush, closeAgent, flushReturns, deliver, closeVars, vars
<1>5. closer' = closer \/ closeHedger \/ clientClosed
  BY <1>4, Zenon DEF CNext, bufferStep, startFlush, addLeg, writeTimeout, produceReturns, callClose,
       closeDone, cvars, hvars
<1> QED
  BY <1>3, <1>5, Zenon

\* The results of legs are results.
LEMMA LegResType ==
  ASSUME IInv, legRes \in [Calls -> Result], [CNext]_cvars
  PROVE  legRes' \in [Calls -> Result]
<1>1. ASSUME NEW c \in Calls PROVE legDone(c) \in Result
  <2>1. outcome' \in [Items -> Result]
    BY ClientIInv, Zenon DEF IInv, TypeOK
  <2>2. Firing(c) # {} => (CHOOSE i \in Firing(c) : TRUE) \in Items
    BY Zenon DEF Firing, ItemsOf
  <2> QED
    BY <1>1, <2>1, <2>2, Zenon DEF legDone
<1> QED
  BY <1>1, ClientStep, Zenon

\* Flushes start only before Close, and the hedge buffer is closed when none runs.
LEMMA StepStage ==
  ASSUME IInv, StageInv, [CNext]_cvars
  PROVE  StageInv'
<1>1. ASSUME closer' = closer, UNCHANGED <<mainClosed, stage, waiting, returned>>,
             flush' \in [Calls -> {"none", "running", "late", "done"}],
             \A c \in Calls : flush'[c] = "running" => flush[c] = "running" \/ stage = "open"
      PROVE  StageInv'
  BY <1>1, Zenon DEF StageInv
<1>2. CASE bufferStep \/ UNCHANGED cvars
  <2>1. UNCHANGED <<flush, mainClosed, stage, waiting, returned>>
    BY <1>2, Zenon DEF bufferStep, clientVars, cvars
  <2>2. closer' = closer \/ stage' # stage
    BY CloserMoves, Zenon DEF closeHedger, clientClosed
  <2> QED
    BY <1>1, <2>1, <2>2, Zenon DEF StageInv
<1>3. ASSUME NEW c \in Calls, startFlush(c) \/ addLeg(c) \/ writeTimeout(c) \/ produceReturns(c)
      PROVE  StageInv'
  <2>1. UNCHANGED <<mainClosed, stage, waiting, returned>>
    BY <1>3, Zenon DEF startFlush, addLeg, writeTimeout, produceReturns, clientVars
  <2>2. closer' = closer
    BY <2>1, CloserMoves, Zenon DEF closeHedger, clientClosed
  <2>3. DOMAIN flush = Calls /\ flush[c] \in {"none", "running", "late", "done"}
    BY Zenon DEF StageInv
  <2>4. CASE startFlush(c)
    <3>1. stage = "open" /\ flush' = [flush EXCEPT ![c] = "running"]
      BY <2>4, Zenon DEF startFlush, StageInv
    <3> QED
      BY <1>1, <2>1, <2>2, <3>1, Zenon DEF StageInv
  <2>5. CASE addLeg(c) \/ writeTimeout(c) \/ produceReturns(c)
    <3>1. PICK s \in {"none", "running", "late", "done"} :
             flush' = [flush EXCEPT ![c] = s] /\ (s = "running" => flush[c] = "running")
      <4>1. CASE addLeg(c)
        <5>1. flush' = [flush EXCEPT ![c] = IF flush[c] = "late" THEN "done" ELSE flush[c]]
          BY <4>1, Zenon DEF addLeg
        <5> QED
          BY <2>3, <5>1, Zenon
      <4>2. CASE writeTimeout(c)
        <5>1. flush' = flush
          BY <4>2, Zenon DEF writeTimeout, clientVars
        <5>2. flush' = [flush EXCEPT ![c] = flush[c]]
          BY <5>1, Zenon DEF StageInv
        <5> QED
          BY <2>3, <5>2, Zenon
      <4>3. CASE produceReturns(c)
        <5>1. PICK s \in IF pc[c] = "idle" THEN {"late", "done"} ELSE {"done"} :
                 flush' = [flush EXCEPT ![c] = s]
          BY <4>3, Zenon DEF produceReturns
        <5>2. s \in {"late", "done"}
          BY <5>1, Zenon
        <5> QED
          BY <5>1, <5>2, Zenon
      <4> QED
        BY <2>5, <4>1, <4>2, <4>3, Zenon
    <3>2. flush' \in [Calls -> {"none", "running", "late", "done"}]
      BY <3>1, Zenon DEF StageInv
    <3>3. \A d \in Calls : flush'[d] = "running" => flush[d] = "running"
      BY <2>3, <3>1, Zenon
    <3> QED
      BY <1>1, <2>1, <2>2, <3>2, <3>3, Zenon
  <2> QED
    BY <1>3, <2>4, <2>5, Zenon
<1>4. CASE callClose
  <2>1. UNCHANGED <<flush, returned>> /\ waiting' = waiting + 1
    BY <1>4, Zenon DEF callClose
  <2>2. IF stage = "open" THEN stage' = "main" /\ mainClosed' = TRUE
                          ELSE UNCHANGED <<stage, mainClosed>>
    BY <1>4, Zenon DEF callClose
  <2>3. closer' = closer
    BY <1>4, Zenon DEF callClose, hvars, vars, closeVars
  <2>4. waiting' \in Nat
    BY <2>1 DEF StageInv
  <2> QED
    BY <2>1, <2>2, <2>3, <2>4, Zenon DEF StageInv
<1>5. CASE closeDone
  <2>1. UNCHANGED <<flush, mainClosed, stage>> /\ stage = "closed"
    BY <1>5, Zenon DEF closeDone
  <2>2. waiting' \in Nat /\ returned' \in Nat
    BY <1>5 DEF closeDone, StageInv
  <2>3. closer' = closer
    BY <1>5, Zenon DEF closeDone, hvars, vars, closeVars
  <2> QED
    BY <2>1, <2>2, <2>3, Zenon DEF StageInv
<1>6. CASE closeHedger
  <2>1. /\ stage = "main" /\ stage' = "hedger" /\ closer' = "draining"
        /\ \A c \in Calls : flush[c] # "running"
        /\ UNCHANGED <<flush, mainClosed, waiting, returned>>
    BY <1>6, Zenon DEF closeHedger, Close
  <2> QED
    BY <2>1, Zenon DEF StageInv
<1>7. CASE clientClosed
  <2>1. /\ stage = "hedger" /\ stage' = "closed" /\ closer' = "closed"
        /\ UNCHANGED <<flush, mainClosed, waiting, returned>>
    BY <1>7, Zenon DEF clientClosed, closeReturns
  <2> QED
    BY <2>1, Zenon DEF StageInv
<1> QED
  BY <1>2, <1>3, <1>4, <1>5, <1>6, <1>7, Zenon DEF CNext

\* The stages of Close and the hedge buffer stay in step.
LEMMA StepOrder == IInv /\ OrderInv /\ [CNext]_cvars => OrderInv'
<1> SUFFICES ASSUME IInv, OrderInv, [CNext]_cvars PROVE OrderInv'
  BY Zenon
<1>1. StageInv'
  BY StepStage, Zenon DEF OrderInv
<1>2. legRes' \in [Calls -> Result]
  BY LegResType, Zenon DEF OrderInv
<1>3. ASSUME closer' = "open" PROVE closer = "open"
  BY <1>3, CloserMoves, Zenon DEF closeHedger, clientClosed, Close, closeReturns
<1>4. \A n \in Agents : aClosed'[n] => closer' # "open"
  BY <1>3, CloserMoves, Zenon DEF OrderInv
<1>5. \A f \in flights' : f.res.kind \in {"none", "err", "resp"}
  BY ClientStep, FlightKinds, Zenon DEF OrderInv
<1>6. ASSUME closer' = "open", NEW c \in Calls PROVE legRes'[c].kind # "closed"
  <2>1. closer = "open" /\ ~cbClosed /\ (\A n \in Agents : ~aClosed[n]) /\ legRes[c].kind # "closed"
    BY <1>3, <1>6, Zenon DEF OrderInv, IInv, CloseOK
  <2>2. \A f \in flights : f.res.kind # "closed"
    BY Zenon DEF OrderInv
  <2>3. DOMAIN legRes = Calls
    BY Zenon DEF OrderInv
  <2>4. \/ legRes'[c] = legRes[c] \/ legRes'[c].kind = "ctx"
        \/ \E f \in flights : legRes'[c] = f.res
    BY <2>1, <2>3, LegAnsweredBy, Zenon
  <2> QED
    BY <2>1, <2>2, <2>4, Zenon
<1> QED
  BY <1>1, <1>2, <1>4, <1>5, <1>6, Zenon DEF OrderInv

\* The hedge buffer keeps its invariant in the client, and its Close comes when the
\* last flush of the main buffer is over.
THEOREM ClientInvariant == CSpec => [](IInv /\ OrderInv)
<1>1. CInit => IInv /\ OrderInv
  BY InitOrder, Zenon
<1>2. IInv /\ OrderInv /\ [CNext]_cvars => (IInv /\ OrderInv)'
  BY ClientIInv, StepOrder, Zenon
<1> QED
  BY <1>1, <1>2, PTL DEF CSpec

\* Closing the client never costs a running flush its hedge leg (client.go closes
\* the buffer of records before the hedger).
THEOREM RunningFlushesHedge == CSpec => []RunningKeepsHedging
<1>1. OrderInv => RunningKeepsHedging
  BY Zenon DEF OrderInv, StageInv, RunningKeepsHedging
<1> QED
  BY <1>1, ClientInvariant, PTL

\* When any call of WarpstreamClient.Close has returned, both buffers are drained:
\* no flush runs and no batch waits.
THEOREM CloseReturnsQuiet == CSpec => []ClosedIsQuiet
<1>1. IInv /\ OrderInv => ClosedIsQuiet
  <2> SUFFICES ASSUME IInv, OrderInv, returned > 0
               PROVE  /\ flights = {} /\ \A n \in Agents : pending[n] = << >>
                      /\ \A c \in Calls : flush[c] # "running"
    BY Zenon DEF ClosedIsQuiet
  <2>1. stage = "closed" /\ closer = "closed"
    BY Zenon DEF OrderInv, StageInv
  <2>2. known = {} /\ flights = {} /\ \A n \in closing : aClosed[n]
    BY <2>1, Zenon DEF IInv, CloseOK
  <2>3. \A n \in Agents : pending[n] = << >>
    BY <2>2, Zenon DEF IInv, CloseOK
  <2>4. \A c \in Calls : flush[c] # "running"
    BY <2>1, Zenon DEF OrderInv, StageInv
  <2> QED
    BY <2>2, <2>3, <2>4, Zenon
<1> QED
  BY <1>1, ClientInvariant, PTL

-----------------------------------------------------------------------------
(***************************************************************************)
(* ScopeInv is inductive as long as legs fit, one kind of step at a time.  *)
(***************************************************************************)
\* How the chunks of legs move in a step: from the call to the batch to the flush.
Moves ==
  /\ \A e \in Entry : ahead(e)' => ahead(e) \/ pc[CallOf[e[1]]] = "idle"
  /\ \A e \in Entry : batched(e)' => batched(e) \/ ahead(e)
  /\ \A e \in Entry : awaited(e)' => awaited(e) \/ batched(e)
  /\ \A e \in Entry : pc[CallOf[e[1]]] # "idle" => pc'[CallOf[e[1]]] # "idle"

\* Whether a chunk landed does not change once its flush has returned.
Keeps == \A e \in Entry : over(e) => (e \in landed' <=> e \in landed)

\* An item of a leg is one chunk.
LEMMA OneChunk ==
  /\ \A i \in Items : batch(i) \in Entry /\ batch(i)[1] = i
  /\ \A e \in Entry : e[1] \in Items /\ CallOf[e[1]] \in Calls /\ e = batch(e[1])
<1>1. \A i \in Items : DOMAIN Chunks[i] = {1}
  BY LegAssumption, BufferAssumption
<1>2. \A i \in Items : batch(i) \in Entry /\ batch(i)[1] = i
  BY <1>1 DEF batch, Entry
<1>3. \A e \in Entry : e[1] \in Items /\ e = batch(e[1])
  BY <1>1 DEF batch, Entry
<1>4. \A e \in Entry : CallOf[e[1]] \in Calls
  BY HasSpot, Zenon
<1> QED
  BY <1>2, <1>3, <1>4, Zenon

\* What is in flushes are entries.
LEMMA FlightEntries ==
  ASSUME IInv
  PROVE  /\ \A f \in flights : elems(f.entries) \subseteq Entry
         /\ landed \subseteq Entry
<1>1. ASSUME NEW s \in Seq(Entry) PROVE elems(s) \subseteq Entry
  BY DEF elems
<1> QED
  BY <1>1, PlaceTypes, Zenon DEF IInv, TypeOK

\* What is known of a chunk stays known.
LEMMA OverStays ==
  ASSUME Moves, NEW e \in Entry, over(e)
  PROVE  over(e)'
<1>1. /\ pc[CallOf[e[1]]] # "idle" /\ ~ahead(e) /\ ~batched(e) /\ ~awaited(e)
  BY Zenon DEF over
<1>2. /\ pc'[CallOf[e[1]]] # "idle" /\ ~ahead(e)' /\ ~batched(e)' /\ ~awaited(e)'
  BY <1>1, Zenon DEF Moves
<1> QED
  BY <1>2, Zenon DEF over

\* Before a flush returns, what it carries is all still to be reported.
LEMMA AwaitedFlies ==
  ASSUME IInv, ReturnInv, NEW f \in flights, f.res.kind = "none"
  PROVE  rest(f) = elems(f.entries)
<1>1. f.next = 1 /\ f.entries \in Seq(Entry)
  BY PlaceTypes, Zenon DEF ReturnInv
<1> QED
  BY <1>1, FreshRest, Zenon

\* Flushes that were there or have just started keep ReturnInv.
LEMMA ReturnSame ==
  ASSUME IInv, ReturnInv, Moves, Keeps,
         \A g \in flights' : \/ g.res.kind = "none" /\ g.next = 1
                             \/ \E f \in flights : g.entries = f.entries /\ g.res = f.res
                                                   /\ (g.next = f.next \/ g.res.kind # "none")
  PROVE  ReturnInv'
<1> SUFFICES ASSUME NEW g \in flights'
             PROVE  /\ g.res.kind = "none" => g.next = 1
                    /\ g.res.kind # "none" => \A e \in elems(g.entries) : over(e)'
                    /\ g.res.kind = "resp" => /\ g.res.ok \cap g.res.bad = {}
                                              /\ \A e \in elems(g.entries) : tells(g.res, e)'
  BY Zenon DEF ReturnInv
<1>1. CASE g.res.kind = "none" /\ g.next = 1
  BY <1>1, Zenon
<1>2. ASSUME NEW f \in flights, g.entries = f.entries, g.res = f.res,
             g.next = f.next \/ g.res.kind # "none"
      PROVE  /\ g.res.kind = "none" => g.next = 1
             /\ g.res.kind # "none" => \A e \in elems(g.entries) : over(e)'
             /\ g.res.kind = "resp" => /\ g.res.ok \cap g.res.bad = {}
                                       /\ \A e \in elems(g.entries) : tells(g.res, e)'
  <2>1. elems(g.entries) \subseteq Entry
    BY <1>2, FlightEntries, Zenon
  <2>2. g.res.kind = "none" => g.next = 1
    BY <1>2, Zenon DEF ReturnInv
  <2>3. g.res.kind # "none" => \A e \in elems(g.entries) : over(e)
    BY <1>2, Zenon DEF ReturnInv
  <2>4. g.res.kind # "none" => \A e \in elems(g.entries) : over(e)'
    BY <2>1, <2>3, OverStays, Zenon
  <2>5. ASSUME g.res.kind = "resp"
        PROVE  g.res.ok \cap g.res.bad = {} /\ \A e \in elems(g.entries) : tells(g.res, e)'
    <3>1. g.res.ok \cap g.res.bad = {} /\ \A e \in elems(g.entries) : tells(g.res, e)
      BY <1>2, <2>5, Zenon DEF ReturnInv
    <3>2. \A e \in elems(g.entries) : over(e) /\ e \in Entry
      BY <2>1, <2>3, <2>5, Zenon
    <3> QED
      BY <3>1, <3>2, Zenon DEF tells, Keeps
  <2> QED
    BY <2>2, <2>4, <2>5, Zenon
<1> QED
  BY <1>1, <1>2, Zenon

\* While nothing lands, LandInv is kept when idle calls have nothing ahead.
LEMMA LandSame ==
  ASSUME IInv, LandInv, Moves, landed' = landed, BinInv',
         \A e \in Entry : flying(e)' => flying(e) \/ batched(e)
  PROVE  LandInv'
<1>1. \A e \in landed' : over(e)'
  BY FlightEntries, OverStays, Zenon DEF LandInv
<1>2. ASSUME NEW e \in Entry, pc'[CallOf[e[1]]] = "idle"
      PROVE  ~outstanding(e)' /\ ~awaited(e)'
  <2>1. pc[CallOf[e[1]]] = "idle"
    BY <1>2, Zenon DEF Moves
  <2>2. ~ahead(e) /\ ~batched(e) /\ ~flying(e) /\ ~awaited(e)
    BY <2>1, Zenon DEF LandInv, outstanding
  <2>3. ~ahead(e)'
    <3>1. left'[CallOf[e[1]]] = {}
      BY <1>2, OneChunk, Zenon DEF BinInv
    <3> QED
      BY <1>2, <3>1, Zenon DEF ahead
  <2> QED
    BY <2>2, <2>3, Zenon DEF Moves, outstanding
<1> QED
  BY <1>1, <1>2, Zenon DEF LandInv

\* Steps that leave batches and flushes alone.
LEMMA CallsScope ==
  ASSUME IInv, ScopeInv, BinInv', LeftInv', UNCHANGED <<pending, flights, landed>>,
         \A e \in Entry : ahead(e)' => ahead(e) \/ pc[CallOf[e[1]]] = "idle",
         \A e \in Entry : pc[CallOf[e[1]]] # "idle" => pc'[CallOf[e[1]]] # "idle",
         \A n \in Agents : \A e \in elems(pending[n]) : mu'[n] # CallOf[e[1]] =>
           mu[n] # CallOf[e[1]] \/ together(e, pending[n]),
         \A n \in Agents : mu'[n] # None =>
           \A j \in ItemsOf(mu'[n]) : ahead(batch(j))' \/ batch(j) \in elems(pending[n])
  PROVE  ScopeInv' /\ Moves /\ Keeps
<1>1. \A e : (batched(e)' <=> batched(e)) /\ (flying(e)' <=> flying(e)) /\ (awaited(e)' <=> awaited(e))
  BY Zenon DEF batched, flying, awaited, elems, rest
<1>2. Moves
  BY <1>1, Zenon DEF Moves
<1>3. Keeps
  BY Zenon DEF Keeps
<1>4. UNCHANGED <<pending, flights>>
  BY Zenon
<1>5. \A e \in Entry : ahead(e)' => ahead(e) \/ (~batched(e) /\ ~flying(e))
  BY Zenon DEF ScopeInv, LandInv, outstanding
<1>6. PlaceInv'
  BY <1>4, <1>5, PlaceCalls, Zenon DEF ScopeInv
<1>7. ReturnInv'
  BY <1>2, <1>3, ReturnSame, Zenon DEF ScopeInv, ReturnInv
<1>8. LandInv'
  BY <1>1, <1>2, LandSame, Zenon DEF ScopeInv
<1>9. WholeInv'
  <2>1. \A e, s : together(e, s)' <=> together(e, s)
    BY Zenon DEF together, ItemsOf, elems, batch
  <2>2. \A f \in flights' : \A e \in elems(f.entries)' : together(e, f.entries)'
    BY <2>1, Zenon DEF ScopeInv, WholeInv, elems
  <2>3. \A n \in Agents : elems(pending[n])' = elems(pending[n])
    BY Zenon DEF elems
  <2>4. \A n \in Agents : \A e \in elems(pending[n])' :
          mu'[n] # CallOf[e[1]] => together(e, pending[n])'
    BY <2>1, <2>3, Zenon DEF ScopeInv, WholeInv, together, elems
  <2> QED
    BY <2>2, <2>3, <2>4, Zenon DEF WholeInv, ItemsOf, batch
<1> QED
  BY <1>2, <1>3, <1>6, <1>7, <1>8, <1>9, Zenon DEF ScopeInv

\* Bins are only taken off, after binning.
LEMMA LeftStep ==
  ASSUME IInv, LeftInv, [Next]_vars
  PROVE  LeftInv'
<1>1. ASSUME NEW c \in Calls, binByAgent(c) PROVE LeftInv'
  <2>1. left' = [left EXCEPT ![c] = {n \in Agents : Bin[c][n] # << >>}]
    BY <1>1, Zenon DEF binByAgent
  <2>2. \A d \in Calls : left'[d] = left[d] \/ (d = c /\ left'[d] = {n \in Agents : Bin[c][n] # << >>})
    BY <2>1, CallTypes, Zenon
  <2> QED
    BY <2>2, Zenon DEF LeftInv
<1>2. ASSUME \A c \in Calls : left'[c] \subseteq left[c] PROVE LeftInv'
  BY <1>2, Zenon DEF LeftInv
<1>3. ASSUME NEW c \in Calls, \/ multiAddClosed(c) \/ maybeStartNextFlushTimerLocked(c)
                              \/ \E n \in Agents : agentBufferForClosed(c, n)
      PROVE  \A d \in Calls : left'[d] \subseteq left[d]
  BY <1>3, CallTypes, Zenon DEF agentBufferForClosed, multiAddClosed, maybeStartNextFlushTimerLocked
<1>4. ASSUME \/ \E c \in Calls : \/ wrap(c) \/ cancel(c) \/ rejectCanceled(c) \/ multiAddLock(c)
                                 \/ addToNextProduceLocked(c)
                                 \/ \E n \in Agents : agentBufferFor(c, n)
             \/ \E i \in Items : ctxWatch(i)
             \/ \E n \in Agents : lingerElapses(n) \/ timerFlush(n) \/ closeAgent(n)
             \/ \E f \in flights : flushReturns(f) \/ deliver(f)
             \/ Close \/ closeReturns \/ UNCHANGED vars
      PROVE  left' = left
  BY <1>4, Zenon DEF wrap, cancel, rejectCanceled, multiAddLock, addToNextProduceLocked, agentBufferFor,
       ctxWatch, lingerElapses, timerFlush, closeAgent, flushReturns, deliver, Close, closeReturns,
       callVars, vars
<1> QED
  BY <1>1, <1>2, <1>3, <1>4, Zenon DEF Next, CallStep

\* A leg is all in one bin.
LEMMA LegInBin ==
  ASSUME LeftInv, NEW c \in Calls, NEW n \in left[c], left[c] \subseteq Agents, NEW i \in ItemsOf(c)
  PROVE  i \in Items /\ CallOf[i] = c /\ \E j \in DOMAIN Bin[c][n] : Bin[c][n][j] = i
<1>1. i \in Items /\ CallOf[i] = c
  BY Zenon DEF ItemsOf
<1>2. PICK m \in Agents : \E j \in DOMAIN Bin[c][m] : Bin[c][m][j] = i
  BY <1>1, BinAssumption, Zenon
<1>3. Bin[c][m] # << >> /\ Bin[c][n] # << >>
  <2>1. DOMAIN Bin[c][m] # {}
    BY <1>2, Zenon
  <2>2. Bin[c][m] # << >>
    BY <2>1
  <2> QED
    BY <2>2, Zenon DEF LeftInv
<1>4. m = n
  BY <1>3, LegAssumption, Zenon
<1> QED
  BY <1>1, <1>2, <1>4, Zenon

\* Steps of the calls, and of what is around them, that leave mu alone.
LEMMA UnlockedScope ==
  ASSUME IInv, ScopeInv, [Next]_vars,
         \/ \E c \in Calls : \/ wrap(c) \/ rejectCanceled(c) \/ binByAgent(c) \/ multiAddClosed(c)
                             \/ \E n \in Agents : agentBufferForClosed(c, n) \/ agentBufferFor(c, n)
         \/ UNCHANGED <<pc, left, buf, cur, mu, pending, flights, landed>>
  PROVE  ScopeInv' /\ Moves /\ Keeps
<1>1. BinInv' /\ LeftInv'
  BY BinStep, LeftStep, Zenon DEF ScopeInv
<1>2. UNCHANGED <<mu, pending, flights, landed>>
  BY Zenon DEF wrap, rejectCanceled, binByAgent, multiAddClosed, agentBufferForClosed,
       agentBufferFor, agentVars
<1>3. \A d \in Calls : pc[d] # "idle" => pc'[d] # "idle"
  BY CallTypes, Zenon DEF wrap, rejectCanceled, binByAgent, multiAddClosed, agentBufferForClosed,
       agentBufferFor
<1>4. /\ \A e \in Entry : ahead(e)' => ahead(e) \/ pc[CallOf[e[1]]] = "idle"
      /\ \A n \in Agents : mu[n] # None => \A j \in ItemsOf(mu[n]) : ahead(batch(j)) => ahead(batch(j))'
  <2>1. ASSUME NEW n \in Agents, mu[n] # None
        PROVE  /\ mu[n] \in Calls /\ buf[mu[n]] = n /\ pc[mu[n]] = "binning"
               /\ \A j \in ItemsOf(mu[n]) : batch(j) \in Entry /\ batch(j)[1] = j /\ CallOf[j] = mu[n]
    <3>1. mu[n] \in Calls /\ buf[mu[n]] = n
      BY <2>1, Zenon DEF IInv, TypeOK, LockOK
    <3>2. pc[mu[n]] = "binning"
      BY <3>1, NoneIsNobody, Zenon DEF ScopeInv, BinInv
    <3> QED
      BY <3>1, <3>2, OneChunk, Zenon DEF ItemsOf
  <2>2. ASSUME NEW c \in Calls, wrap(c)
        PROVE  \A e \in Entry : ahead(e)' <=> ahead(e) \/ CallOf[e[1]] = c
    BY <2>2, AheadWrap, Zenon
  <2>3. ASSUME NEW c \in Calls, rejectCanceled(c)
        PROVE  \A e \in Entry : ahead(e)' <=> ahead(e) /\ CallOf[e[1]] # c
    BY <2>3, AheadReject, Zenon DEF ScopeInv
  <2>4. ASSUME NEW c \in Calls, binByAgent(c) PROVE \A e \in Entry : ahead(e)' <=> ahead(e)
    BY <2>4, AheadBin, Zenon DEF ScopeInv
  <2>5. ASSUME NEW c \in Calls, NEW n \in Agents, agentBufferFor(c, n)
        PROVE  \A e \in Entry : ahead(e)' <=> ahead(e)
    BY <2>5, AheadLookUp, Zenon
  <2>6. ASSUME NEW c \in Calls, NEW n \in Agents,
               agentBufferForClosed(c, n) \/ (multiAddClosed(c) /\ n = buf[c])
        PROVE  /\ \A e \in Entry : ahead(e)' <=> ahead(e) /\ e[1] \notin InBin(c, n)
               /\ \A m \in Agents : mu[m] # c
    <3>1. \A e \in Entry : ahead(e)' <=> ahead(e) /\ e[1] \notin InBin(c, n)
      BY <2>6, AheadClosed, Zenon DEF ScopeInv
    <3>2. \A m \in Agents : mu[m] = c => buf[c] = m
      BY NoneIsNobody, Zenon DEF IInv, LockOK
    <3>3. \A m \in Agents : mu[m] # c
      BY <2>6, <3>2, NoneIsNobody, Zenon DEF agentBufferForClosed, multiAddClosed
    <3> QED
      BY <3>1, <3>3, Zenon
  <2>7. ASSUME UNCHANGED <<pc, left, buf, cur, mu>> PROVE \A e \in Entry : ahead(e)' <=> ahead(e)
    BY <2>7, AheadStays, Zenon
  <2>8. ASSUME NEW c \in Calls, wrap(c) \/ rejectCanceled(c)
        PROVE  \A n \in Agents : mu[n] # c
    BY <2>1, <2>8, NoneIsNobody, ZenonT(40) DEF wrap, rejectCanceled
  <2>9. ASSUME NEW c \in Calls, multiAddClosed(c) PROVE buf[c] \in Agents
    <3>1. buf[c] \in Agents \cup {None}
      BY Zenon DEF IInv, TypeOK
    <3> QED
      BY <2>9, <3>1, Zenon DEF multiAddClosed
  <2>10. \A e \in Entry : ahead(e)' => ahead(e) \/ pc[CallOf[e[1]]] = "idle"
    BY <2>2, <2>3, <2>4, <2>5, <2>6, <2>7, <2>9, Zenon DEF wrap
  <2>11. ASSUME NEW n \in Agents, mu[n] # None, NEW j \in ItemsOf(mu[n]), ahead(batch(j))
         PROVE  ahead(batch(j))'
    <3>1. batch(j) \in Entry /\ batch(j)[1] = j /\ CallOf[j] = mu[n] /\ mu[n] \in Calls
      BY <2>1, <2>11, Zenon
    <3>2. \A c \in Calls, m \in Agents : j \in InBin(c, m) => mu[n] = c
      BY <3>1, InOwnBin, Zenon
    <3>3. ASSUME NEW c \in Calls, wrap(c) \/ rejectCanceled(c) \/ binByAgent(c) PROVE ahead(batch(j))'
      BY <2>2, <2>3, <2>4, <2>8, <2>11, <3>1, <3>3, Zenon
    <3>4. ASSUME NEW c \in Calls, NEW m \in Agents,
                 agentBufferForClosed(c, m) \/ (multiAddClosed(c) /\ m = buf[c])
          PROVE  ahead(batch(j))'
      <4>1. j \notin InBin(c, m)
        BY <2>6, <2>11, <3>2, <3>4, Zenon
      <4> QED
        BY <2>6, <2>11, <3>1, <3>4, <4>1, Zenon
    <3>5. ASSUME NEW c \in Calls, NEW m \in Agents, agentBufferFor(c, m) PROVE ahead(batch(j))'
      BY <2>5, <2>11, <3>1, <3>5, Zenon
    <3>6. ASSUME UNCHANGED <<pc, left, buf, cur, mu>> PROVE ahead(batch(j))'
      BY <2>7, <2>11, <3>1, <3>6, Zenon
    <3> QED
      BY <2>9, <3>3, <3>4, <3>5, <3>6, Zenon
  <2> QED
    BY <2>10, <2>11, Zenon
<1>5. \A e \in Entry : pc[CallOf[e[1]]] # "idle" => pc'[CallOf[e[1]]] # "idle"
  BY <1>3, OneChunk, Zenon
<1>6. \A n \in Agents : \A e \in elems(pending[n]) : mu'[n] # CallOf[e[1]] =>
        mu[n] # CallOf[e[1]] \/ together(e, pending[n])
  BY <1>2, Zenon
<1>7. \A n \in Agents : mu'[n] # None =>
        \A j \in ItemsOf(mu'[n]) : ahead(batch(j))' \/ batch(j) \in elems(pending[n])
  BY <1>2, <1>4, Zenon DEF ScopeInv, WholeInv
<1>8. UNCHANGED <<pending, flights, landed>>
  BY <1>2, Zenon
<1> QED
  BY <1>1, <1>4, <1>5, <1>6, <1>7, <1>8, CallsScope, Zenon

\* Before a call has taken mu, all of its leg is ahead of it.
LEMMA AllAhead ==
  ASSUME IInv, ScopeInv, NEW c \in Calls, NEW n \in left[c], NEW i \in ItemsOf(c),
         buf[c] = n /\ mu[n] = c => cur[c] = <<1, 1>>
  PROVE  ahead(batch(i))
<1>1. n \in Agents /\ left[c] \subseteq Agents
  BY CallTypes, Zenon
<1>0. LeftInv
  BY Zenon DEF ScopeInv
<1>2. PICK j \in DOMAIN Bin[c][n] : Bin[c][n][j] = i
  BY <1>0, <1>1, LegInBin
<1>3. i \in Items /\ CallOf[i] = c
  BY Zenon DEF ItemsOf
<1>4. batch(i)[1] = i /\ batch(i)[2] = 1
  BY DEF batch
<1>5. before(c, n, j, 1)
  <2>1. Bin[c][n] \in Seq(Items)
    BY <1>1, BinsAndChunks, Zenon
  <2>2. j > 1 \/ (j = 1 /\ 1 >= 1)
    BY <1>2, <2>1
  <2>3. cur[c] = <<1, 1>> => cur[c][1] = 1 /\ cur[c][2] = 1
    OBVIOUS
  <2> QED
    BY <2>2, <2>3, Zenon DEF before
<1> QED
  BY <1>2, <1>3, <1>4, <1>5, Zenon DEF ahead

\* A call that takes mu has its whole leg ahead, and one that releases it has put
\* the whole leg into the batch.
LEMMA LockScope ==
  ASSUME IInv, ScopeInv, [Next]_vars, NEW c \in Calls,
         multiAddLock(c) \/ maybeStartNextFlushTimerLocked(c)
  PROVE  ScopeInv' /\ Moves /\ Keeps
<1>1. BinInv' /\ LeftInv'
  BY BinStep, LeftStep, Zenon DEF ScopeInv
<1>2. UNCHANGED <<pc, pending, flights, landed>>
  BY Zenon DEF multiAddLock, maybeStartNextFlushTimerLocked
<1>3. \A e \in Entry : ahead(e)' <=> ahead(e)
  BY AheadLock, AheadBinDone, Zenon DEF ScopeInv
<1>4. PICK n \in Agents : n = buf[c]
  BY NoneIsNobody, CallTypes, Zenon DEF ScopeInv, BinInv, multiAddLock, maybeStartNextFlushTimerLocked
<1>5. n \in left[c]
  BY <1>4, NoneIsNobody, Zenon DEF ScopeInv, BinInv
<1>6. \A m \in Agents : m # n => mu'[m] = mu[m]
  BY <1>4, CallTypes, Zenon DEF multiAddLock, maybeStartNextFlushTimerLocked
<1>7. \A m \in Agents : mu[m] # None => mu[m] \in Calls
  BY Zenon DEF IInv, TypeOK
<1>8. \A d \in Calls : \A j \in ItemsOf(d) : batch(j) \in Entry
  BY OneChunk, Zenon DEF ItemsOf
<1>9. CASE multiAddLock(c)
  <2>1. mu[n] = None /\ mu'[n] = c
    BY <1>4, <1>9, CallTypes, Zenon DEF multiAddLock
  <2>2. \A j \in ItemsOf(c) : ahead(batch(j))
    BY <1>5, <2>1, AllAhead, NoneIsNobody, Zenon
  <2>3. \A m \in Agents : mu'[m] # None =>
          \A j \in ItemsOf(mu'[m]) : ahead(batch(j))' \/ batch(j) \in elems(pending[m])
    BY <1>3, <1>6, <1>7, <1>8, <2>1, <2>2, Zenon DEF ScopeInv, WholeInv
  <2>4. \A m \in Agents : \A e \in elems(pending[m]) : mu'[m] # CallOf[e[1]] =>
          mu[m] # CallOf[e[1]] \/ together(e, pending[m])
    <3>1. \A m \in Agents : \A e \in elems(pending[m]) : CallOf[e[1]] # None
      BY PlaceTypes, OneChunk, NoneIsNobody, Zenon
    <3> QED
      BY <1>6, <2>1, <3>1, Zenon
  <2> QED
    BY <1>1, <1>2, <1>3, <2>3, <2>4, CallsScope, Zenon
<1>10. CASE maybeStartNextFlushTimerLocked(c)
  <2>1. mu[n] = c /\ mu'[n] = None /\ cur[c][1] > Len(Bin[c][n])
    BY <1>4, <1>10, CallTypes, Zenon DEF maybeStartNextFlushTimerLocked
  <2>2. ASSUME NEW i \in ItemsOf(c) PROVE batch(i) \in elems(pending[n])
    <3>1. i \in Items /\ CallOf[i] = c /\ batch(i)[1] = i
      BY OneChunk, Zenon DEF ItemsOf
    <3>2. pc[c] = "binning" /\ left[c] \subseteq Agents
      BY <1>4, CallTypes, NoneIsNobody, Zenon DEF ScopeInv, BinInv
    <3>3. ASSUME NEW m \in left[c], NEW j \in DOMAIN Bin[c][m], Bin[c][m][j] = i
          PROVE  ~before(c, m, j, batch(i)[2])
      <4>0. LeftInv
        BY Zenon DEF ScopeInv
      <4>1. PICK k \in DOMAIN Bin[c][n] : Bin[c][n][k] = i
        BY <1>5, <3>2, <4>0, LegInBin
      <4>2. m = n
        BY <3>2, <3>3, <4>1, OneSpot, ZenonT(40)
      <4>3. Bin[c][n] \in Seq(Items) /\ cur[c][1] \in Nat
        BY BinsAndChunks, Zenon DEF IInv, TypeOK
      <4>4. ~(j > cur[c][1]) /\ j # cur[c][1]
        BY <2>1, <3>3, <4>2, <4>3
      <4> QED
        BY <1>4, <2>1, <4>2, <4>4, Zenon DEF before
    <3>4. ~ahead(batch(i))
      BY <3>1, <3>2, <3>3, Zenon DEF ahead
    <3> QED
      BY <2>1, <2>2, <3>4, NoneIsNobody, Zenon DEF ScopeInv, WholeInv
  <2>3. \A m \in Agents : mu'[m] # None =>
          \A j \in ItemsOf(mu'[m]) : ahead(batch(j))' \/ batch(j) \in elems(pending[m])
    BY <1>3, <1>6, <1>7, <1>8, <2>1, Zenon DEF ScopeInv, WholeInv
  <2>4. \A m \in Agents : \A e \in elems(pending[m]) : mu'[m] # CallOf[e[1]] =>
          mu[m] # CallOf[e[1]] \/ together(e, pending[m])
    BY <1>6, <2>1, <2>2, Zenon DEF together
  <2> QED
    BY <1>1, <1>2, <1>3, <2>3, <2>4, CallsScope, Zenon
<1> QED
  BY <1>9, <1>10, Zenon

\* Chunks N of the call that holds mu join the batch of n, behind what is there or
\* in its place when that is dispatched, whole legs of it.
LEMMA BatchScope ==
  ASSUME IInv, ScopeInv, BinInv', LeftInv', NEW n \in Agents, NEW q, NEW N \in SUBSET Entry,
         pending' = [pending EXCEPT ![n] = q], distinct(q),
         \/ flights' = flights /\ elems(q) = elems(pending[n]) \cup N
         \/ flights' = flights \cup {fresh(n)} /\ elems(q) = N,
         \A e \in N : ahead(e) /\ CallOf[e[1]] = mu[n],
         \A e \in Entry : ahead(e)' <=> ahead(e) /\ e \notin N,
         \/ flights' = flights
         \/ /\ \A e \in elems(pending[n]) : together(e, pending[n])
            /\ mu[n] # None => \A j \in ItemsOf(mu[n]) : ahead(batch(j)),
         UNCHANGED <<pc, mu, landed>>
  PROVE  ScopeInv' /\ Moves /\ Keeps
<1>1. PlaceInv' /\ \A e \in Entry : outstanding(e)' <=> outstanding(e)
  BY PlaceBatch, Zenon DEF ScopeInv
<1>2. pending'[n] = q /\ \A m \in Agents : m # n => pending'[m] = pending[m]
  BY PlaceTypes, Zenon
<1>3. fresh(n).entries = pending[n] /\ fresh(n).res.kind = "none" /\ fresh(n).next = 1
  BY Zenon DEF fresh, NoResult, ErrResult
<1>4. flights' = flights \/ flights' = flights \cup {fresh(n)}
  BY Zenon
<1>5. \A g \in flights' : g \in flights \/ g = fresh(n)
  BY <1>4, Zenon
<1>6. \A m \in Agents : elems(pending[m])' = elems(pending'[m])
  BY Zenon DEF elems
<1>7. Moves
  <2>1. \A e \in Entry : batched(e)' => batched(e) \/ ahead(e)
    <3> SUFFICES ASSUME NEW e \in Entry, NEW m \in Agents, e \in elems(pending'[m])
                 PROVE  batched(e) \/ ahead(e)
      BY <1>6, Zenon DEF batched
    <3>1. CASE m = n
      BY <1>2, <3>1, Zenon DEF batched
    <3>2. CASE m # n
      BY <1>2, <3>2, Zenon DEF batched
    <3> QED
      BY <3>1, <3>2, Zenon
  <2>2. \A e \in Entry : awaited(e)' => awaited(e) \/ batched(e)
    <3> SUFFICES ASSUME NEW e \in Entry, NEW g \in flights', g.res.kind = "none", e \in elems(g.entries)
                 PROVE  awaited(e) \/ batched(e)
      BY Zenon DEF awaited, elems
    <3> QED
      BY <1>3, <1>5, Zenon DEF awaited, batched
  <2> QED
    BY <2>1, <2>2, Zenon DEF Moves
<1>8. Keeps
  BY Zenon DEF Keeps
<1>9. ReturnInv'
  BY <1>3, <1>5, <1>7, <1>8, ReturnSame, Zenon DEF ScopeInv
<1>10. LandInv'
  <2>1. \A e \in Entry : flying(e)' => flying(e) \/ batched(e)
    <3> SUFFICES ASSUME NEW e \in Entry, NEW g \in flights', e \in rest(g)
                 PROVE  flying(e) \/ batched(e)
      BY Zenon DEF flying, rest
    <3>1. CASE g \in flights
      BY <3>1, Zenon DEF flying
    <3>2. CASE g = fresh(n)
      <4>1. pending[n] \in Seq(Entry)
        BY PlaceTypes, Zenon
      <4>2. rest(g) = elems(pending[n])
        BY <1>3, <3>2, <4>1, FreshRest, Zenon
      <4> QED
        BY <4>2, Zenon DEF batched
    <3> QED
      BY <1>5, <3>1, <3>2, Zenon
  <2> QED
    BY <1>7, <2>1, LandSame, Zenon DEF ScopeInv
<1>11. WholeInv'
  <2>1. \A e, s : together(e, s)' <=> together(e, s)
    BY Zenon DEF together, ItemsOf, elems, batch
  <2>2. \A g \in flights' : \A e \in elems(g.entries) : together(e, g.entries)
    <3> SUFFICES ASSUME NEW g \in flights', NEW e \in elems(g.entries)
                 PROVE  together(e, g.entries)
      BY Zenon
    <3>1. CASE g \in flights
      BY <3>1, Zenon DEF ScopeInv, WholeInv
    <3>2. CASE g \notin flights
      <4>1. g.entries = pending[n] /\ flights' # flights
        BY <1>3, <1>5, <3>2, Zenon
      <4> QED
        BY <4>1, Zenon
    <3> QED
      BY <3>1, <3>2, Zenon
  <2>3. ASSUME NEW m \in Agents, NEW e \in elems(pending'[m]), mu[m] # CallOf[e[1]]
        PROVE  together(e, pending'[m])
    <3>1. CASE m # n
      BY <1>2, <2>3, <3>1, Zenon DEF ScopeInv, WholeInv
    <3>2. CASE m = n
      <4>1. e \notin N /\ e \in elems(q)
        BY <1>2, <2>3, <3>2, Zenon
      <4>2. flights' = flights /\ elems(q) = elems(pending[n]) \cup N /\ e \in elems(pending[n])
        BY <4>1, Zenon
      <4>3. together(e, pending[n])
        BY <2>3, <3>2, <4>2, Zenon DEF ScopeInv, WholeInv
      <4> QED
        BY <1>2, <3>2, <4>2, <4>3, Zenon DEF together
    <3> QED
      BY <3>1, <3>2, Zenon
  <2>4. ASSUME NEW m \in Agents, mu[m] # None, NEW j \in ItemsOf(mu[m])
        PROVE  ahead(batch(j))' \/ batch(j) \in elems(pending'[m])
    <3>1. mu[m] \in Calls /\ buf[mu[m]] = m
      BY <2>4, ZenonT(40) DEF IInv, TypeOK, LockOK
    <3>2. batch(j) \in Entry /\ batch(j)[1] = j /\ CallOf[j] = mu[m]
      BY <2>4, OneChunk, Zenon DEF ItemsOf
    <3>3. ahead(batch(j)) \/ batch(j) \in elems(pending[m])
      BY <2>4, Zenon DEF ScopeInv, WholeInv
    <3>4. CASE m # n
      <4>1. mu[m] # mu[n]
        BY <2>4, <3>1, <3>4, Zenon DEF IInv, LockOK
      <4>2. batch(j) \notin N
        BY <3>2, <4>1, Zenon
      <4> QED
        BY <1>2, <3>2, <3>3, <3>4, <4>2, Zenon
    <3>5. CASE m = n
      <4>1. CASE flights' = flights /\ elems(q) = elems(pending[n]) \cup N
        BY <1>2, <3>2, <3>3, <3>5, <4>1, Zenon
      <4>2. CASE flights' # flights /\ elems(q) = N
        <5>1. ahead(batch(j))
          BY <2>4, <3>5, <4>2, Zenon
        <5> QED
          BY <1>2, <3>2, <3>5, <4>2, <5>1, Zenon
      <4>3. CASE flights' = flights /\ elems(q) = N
        \* The flush that started is one that was there already: impossible, since a
        \* batch is in no flush.
        <5>1. fresh(n) \in flights \/ elems(q) = elems(pending[n]) \cup N
          BY <4>3, Zenon
        <5>2. CASE fresh(n) \in flights
          <6>1. pending[n] \in Seq(Entry)
            BY PlaceTypes, Zenon
          <6>2. rest(fresh(n)) = elems(pending[n])
            BY <1>3, <6>1, FreshRest, Zenon
          <6>3. \A e \in elems(pending[n]) : e \notin rest(fresh(n))
            BY <5>2, Zenon DEF ScopeInv, PlaceInv
          <6>4. ahead(batch(j))
            BY <3>3, <3>5, <6>2, <6>3, Zenon
          <6> QED
            BY <1>2, <3>2, <3>5, <4>3, <6>4, Zenon
        <5> QED
          BY <4>1, <4>3, <5>1, <5>2, Zenon
      <4> QED
        BY <4>1, <4>2, <4>3, Zenon
    <3> QED
      BY <3>4, <3>5, Zenon
  <2>5. /\ \A g \in flights' : \A e \in elems(g.entries)' : together(e, g.entries)'
        /\ \A m \in Agents : \A e \in elems(pending[m])' :
             mu'[m] # CallOf[e[1]] => together(e, pending[m])'
        /\ \A m \in Agents : mu'[m] # None =>
             \A j \in ItemsOf(mu'[m]) : ahead(batch(j))' \/ batch(j) \in elems(pending[m])'
    BY <1>6, <2>1, <2>2, <2>3, <2>4, Zenon DEF together, elems
  <2> QED
    BY <2>5, Zenon DEF WholeInv, ItemsOf, batch
<1> QED
  BY <1>1, <1>7, <1>8, <1>9, <1>10, <1>11, Zenon DEF ScopeInv

\* timerFlush and closeAgent dispatch whole legs: nobody holds mu.
LEMMA FlushScope ==
  ASSUME IInv, ScopeInv, [Next]_vars, NEW n \in Agents, timerFlush(n) \/ closeAgent(n)
  PROVE  ScopeInv' /\ Moves /\ Keeps
<1>1. BinInv' /\ LeftInv'
  BY BinStep, LeftStep, Zenon DEF ScopeInv
<1>2. /\ mu[n] = None /\ startFlushLocked(n) /\ pending' = [pending EXCEPT ![n] = << >>]
      /\ UNCHANGED <<pc, left, buf, cur, mu, landed>>
  BY Zenon DEF timerFlush, closeAgent, callVars
<1>3. \A e \in Entry : ahead(e)' <=> ahead(e) /\ e \notin {}
  BY <1>2, AheadStays, Zenon
<1>4. elems(<< >>) = {} /\ distinct(<< >>)
  BY EmptyElems, Zenon
<1>5. \/ flights' = flights /\ elems(<< >>) = elems(pending[n]) \cup {}
      \/ flights' = flights \cup {fresh(n)} /\ elems(<< >>) = {}
  <2>1. CASE pending[n] = << >>
    BY <1>2, <1>4, <2>1, Zenon DEF startFlushLocked
  <2>2. CASE pending[n] # << >>
    BY <1>2, <1>4, <2>2, Zenon DEF startFlushLocked, fresh
  <2> QED
    BY <2>1, <2>2, Zenon
<1>6. {} \in SUBSET Entry /\ \A e \in {} : ahead(e) /\ CallOf[e[1]] = mu[n]
  BY Zenon
<1>7. /\ \A e \in elems(pending[n]) : together(e, pending[n])
      /\ mu[n] # None => \A j \in ItemsOf(mu[n]) : ahead(batch(j))
  <2>1. \A e \in elems(pending[n]) : CallOf[e[1]] # None
    BY PlaceTypes, OneChunk, NoneIsNobody, Zenon
  <2> QED
    BY <1>2, <2>1, Zenon DEF ScopeInv, WholeInv
<1>8. UNCHANGED <<pc, mu, landed>>
  BY <1>2, Zenon
<1> QED
  BY <1>1, <1>2, <1>3, <1>4, <1>5, <1>6, <1>7, <1>8, BatchScope, ZenonT(40)

\* addToNextProduceLocked adds to the batch, or starts a new one with the first part
\* of the leg: legs fit.
LEMMA AddScope ==
  ASSUME IInv, ScopeInv, LegsFit, [Next]_vars, NEW c \in Calls, addToNextProduceLocked(c)
  PROVE  ScopeInv' /\ Moves /\ Keeps
<1>1. BinInv' /\ LeftInv'
  BY BinStep, LeftStep, Zenon DEF ScopeInv
<1>2. PICK n \in Agents : n = buf[c]
  BY CallTypes, Zenon DEF addToNextProduceLocked, ScopeInv, BinInv
<1>3. PICK x : x = <<NextItem(c), cur[c][2]>>
  BY Zenon
<1>4. /\ n # None /\ mu[n] = c /\ cur[c][1] <= Len(Bin[c][n]) /\ n \in left[c]
      /\ UNCHANGED <<pc, mu, landed>>
  BY <1>2, Zenon DEF addToNextProduceLocked, ScopeInv, BinInv
<1>5. cur[c][1] \in Nat \ {0} /\ cur[c][2] \in Nat \ {0} /\ cur[c] = <<cur[c][1], cur[c][2]>>
  BY DEF IInv, TypeOK
<1>6. Bin[c][n] \in Seq(Items)
  BY BinsAndChunks, Zenon
<1>7. NextItem(c) \in Items /\ CallOf[NextItem(c)] = c
  <2>1. cur[c][1] \in DOMAIN Bin[c][n] /\ Bin[c][n][cur[c][1]] \in Items
    BY <1>4, <1>5, <1>6, SeqElement
  <2>2. NextItem(c) = Bin[c][n][cur[c][1]]
    BY <1>2, Zenon DEF NextItem
  <2>3. CallOf[Bin[c][n][cur[c][1]]] = c
    BY <2>1, BinAssumption
  <2> QED
    BY <2>1, <2>2, <2>3, Zenon
<1>8. x \in Entry /\ ahead(x) /\ \A e \in Entry : ahead(e)' <=> ahead(e) /\ e # x
  <2>1. batch(NextItem(c)) \in Entry
    BY <1>7, OneChunk, Zenon
  <2> QED
    BY <1>3, <2>1, AheadAdd, Zenon DEF ScopeInv
<1>9. x[1] = NextItem(c)
  BY <1>3
<1>10. {x} \in SUBSET Entry /\ \A e \in {x} : ahead(e) /\ CallOf[e[1]] = mu[n]
  BY <1>4, <1>7, <1>8, <1>9, Zenon
<1>11. \A e \in Entry : ahead(e)' <=> ahead(e) /\ e \notin {x}
  BY <1>8, Zenon
<1>12. \/ /\ overflows(n, WireBytes(x)) /\ startFlushLocked(n)
          /\ pending' = [pending EXCEPT ![n] = <<x>>]
       \/ pending' = [pending EXCEPT ![n] = Append(pending[n], x)] /\ flights' = flights
  BY <1>2, <1>3, Zenon DEF addToNextProduceLocked
<1>13. CASE /\ overflows(n, WireBytes(x)) /\ startFlushLocked(n)
            /\ pending' = [pending EXCEPT ![n] = <<x>>]
  <2>1. flights' = flights \cup {fresh(n)}
    BY <1>13, Zenon DEF startFlushLocked, overflows, fresh
  <2>2. elems(<<x>>) = {x} /\ distinct(<<x>>)
    BY OneElem, Zenon
  <2>3. cur[c] = <<1, 1>>
    <3>1. ~(1 < cur[c][1])
      BY <1>2, <1>3, <1>4, <1>13, Zenon DEF LegsFit
    <3>2. cur[c][2] <= Len(Chunks[NextItem(c)])
      BY <1>2, <1>4, Zenon DEF IInv, CursorOK
    <3>3. Len(Chunks[NextItem(c)]) = 1
      BY <1>7, LegAssumption, Zenon
    <3>4. cur[c][1] = 1 /\ cur[c][2] = 1
      BY <1>5, <3>1, <3>2, <3>3
    <3> QED
      BY <1>5, <3>4, Zenon
  <2>4. \A j \in ItemsOf(c) : ahead(batch(j))
    BY <1>4, <2>3, AllAhead, Zenon
  <2>5. \A e \in elems(pending[n]) : together(e, pending[n])
    <3> SUFFICES ASSUME NEW e \in elems(pending[n]) PROVE together(e, pending[n])
      BY Zenon
    <3>1. e \in Entry
      BY PlaceTypes, Zenon
    <3>2. e[1] \in Items /\ e = batch(e[1])
      BY <3>1, OneChunk, Zenon
    <3>3. ~ahead(e)
      BY <3>1, Zenon DEF ScopeInv, PlaceInv, batched
    <3>4. CallOf[e[1]] # c
      BY <2>4, <3>2, <3>3, Zenon DEF ItemsOf
    <3> QED
      BY <1>4, <3>4, Zenon DEF ScopeInv, WholeInv
  <2> QED
    BY <1>1, <1>4, <1>10, <1>11, <1>13, <2>1, <2>2, <2>4, <2>5, BatchScope, ZenonT(40)
<1>14. CASE pending' = [pending EXCEPT ![n] = Append(pending[n], x)] /\ flights' = flights
  <2>1. pending[n] \in Seq(Entry) /\ distinct(pending[n])
    BY PlaceTypes, Zenon DEF ScopeInv, PlaceInv
  <2>2. x \notin elems(pending[n])
    BY <1>8, Zenon DEF ScopeInv, PlaceInv, batched
  <2>3. /\ elems(Append(pending[n], x)) = elems(pending[n]) \cup {x}
        /\ distinct(Append(pending[n], x))
    BY <1>8, <2>1, <2>2, AppendElems, ZenonT(40)
  <2> QED
    BY <1>1, <1>4, <1>10, <1>11, <1>14, <2>3, BatchScope, Zenon
<1> QED
  BY <1>12, <1>13, <1>14, Zenon

\* A flush returns: what it carried is known from now on, and the response says it.
LEMMA FlushReturnsScope ==
  ASSUME IInv, ScopeInv, [Next]_vars, NEW f \in flights, flushReturns(f)
  PROVE  ScopeInv' /\ Moves /\ Keeps
<1>1. BinInv' /\ LeftInv'
  BY BinStep, LeftStep, Zenon DEF ScopeInv
<1>2. PlaceInv' /\ \A e \in Entry : outstanding(e)' <=> outstanding(e)
  BY FlushReturnsPlace, Zenon DEF ScopeInv
<1>3. PICK res \in [kind : {"resp"}, ok : SUBSET WireParts(f.entries),
                    bad : SUBSET WireParts(f.entries)] \cup {ErrResult("err")} :
        /\ res.ok \cap res.bad = {}
        /\ flights' = (flights \ {f}) \cup {[f EXCEPT !.res = res]}
        /\ landed' = landed \cup {f.entries[j] : j \in
                       {j \in DOMAIN f.entries : PartOf[f.entries[j][1]] \in res.ok}}
  BY Zenon DEF flushReturns
<1>4. res.kind # "none"
  BY <1>3 DEF ErrResult
<1>5. f.res.kind = "none" /\ UNCHANGED <<pc, left, buf, cur, mu, pending>>
  BY Zenon DEF flushReturns, callVars, agentVars
<1> DEFINE g == [f EXCEPT !.res = res]
<1>6. g.entries = f.entries /\ g.res = res /\ f \in Flight
  BY Zenon DEF IInv, TypeOK, Flight
<1>7. \A h \in flights' : (h \in flights /\ h # f) \/ h = g
  BY <1>3, Zenon
<1> HIDE DEF g
<1>8. \A e : (ahead(e)' <=> ahead(e)) /\ (batched(e)' <=> batched(e))
  BY <1>5, AheadStays, Zenon DEF batched
<1>9. \A e : awaited(e)' => \E h \in flights : h # f /\ h.res.kind = "none" /\ e \in elems(h.entries)
  <2> SUFFICES ASSUME NEW e, NEW h \in flights', h.res.kind = "none", e \in elems(h.entries)
               PROVE  h \in flights /\ h # f
    BY Zenon DEF awaited, elems
  <2> QED
    BY <1>4, <1>6, <1>7, Zenon
<1>10. Moves
  BY <1>5, <1>8, <1>9, Zenon DEF Moves, awaited
<1>11. rest(f) = elems(f.entries) /\ \A h \in flights : h.res.kind = "none" => rest(h) = elems(h.entries)
  BY <1>5, AwaitedFlies, Zenon DEF ScopeInv
<1>12. ASSUME NEW e \in elems(f.entries) PROVE e \in Entry /\ awaited(e) /\ e \notin landed /\ over(e)'
  <2>1. e \in Entry
    BY FlightEntries, Zenon
  <2>2. awaited(e) /\ flying(e)
    BY <1>5, <1>11, <1>12, Zenon DEF awaited, flying
  <2>3. e \notin landed
    BY <2>2, Zenon DEF ScopeInv, LandInv, over
  <2>4. pc[CallOf[e[1]]] # "idle"
    BY <2>1, <2>2, Zenon DEF ScopeInv, LandInv
  <2>5. ~ahead(e) /\ ~batched(e)
    <3>1. e \in rest(f)
      BY <1>11, <1>12, Zenon
    <3>2. \A n \in Agents : \A x \in elems(pending[n]) : x \notin rest(f)
      BY Zenon DEF ScopeInv, PlaceInv
    <3>3. ~ahead(e)
      BY <2>1, <2>2, Zenon DEF ScopeInv, PlaceInv
    <3> QED
      BY <3>1, <3>2, <3>3, Zenon DEF batched
  <2>6. ~awaited(e)'
    <3>1. ASSUME NEW h \in flights, h.res.kind = "none", e \in elems(h.entries) PROVE h = f
      <4>1. e \in rest(f) /\ e \in rest(h)
        BY <1>11, <1>12, <3>1, Zenon
      <4>2. \A x \in rest(h) : x \in rest(f) => h = f
        BY <3>1, Zenon DEF ScopeInv, PlaceInv
      <4> QED
        BY <4>1, <4>2, Zenon
    <3> QED
      BY <1>9, <3>1, Zenon
  <2>7. over(e)' <=> pc'[CallOf[e[1]]] # "idle" /\ ~ahead(e)' /\ ~batched(e)' /\ ~awaited(e)'
    BY Zenon DEF over
  <2> QED
    BY <1>5, <1>8, <2>1, <2>2, <2>3, <2>4, <2>5, <2>6, <2>7, Zenon
<1>13. \A e : e \in landed' <=> e \in landed \/ (e \in elems(f.entries) /\ PartOf[e[1]] \in res.ok)
  BY <1>3, Zenon DEF elems
<1>14. Keeps
  BY <1>12, <1>13, Zenon DEF Keeps, over
<1>15. ReturnInv'
  <2> SUFFICES ASSUME NEW h \in flights'
               PROVE  /\ h.res.kind = "none" => h.next = 1
                      /\ h.res.kind # "none" => \A e \in elems(h.entries) : over(e)'
                      /\ h.res.kind = "resp" => /\ h.res.ok \cap h.res.bad = {}
                                                /\ \A e \in elems(h.entries) : tells(h.res, e)'
    BY Zenon DEF ReturnInv
  <2>1. CASE h = g
    <3>1. h.entries = f.entries /\ h.res = res
      BY <1>6, <2>1, Zenon
    <3>2. \A e \in elems(f.entries) : over(e)'
      BY <1>12, Zenon
    <3>3. \A e \in elems(f.entries) : e \in landed' <=> PartOf[e[1]] \in res.ok
      BY <1>12, <1>13, Zenon
    <3> QED
      BY <1>3, <1>4, <3>1, <3>2, <3>3, Zenon DEF tells
  <2>2. CASE h \in flights
    <3>1. elems(h.entries) \subseteq Entry
      BY <2>2, FlightEntries, Zenon
    <3>2. h.res.kind = "none" => h.next = 1
      BY <2>2, Zenon DEF ScopeInv, ReturnInv
    <3>3. h.res.kind # "none" => \A e \in elems(h.entries) : over(e)
      BY <2>2, Zenon DEF ScopeInv, ReturnInv
    <3>4. h.res.kind # "none" => \A e \in elems(h.entries) : over(e)'
      BY <1>10, <3>1, <3>3, OverStays, Zenon
    <3>5. ASSUME h.res.kind = "resp"
          PROVE  h.res.ok \cap h.res.bad = {} /\ \A e \in elems(h.entries) : tells(h.res, e)'
      <4>1. h.res.ok \cap h.res.bad = {} /\ \A e \in elems(h.entries) : tells(h.res, e)
        BY <2>2, <3>5, Zenon DEF ScopeInv, ReturnInv
      <4>2. \A e \in elems(h.entries) : over(e) /\ e \in Entry
        BY <3>1, <3>3, <3>5, Zenon
      <4> QED
        BY <1>14, <4>1, <4>2, Zenon DEF tells, Keeps
    <3> QED
      BY <3>2, <3>4, <3>5, Zenon
  <2> QED
    BY <1>7, <2>1, <2>2, Zenon
<1>16. LandInv'
  <2>1. \A e \in landed' : over(e)'
    BY <1>10, <1>12, <1>13, FlightEntries, OverStays, Zenon DEF ScopeInv, LandInv
  <2>2. \A e \in Entry : pc'[CallOf[e[1]]] = "idle" => ~outstanding(e)' /\ ~awaited(e)'
    BY <1>2, <1>5, <1>9, Zenon DEF ScopeInv, LandInv, awaited
  <2> QED
    BY <2>1, <2>2, Zenon DEF LandInv
<1>17. WholeInv'
  <2>1. \A e, s : together(e, s)' <=> together(e, s)
    BY Zenon DEF together, ItemsOf, elems, batch
  <2>2. \A h \in flights' : \A e \in elems(h.entries) : together(e, h.entries)
    BY <1>6, <1>7, Zenon DEF ScopeInv, WholeInv
  <2>3. /\ \A h \in flights' : \A e \in elems(h.entries)' : together(e, h.entries)'
        /\ \A m \in Agents : elems(pending[m])' = elems(pending[m])
    BY <1>5, <2>1, <2>2, Zenon DEF elems
  <2>4. \A m \in Agents : \A e \in elems(pending[m])' :
             mu'[m] # CallOf[e[1]] => together(e, pending[m])'
    BY <1>5, <2>1, <2>3, Zenon DEF ScopeInv, WholeInv
  <2>5. \A m \in Agents : mu'[m] # None =>
             \A j \in ItemsOf(mu'[m]) : ahead(batch(j))' \/ batch(j) \in elems(pending[m])'
    BY <1>5, <1>8, <2>3, Zenon DEF ScopeInv, WholeInv
  <2> QED
    BY <2>3, <2>4, <2>5, Zenon DEF WholeInv, ItemsOf, batch
<1> QED
  BY <1>1, <1>2, <1>10, <1>14, <1>15, <1>16, <1>17, Zenon DEF ScopeInv

\* A flush that reports its result moves on or ends.
LEMMA DeliverScope ==
  ASSUME IInv, ScopeInv, [Next]_vars, NEW f \in flights, deliver(f)
  PROVE  ScopeInv' /\ Moves /\ Keeps
<1>1. BinInv' /\ LeftInv'
  BY BinStep, LeftStep, Zenon DEF ScopeInv
<1>2. PlaceInv' /\ \A e \in Entry : outstanding(e)' => outstanding(e)
  BY DeliverPlace, Zenon DEF ScopeInv
<1> DEFINE g == [f EXCEPT !.next = f.next + 1]
<1>3. f.res.kind # "none" /\ UNCHANGED <<pc, left, buf, cur, mu, pending, landed>>
  BY Zenon DEF deliver, callVars, agentVars
<1>4. \A h \in flights' : h \in flights \/ h = g
  BY Zenon DEF deliver
<1>5. g.entries = f.entries /\ g.res = f.res
  BY Zenon DEF IInv, TypeOK, Flight
<1> HIDE DEF g
<1>6. \A h \in flights' : \E k \in flights : h.entries = k.entries /\ h.res = k.res
                                            /\ (h.next = k.next \/ h.res.kind # "none")
  BY <1>3, <1>4, <1>5, Zenon
<1>7. \A e : (ahead(e)' <=> ahead(e)) /\ (batched(e)' <=> batched(e))
  BY <1>3, AheadStays, Zenon DEF batched
<1>8. \A e : awaited(e)' => awaited(e)
  <2> SUFFICES ASSUME NEW e, NEW h \in flights', h.res.kind = "none", e \in elems(h.entries)
               PROVE  awaited(e)
    BY Zenon DEF awaited, elems
  <2> QED
    BY <1>6, Zenon DEF awaited
<1>9. Moves /\ Keeps
  BY <1>3, <1>7, <1>8, Zenon DEF Moves, Keeps
<1>10. ReturnInv'
  BY <1>6, <1>9, ReturnSame, Zenon DEF ScopeInv
<1>11. LandInv'
  <2>1. \A e \in landed' : over(e)'
    BY <1>3, <1>9, FlightEntries, OverStays, Zenon DEF ScopeInv, LandInv
  <2>2. \A e \in Entry : pc'[CallOf[e[1]]] = "idle" => ~outstanding(e)' /\ ~awaited(e)'
    BY <1>2, <1>3, <1>8, Zenon DEF ScopeInv, LandInv
  <2> QED
    BY <2>1, <2>2, Zenon DEF LandInv
<1>12. WholeInv'
  <2>1. \A e, s : together(e, s)' <=> together(e, s)
    BY Zenon DEF together, ItemsOf, elems, batch
  <2>2. \A h \in flights' : \A e \in elems(h.entries) : together(e, h.entries)
    <3> SUFFICES ASSUME NEW h \in flights', NEW e \in elems(h.entries) PROVE together(e, h.entries)
      BY Zenon
    <3>1. PICK k \in flights : h.entries = k.entries
      BY <1>6, Zenon
    <3>2. \A x \in elems(k.entries) : together(x, k.entries)
      BY <3>1, Zenon DEF ScopeInv, WholeInv
    <3> QED
      BY <3>1, <3>2, Zenon
  <2>3. /\ \A h \in flights' : \A e \in elems(h.entries)' : together(e, h.entries)'
        /\ \A m \in Agents : elems(pending[m])' = elems(pending[m])
    BY <1>3, <2>1, <2>2, Zenon DEF elems
  <2>4. \A m \in Agents : \A e \in elems(pending[m])' :
             mu'[m] # CallOf[e[1]] => together(e, pending[m])'
    BY <1>3, <2>1, <2>3, Zenon DEF ScopeInv, WholeInv
  <2>5. \A m \in Agents : mu'[m] # None =>
             \A j \in ItemsOf(mu'[m]) : ahead(batch(j))' \/ batch(j) \in elems(pending[m])'
    BY <1>3, <1>7, <2>3, Zenon DEF ScopeInv, WholeInv
  <2> QED
    BY <2>3, <2>4, <2>5, Zenon DEF WholeInv, ItemsOf, batch
<1> QED
  BY <1>1, <1>2, <1>9, <1>10, <1>11, <1>12, Zenon DEF ScopeInv

\* ScopeInv at the start.
LEMMA InitScope ==
  ASSUME CInit
  PROVE  ScopeInv /\ AnswerInv
<1>1. BinInv /\ PlaceInv /\ \A e \in Entry : ~outstanding(e)
  BY InitPlace, Zenon DEF CInit, HInit
<1>2. /\ flights = {} /\ landed = {} /\ \A n \in Agents : pending[n] = << >> /\ mu[n] = None
      /\ \A c \in Calls : left[c] = {}
      /\ \A c \in Calls : legRes[c] = NoResult
  BY Zenon DEF CInit, HInit, Init
<1>3. \A n \in Agents : elems(pending[n]) = {}
  BY <1>2, EmptyElems, Zenon
<1>4. NoResult.kind # "resp"
  BY Zenon DEF NoResult, ErrResult
<1> QED
  BY <1>1, <1>2, <1>3, <1>4, Zenon DEF ScopeInv, LeftInv, ReturnInv, LandInv, WholeInv, AnswerInv, awaited

\* Every step of the hedge buffer keeps ScopeInv as long as legs fit.
LEMMA StepScope ==
  ASSUME IInv, ScopeInv, LegsFit, [Next]_vars
  PROVE  ScopeInv' /\ Moves /\ Keeps
<1>1. ASSUME \/ \E c \in Calls : cancel(c)
             \/ \E i \in Items : ctxWatch(i)
             \/ \E n \in Agents : lingerElapses(n)
             \/ Close \/ closeReturns \/ UNCHANGED vars
      PROVE  UNCHANGED <<pc, left, buf, cur, mu, pending, flights, landed>>
  BY <1>1, Zenon DEF cancel, ctxWatch, lingerElapses, Close, closeReturns, callVars, agentVars, vars
<1>2. ASSUME \/ \E c \in Calls : \/ wrap(c) \/ rejectCanceled(c) \/ binByAgent(c) \/ multiAddClosed(c)
                                 \/ \E n \in Agents : agentBufferForClosed(c, n) \/ agentBufferFor(c, n)
             \/ UNCHANGED <<pc, left, buf, cur, mu, pending, flights, landed>>
      PROVE  ScopeInv' /\ Moves /\ Keeps
  BY <1>2, UnlockedScope, Zenon
<1>3. ASSUME NEW c \in Calls, multiAddLock(c) \/ maybeStartNextFlushTimerLocked(c)
      PROVE  ScopeInv' /\ Moves /\ Keeps
  BY <1>3, LockScope, Zenon
<1>4. ASSUME NEW c \in Calls, addToNextProduceLocked(c) PROVE ScopeInv' /\ Moves /\ Keeps
  BY <1>4, AddScope, Zenon
<1>5. ASSUME NEW n \in Agents, timerFlush(n) \/ closeAgent(n) PROVE ScopeInv' /\ Moves /\ Keeps
  BY <1>5, FlushScope, Zenon
<1>6. ASSUME NEW f \in flights, flushReturns(f) \/ deliver(f) PROVE ScopeInv' /\ Moves /\ Keeps
  BY <1>6, FlushReturnsScope, DeliverScope, Zenon
<1> QED
  BY <1>1, <1>2, <1>3, <1>4, <1>5, <1>6, Zenon DEF Next, CallStep

\* A leg is answered with the response of the flush that carried it whole, and what
\* that says stays true.
LEMMA StepAnswer ==
  ASSUME IInv, OrderInv, ScopeInv, AnswerInv, [CNext]_cvars, Moves, Keeps
  PROVE  AnswerInv'
<1> SUFFICES ASSUME NEW c \in Calls, legRes'[c].kind = "resp"
             PROVE  /\ legRes'[c].ok \cap legRes'[c].bad = {}
                    /\ \A i \in ItemsOf(c) : over(batch(i))' /\ tells(legRes[c], batch(i))'
  BY Zenon DEF AnswerInv, ItemsOf, batch, over, tells
<1>1. ASSUME legRes'[c].ok \cap legRes'[c].bad = {},
             \A i \in ItemsOf(c) : over(batch(i)) /\ tells(legRes'[c], batch(i))
      PROVE  /\ legRes'[c].ok \cap legRes'[c].bad = {}
             /\ \A i \in ItemsOf(c) : over(batch(i))' /\ tells(legRes[c], batch(i))'
  <2>1. \A i \in ItemsOf(c) : batch(i) \in Entry
    BY OneChunk, Zenon DEF ItemsOf
  <2>2. \A i \in ItemsOf(c) : over(batch(i))'
    BY <1>1, <2>1, OverStays, Zenon
  <2>3. \A i \in ItemsOf(c) : batch(i) \in landed' <=> PartOf[batch(i)[1]] \in legRes'[c].ok
    BY <1>1, <2>1, Zenon DEF tells, Keeps
  <2> QED
    BY <1>1, <2>2, <2>3, Zenon DEF tells, batch
<1>2. CASE legRes'[c] = legRes[c]
  <2>1. /\ legRes[c].ok \cap legRes[c].bad = {}
        /\ \A i \in ItemsOf(c) : over(batch(i)) /\ tells(legRes[c], batch(i))
    BY <1>2, Zenon DEF AnswerInv
  <2>2. \A i \in ItemsOf(c) : tells(legRes'[c], batch(i))
    BY <1>2, <2>1, Zenon DEF tells
  <2> QED
    BY <1>1, <1>2, <2>1, <2>2, Zenon
<1>3. ASSUME NEW f \in flights, deliver(f), f.res.kind # "none",
             f.entries[f.next][1] \in ItemsOf(c), legRes'[c] = f.res
      PROVE  /\ legRes'[c].ok \cap legRes'[c].bad = {}
             /\ \A i \in ItemsOf(c) : over(batch(i)) /\ tells(legRes'[c], batch(i))
  <2>1. f.res.kind = "resp"
    BY <1>3, Zenon
  <2>2. PICK e : e = f.entries[f.next]
    BY Zenon
  <2>3. f.next \in DOMAIN f.entries
    BY PlaceTypes, SeqElement, Zenon
  <2>4. e \in elems(f.entries) /\ CallOf[e[1]] = c
    BY <1>3, <2>2, <2>3, Zenon DEF elems, ItemsOf
  <2>5. \A i \in ItemsOf(c) : batch(i) \in elems(f.entries)
    BY <2>4, Zenon DEF ScopeInv, WholeInv, together
  <2>6. /\ f.res.ok \cap f.res.bad = {}
        /\ \A x \in elems(f.entries) : over(x) /\ tells(f.res, x)
    BY <1>3, <2>1, Zenon DEF ScopeInv, ReturnInv
  <2> QED
    BY <1>3, <2>5, <2>6, Zenon DEF tells
<1>4. \/ legRes'[c] = legRes[c]
      \/ \E f \in flights : /\ deliver(f) /\ f.res.kind # "none"
                            /\ f.entries[f.next][1] \in ItemsOf(c) /\ legRes'[c] = f.res
  <2>1. DOMAIN legRes = Calls
    BY Zenon DEF OrderInv
  <2>2. legRes'[c].kind # "ctx" /\ legRes'[c].kind # "closed"
    BY Zenon
  <2> QED
    BY <2>1, <2>2, LegAnsweredBy, Zenon
<1> QED
  BY <1>1, <1>2, <1>3, <1>4, Zenon

\* In the client, while legs fit.
LEMMA StepLegs == IInv /\ OrderInv /\ ScopeInv /\ AnswerInv /\ LegsFit /\ [CNext]_cvars
                    => (ScopeInv /\ AnswerInv)'
BY ClientStep, StepScope, StepAnswer, Zenon

\* What the invariants say of the legs.
LEMMA AnswersAreScoped ==
  ASSUME AnswerInv
  PROVE  LegsAreScoped
<1>1. \A i : batch(i) = <<i, 1>> /\ batch(i)[1] = i
  BY DEF batch
<1>2. ASSUME NEW c \in Calls, NEW p \in resolvedBy(c)
      PROVE  \E i \in ItemsOf(c) : PartOf[i] = p /\ <<i, 1>> \in landed
  <2>1. ~scopedErr(c, legRes[c]) /\ p \in legRes[c].ok /\ p \in own(c)
    BY <1>2, Zenon DEF resolvedBy
  <2>2. legRes[c].kind = "resp"
    BY <2>1, Zenon DEF scopedErr
  <2>3. PICK i \in ItemsOf(c) : PartOf[i] = p
    BY <2>1, Zenon DEF own
  <2>4. tells(legRes[c], batch(i))
    BY <2>2, <2>3, Zenon DEF AnswerInv
  <2> QED
    BY <1>1, <2>1, <2>3, <2>4, Zenon DEF tells
<1>3. ASSUME NEW c \in Calls, legRes[c].kind = "resp", \A i \in ItemsOf(c) : <<i, 1>> \in landed
      PROVE  resolvedBy(c) = own(c)
  <2>1. legRes[c].ok \cap legRes[c].bad = {} /\ \A i \in ItemsOf(c) : tells(legRes[c], batch(i))
    BY <1>3, Zenon DEF AnswerInv
  <2>2. \A i \in ItemsOf(c) : PartOf[i] \in legRes[c].ok
    BY <1>1, <1>3, <2>1, Zenon DEF tells
  <2>3. \A p \in own(c) : p \in legRes[c].ok /\ p \notin legRes[c].bad
    BY <2>1, <2>2, Zenon DEF own
  <2>4. ~scopedErr(c, legRes[c])
    BY <1>3, <2>3, Zenon DEF scopedErr
  <2>5. legRes[c].ok \cap own(c) = own(c)
    BY <2>3, Zenon
  <2> QED
    BY <2>4, <2>5, Zenon DEF resolvedBy
<1> QED
  BY <1>2, <1>3, Zenon DEF LegsAreScoped, LegResolvesOnlyWhatLanded

\* Legs that share the hedge buffer are answered for what they sent, each by the
\* flush that carried it (runHedgingAttempt, scopeProduceResultToPartitions),
\* however calls, timers, cancellations, flushes and Close interleave, as long as
\* the byte cap cuts no leg in two.
THEOREM SharedLegsAreScoped == CSpec /\ []LegsFit => []LegsAreScoped
<1>1. CInit => ScopeInv /\ AnswerInv
  BY InitScope, Zenon
<1>2. IInv /\ OrderInv /\ ScopeInv /\ AnswerInv /\ LegsFit /\ [CNext]_cvars => (ScopeInv /\ AnswerInv)'
  BY StepLegs, Zenon
<1>3. AnswerInv => LegsAreScoped
  BY AnswersAreScoped, Zenon
<1> QED
  BY <1>1, <1>2, <1>3, ClientInvariant, PTL DEF CSpec
=============================================================================
