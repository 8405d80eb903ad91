------------------------- MODULE RecordBufferProofs -------------------------
(***************************************************************************)
(* Safety of RecordBuffer for every number of agents, calls, items and     *)
(* chunks and every byte cap.  TypeOK, NoStrandedBatch, FlushWithinCap and *)
(* CloseDrains follow from one inductive invariant, IInv.                  *)
(***************************************************************************)
EXTENDS RecordBuffer, TLAPS

\* A call in the middle of a bin points at a chunk that exists.
CursorOK ==
  \A c \in Calls : buf[c] # None /\ cur[c][1] <= Len(Bin[c][buf[c]]) /\ mu[buf[c]] = c =>
    cur[c][2] <= Len(Chunks[NextItem(c)])

\* A flush has an entry left to report to and is over the cap only when single.
FlightsOK ==
  \A f \in flights : /\ f.next <= Len(f.entries)
                     /\ f.bytes > BatchMaxBytes => Len(f.entries) = 1

\* The holder of mu is a call that adds to that buffer, found open.
LockOK ==
  \A n \in Agents : mu[n] # None => buf[mu[n]] = n /\ ~aClosed[n]

\* The timer is set exactly while something is pending, except inside mu, and a
\* fired timer has its callback waiting.
TimerOK ==
  \A n \in Agents : /\ timer[n] # "nil" => pending[n] # << >>
                    /\ pending[n] # << >> /\ mu[n] = None => timer[n] # "nil"
                    /\ timer[n] = "fired" => callbacks[n] > 0

\* What is pending is counted, and is over the cap only when it is one chunk.
BytesOK ==
  \A n \in Agents : /\ pending[n] = << >> => bytes[n] = 0
                    /\ bytes[n] > BatchMaxBytes => Len(pending[n]) = 1

\* Buffers in use are ones Close takes over; a closed one stays empty.
CloseOK ==
  /\ cbClosed <=> closer # "open"
  /\ IF cbClosed THEN known = {} ELSE closing = {}
  /\ \A c \in Calls : buf[c] # None => buf[c] \in known \cup closing
  /\ \A n \in Agents : pending[n] # << >> => n \in known \cup closing /\ ~aClosed[n]
  /\ \A f \in flights : f.node \in known \cup closing
  /\ closer = "closed" => flights = {} /\ \A n \in closing : aClosed[n]

IInv == TypeOK /\ CursorOK /\ FlightsOK /\ LockOK /\ TimerOK /\ BytesOK /\ CloseOK

-----------------------------------------------------------------------------
\* None is neither a call nor an agent.
LEMMA NoneIsNobody == (\A c \in Calls : c # None) /\ (\A n \in Agents : n # None)
BY BufferAssumption, Zenon

\* An entry is a pair of an item and the number of one of its chunks.
LEMMA EntryIsChunk ==
  /\ \A i \in Items : \A k \in DOMAIN Chunks[i] : <<i, k>> \in Entry
  /\ \A e \in Entry : e[1] \in Items
BY DEF Entry

\* An index within a sequence's length is in its domain, and its element typed.
LEMMA SeqElement ==
  ASSUME NEW S, NEW s \in Seq(S), NEW k \in Nat \ {0}, k <= Len(s)
  PROVE  k \in DOMAIN s /\ s[k] \in S
OBVIOUS

\* Bins hold items, and an item has at least one chunk.
LEMMA BinsAndChunks ==
  /\ \A c \in Calls, n \in Agents : Bin[c][n] \in Seq(Items)
  /\ \A i \in Items : Chunks[i] \in Seq(Nat \ {0}) /\ 1 <= Len(Chunks[i])
BY BufferAssumption

\* ErrResult builds results.
LEMMA ErrResultType ==
  /\ ErrResult("none") \in Result /\ ErrResult("ctx") \in Result
  /\ ErrResult("closed") \in Result /\ ErrResult("err") \in Result
BY Zenon DEF ErrResult, Result

\* Completing the items of S keeps the types of what wrap layers around them.
LEMMA WrappedDoneType ==
  ASSUME TypeOK, NEW S, NEW res, \A i \in S \cap Items : res[i] \in Result,
         wrappedDone(S, res)
  PROVE  /\ contrib' \in [Items -> Int]
         /\ released' \in [Items -> BOOLEAN]
         /\ watch' \in [Items -> {"off", "armed", "started"}]
         /\ outcome' \in [Items -> Result]
         /\ fires' \in [Items -> Nat]
<1>1. contrib' \in [Items -> Int]
  BY DEF wrappedDone, TypeOK
<1>2. released' \in [Items -> BOOLEAN]
  BY Zenon DEF wrappedDone, TypeOK
<1>3. watch' \in [Items -> {"off", "armed", "started"}]
  BY Zenon DEF wrappedDone, TypeOK
<1>4. outcome' \in [Items -> Result]
  BY Zenon DEF wrappedDone, TypeOK
<1>5. fires' \in [Items -> Nat]
  BY DEF wrappedDone, TypeOK
<1> QED BY <1>1, <1>2, <1>3, <1>4, <1>5, Zenon

\* failItems gives every item of S an error of the kind.
LEMMA FailItemsType ==
  ASSUME TypeOK, NEW S, NEW kind \in {"ctx", "closed"}, failItems(S, kind)
  PROVE  /\ contrib' \in [Items -> Int]
         /\ released' \in [Items -> BOOLEAN]
         /\ watch' \in [Items -> {"off", "armed", "started"}]
         /\ outcome' \in [Items -> Result]
         /\ fires' \in [Items -> Nat]
<1> DEFINE res == [i \in S |-> ErrResult(kind)]
<1>1. \A i \in S \cap Items : res[i] \in Result
  BY ErrResultType, Zenon
<1>2. wrappedDone(S, res)
  BY Zenon DEF failItems
<1> HIDE DEF res
<1> QED BY <1>1, <1>2, WrappedDoneType, Zenon

\* What the done of one chunk leaves behind is well typed.
LEMMA ChunkDoneType ==
  ASSUME TypeOK, NEW i \in Items, NEW r \in Result, chunkDone(i, r)
  PROVE  /\ contrib' \in [Items -> Int]
         /\ released' \in [Items -> BOOLEAN]
         /\ watch' \in [Items -> {"off", "armed", "started"}]
         /\ outcome' \in [Items -> Result]
         /\ fires' \in [Items -> Nat]
         /\ fanin' \in [Items -> [left : Int, res : Result]]
<1>1. chosen(i, r) \in Result
  BY Zenon DEF chosen, TypeOK
<1>2. CASE Len(Chunks[i]) = 1
  <2> DEFINE one == [j \in {i} |-> r]
  <2>1. wrappedDone({i}, one) /\ UNCHANGED fanin
    BY <1>2, Zenon DEF chunkDone
  <2>2. \A j \in {i} \cap Items : one[j] \in Result
    BY Zenon
  <2> HIDE DEF one
  <2> QED BY <2>1, <2>2, WrappedDoneType, Zenon DEF TypeOK
<1>3. CASE Len(Chunks[i]) # 1
  <2> DEFINE one == [j \in {i} |-> chosen(i, r)]
  <2>1. /\ fanin' = [fanin EXCEPT ![i] = [left |-> fanin[i].left - 1, res |-> chosen(i, r)]]
        /\ wrappedDone({i}, one) \/ UNCHANGED doneVars
    BY <1>3, Zenon DEF chunkDone
  <2>2. \A j \in {i} \cap Items : one[j] \in Result
    BY <1>1, Zenon
  <2>3. fanin' \in [Items -> [left : Int, res : Result]]
    BY <1>1, <2>1 DEF TypeOK
  <2> HIDE DEF one
  <2>4. CASE wrappedDone({i}, one)
    BY <2>2, <2>3, <2>4, WrappedDoneType, Zenon
  <2>5. CASE UNCHANGED doneVars
    BY <2>3, <2>5, Zenon DEF TypeOK, doneVars
  <2> QED BY <2>1, <2>4, <2>5, Zenon
<1> QED BY <1>2, <1>3, Zenon

-----------------------------------------------------------------------------
\* IInv holds initially.
LEMMA InitIInv == Init => IInv
<1> SUFFICES ASSUME Init PROVE IInv
  BY Zenon
<1> USE DEF Init
<1>1. TypeOK
  <2>1. \A i \in Items : Len(Chunks[i]) \in Int
    BY BufferAssumption
  <2>2. NoResult \in Result
    BY ErrResultType, Zenon DEF NoResult
  <2>3. fanin \in [Items -> [left : Int, res : Result]]
    BY <2>1, <2>2, Zenon
  <2>4. outcome \in [Items -> Result]
    BY <2>2, Zenon
  <2>5. pending \in [Agents -> Seq(Entry)]
    OBVIOUS
  <2>6. cur \in [Calls -> (Nat \ {0}) \X (Nat \ {0})]
    OBVIOUS
  <2>7. pc \in [Calls -> {"idle", "wrapped", "binning"}]
    BY Zenon
  <2>8. released \in [Items -> BOOLEAN] /\ aClosed \in [Agents -> BOOLEAN]
    BY Zenon
  <2>9. /\ left \in [Calls -> SUBSET Agents] /\ buf \in [Calls -> Agents \cup {None}]
        /\ ctx \in [Calls -> {"live", "canceled"}]
    BY Zenon
  <2>10. /\ watch \in [Items -> {"off", "armed", "started"}]
         /\ contrib \in [Items -> Int] /\ fires \in [Items -> Nat]
    OBVIOUS
  <2>11. /\ mu \in [Agents -> Calls \cup {None}]
         /\ timer \in [Agents -> {"nil", "running", "fired"}]
         /\ bytes \in [Agents -> Nat] /\ callbacks \in [Agents -> Nat]
    BY Zenon
  <2>12. /\ known \in SUBSET Agents /\ cbClosed \in BOOLEAN /\ closing \in SUBSET Agents
         /\ closer \in {"open", "draining", "closed"}
         /\ flights \subseteq Flight /\ landed \subseteq Entry
    BY Zenon
  <2> HIDE DEF Init
  <2> QED BY <2>3, <2>4, <2>5, <2>6, <2>7, <2>8, <2>9, <2>10, <2>11, <2>12, Zenon DEF TypeOK
<1>2. CursorOK /\ FlightsOK /\ LockOK /\ TimerOK /\ BytesOK /\ CloseOK
  BY BufferAssumption DEF CursorOK, FlightsOK, LockOK, TimerOK, BytesOK, CloseOK
<1> QED BY <1>1, <1>2, Zenon DEF IInv

\* Only the types are at stake where no lock, buffer, timer or flush is touched.
LEMMA FrameIInv ==
  ASSUME IInv, TypeOK', UNCHANGED <<buf, cur, closeVars, agentVars, flights>>
  PROVE  IInv'
<1> USE DEF closeVars, agentVars
<1>1. CursorOK' /\ FlightsOK' /\ LockOK' /\ TimerOK' /\ BytesOK'
  BY Zenon DEF IInv, CursorOK, NextItem, FlightsOK, LockOK, TimerOK, BytesOK
<1>2. CloseOK'
  BY Zenon DEF IInv, CloseOK
<1> QED BY <1>1, <1>2, Zenon DEF IInv

\* Steps of a call and of its ctx before and beside the buffers.
LEMMA CallerIInv ==
  ASSUME IInv, NEW c \in Calls,
         wrap(c) \/ rejectCanceled(c) \/ binByAgent(c) \/ cancel(c)
         \/ \E n \in Agents : agentBufferForClosed(c, n)
  PROVE  IInv'
<1> USE DEF callVars, doneVars, closeVars, agentVars
<1>1. CASE wrap(c)
  <2>1. TypeOK'
    BY <1>1 DEF IInv, TypeOK, wrap
  <2> QED BY <1>1, <2>1, FrameIInv, Zenon DEF wrap
<1>2. CASE rejectCanceled(c)
  <2>1. TypeOK'
    BY <1>2, FailItemsType, Zenon DEF IInv, TypeOK, rejectCanceled
  <2> QED BY <1>2, <2>1, FrameIInv, Zenon DEF rejectCanceled
<1>3. CASE binByAgent(c)
  <2>1. TypeOK'
    BY <1>3, Zenon DEF IInv, TypeOK, binByAgent
  <2> QED BY <1>3, <2>1, FrameIInv, Zenon DEF binByAgent
<1>4. CASE cancel(c)
  <2>1. TypeOK'
    BY <1>4, Zenon DEF IInv, TypeOK, cancel
  <2> QED BY <1>4, <2>1, FrameIInv, Zenon DEF cancel
<1>5. ASSUME NEW n \in Agents, agentBufferForClosed(c, n) PROVE IInv'
  <2>1. TypeOK'
    BY <1>5, FailItemsType, Zenon DEF IInv, TypeOK, agentBufferForClosed
  <2> QED BY <1>5, <2>1, FrameIInv, Zenon DEF agentBufferForClosed
<1> QED BY <1>1, <1>2, <1>3, <1>4, <1>5, Zenon

\* The callback of the ctx watch.
LEMMA CtxWatchIInv ==
  ASSUME IInv, NEW i \in Items, ctxWatch(i)
  PROVE  IInv'
<1> USE DEF callVars, closeVars, agentVars
<1>1. watch' \in [Items -> {"off", "armed", "started"}]
  BY Zenon DEF IInv, TypeOK, ctxWatch
<1>2. outcome' \in [Items -> Result] /\ fires' \in [Items -> Nat]
  <2>1. CASE fires[i] = 0
    <3>1. /\ outcome' = [outcome EXCEPT ![i] = ErrResult("ctx")]
          /\ fires' = [fires EXCEPT ![i] = 1]
      BY <2>1, Zenon DEF ctxWatch
    <3> QED BY <3>1, ErrResultType, Zenon DEF IInv, TypeOK
  <2>2. CASE fires[i] # 0
    BY <2>2, Zenon DEF IInv, TypeOK, ctxWatch
  <2> QED BY <2>1, <2>2, Zenon
<1>3. TypeOK'
  BY <1>1, <1>2, Zenon DEF IInv, TypeOK, ctxWatch
<1> QED BY <1>3, FrameIInv, Zenon DEF ctxWatch

\* A call that finds the buffer it had looked up closed.
LEMMA MultiAddClosedIInv ==
  ASSUME IInv, NEW c \in Calls, multiAddClosed(c)
  PROVE  IInv'
<1> USE DEF closeVars, agentVars
<1> DEFINE S == InBin(c, buf[c])
<1>1. fanin' \in [Items -> [left : Int, res : Result]]
  BY ErrResultType DEF IInv, TypeOK, multiAddClosed, failChunks
<1>2. failItems(S, "closed")
  BY Zenon DEF multiAddClosed, failChunks
<1> HIDE DEF S
<1>3. TypeOK'
  BY <1>1, <1>2, FailItemsType, Zenon DEF IInv, TypeOK, multiAddClosed
<1>4. CursorOK' /\ LockOK'
  BY ZenonT(40) DEF IInv, TypeOK, CursorOK, LockOK, NextItem, multiAddClosed
<1>5. FlightsOK' /\ TimerOK' /\ BytesOK' /\ CloseOK'
  BY Zenon DEF IInv, TypeOK, FlightsOK, TimerOK, BytesOK, CloseOK, multiAddClosed
<1> QED BY <1>3, <1>4, <1>5, Zenon DEF IInv

\* A call looks up, or creates, the buffer of an agent.
LEMMA AgentBufferForIInv ==
  ASSUME IInv, NEW c \in Calls, NEW n \in Agents, agentBufferFor(c, n)
  PROVE  IInv'
<1> USE DEF doneVars, agentVars
<1>1. TypeOK'
  BY Zenon DEF IInv, TypeOK, agentBufferFor
<1>2. mu[n] # c /\ \A m \in Agents : mu[m] # c
  BY NoneIsNobody, Zenon DEF IInv, LockOK, agentBufferFor
<1>3. CursorOK'
  <2> SUFFICES ASSUME NEW d \in Calls, buf'[d] # None, mu'[buf'[d]] = d,
                      cur'[d][1] <= Len(Bin[d][buf'[d]])
               PROVE  cur'[d][2] <= Len(Chunks[Bin[d][buf'[d]][cur'[d][1]]])
    BY Zenon DEF CursorOK, NextItem
  <2>1. d # c
    BY <1>2, Zenon DEF IInv, TypeOK, agentBufferFor
  <2> QED BY <2>1, Zenon DEF IInv, TypeOK, CursorOK, NextItem, agentBufferFor
<1>4. LockOK'
  BY <1>2, ZenonT(40) DEF IInv, TypeOK, LockOK, agentBufferFor
<1>5. FlightsOK' /\ TimerOK' /\ BytesOK' /\ CloseOK'
  BY DEF IInv, TypeOK, FlightsOK, TimerOK, BytesOK, CloseOK, agentBufferFor
<1> QED BY <1>1, <1>3, <1>4, <1>5, Zenon DEF IInv

\* A call takes mu of an open buffer.
LEMMA MultiAddLockIInv ==
  ASSUME IInv, NEW c \in Calls, multiAddLock(c)
  PROVE  IInv'
<1> USE DEF doneVars, closeVars
<1>1. TypeOK'
  BY SMTT(30) DEF IInv, TypeOK, multiAddLock
<1>2. CursorOK'
  <2> SUFFICES ASSUME NEW d \in Calls, buf'[d] # None, mu'[buf'[d]] = d,
                      cur'[d][1] <= Len(Bin[d][buf'[d]])
               PROVE  cur'[d][2] <= Len(Chunks[Bin[d][buf'[d]][cur'[d][1]]])
    BY Zenon DEF CursorOK, NextItem
  <2>1. CASE d = c
    <3>1. cur'[d] = <<1, 1>> /\ buf[c] \in Agents /\ buf'[d] = buf[c]
      BY <2>1 DEF IInv, TypeOK, multiAddLock
    <3>2. Bin[d][buf[c]] \in Seq(Items)
      BY <3>1, BinsAndChunks, Zenon
    <3>3. Bin[d][buf[c]][1] \in Items
      BY <3>1, <3>2, SeqElement
    <3>4. \A i \in Items : 1 <= Len(Chunks[i])
      BY BinsAndChunks, Zenon
    <3> QED BY <3>1, <3>3, <3>4
  <2>2. CASE d # c
    BY <2>2, ZenonT(40) DEF IInv, TypeOK, CursorOK, NextItem, multiAddLock
  <2> QED BY <2>1, <2>2, Zenon
<1>3. LockOK' /\ TimerOK' /\ BytesOK'
  BY ZenonT(40) DEF IInv, TypeOK, LockOK, TimerOK, BytesOK, multiAddLock
<1>4. FlightsOK' /\ CloseOK'
  BY Zenon DEF IInv, FlightsOK, CloseOK, multiAddLock
<1> QED BY <1>1, <1>2, <1>3, <1>4, Zenon DEF IInv

-----------------------------------------------------------------------------
\* startFlushLocked leaves the timer nil and dispatches at most what is pending.
LEMMA StartFlush ==
  ASSUME IInv, NEW n \in Agents, startFlushLocked(n)
  PROVE  /\ timer' = [timer EXCEPT ![n] = "nil"]
         /\ flights' \subseteq Flight
         /\ FlightsOK'
         /\ \A f \in flights' : f \in flights \/ (f.node = n /\ pending[n] # << >>)
<1>1. CASE pending[n] = << >>
  <2>1. timer[n] = "nil" /\ UNCHANGED <<timer, flights>>
    BY <1>1, Zenon DEF IInv, TimerOK, startFlushLocked
  <2>2. timer' = [timer EXCEPT ![n] = "nil"]
    BY <2>1, Zenon DEF IInv, TypeOK
  <2> QED BY <2>1, <2>2, Zenon DEF IInv, TypeOK, FlightsOK
<1>2. CASE pending[n] # << >>
  <2> DEFINE g == [node |-> n, entries |-> pending[n], bytes |-> bytes[n],
                   next |-> 1, res |-> NoResult]
  <2>1. timer' = [timer EXCEPT ![n] = "nil"] /\ flights' = flights \cup {g}
    BY <1>2, Zenon DEF startFlushLocked
  <2>2. pending[n] \in Seq(Entry) /\ bytes[n] \in Nat
    BY Zenon DEF IInv, TypeOK
  <2>3. g \in Flight
    BY <2>2, ErrResultType DEF Flight, NoResult
  <2>4. g.next <= Len(g.entries)
    BY <1>2, <2>2
  <2>5. g.bytes > BatchMaxBytes => Len(g.entries) = 1
    BY Zenon DEF IInv, BytesOK
  <2>6. g.node = n
    BY Zenon
  <2> HIDE DEF g
  <2> QED BY <1>2, <2>1, <2>3, <2>4, <2>5, <2>6, Zenon DEF IInv, TypeOK, FlightsOK
<1> QED BY <1>1, <1>2, Zenon

\* A timer callback takes mu and flushes whatever is pending by then.
LEMMA TimerFlushIInv ==
  ASSUME IInv, NEW n \in Agents, timerFlush(n)
  PROVE  IInv'
<1> USE DEF callVars, doneVars, closeVars
<1>1. /\ timer' = [timer EXCEPT ![n] = "nil"]
      /\ flights' \subseteq Flight /\ FlightsOK'
      /\ \A f \in flights' : f \in flights \/ (f.node = n /\ pending[n] # << >>)
  BY StartFlush, Zenon DEF timerFlush
<1>2. pending' \in [Agents -> Seq(Entry)]
  BY DEF IInv, TypeOK, timerFlush
<1>3. TypeOK'
  BY <1>1, <1>2 DEF IInv, TypeOK, timerFlush
<1>4. CursorOK' /\ LockOK'
  BY Zenon DEF IInv, CursorOK, LockOK, NextItem, timerFlush
<1>5. TimerOK'
  BY <1>1, Zenon DEF IInv, TypeOK, TimerOK, timerFlush
<1>6. BytesOK'
  BY BufferAssumption DEF IInv, TypeOK, BytesOK, timerFlush
<1>7. CloseOK'
  BY <1>1 DEF IInv, TypeOK, CloseOK, timerFlush
<1> QED BY <1>1, <1>3, <1>4, <1>5, <1>6, <1>7, Zenon DEF IInv

\* Close of one agent's buffer.
LEMMA CloseAgentIInv ==
  ASSUME IInv, NEW n \in Agents, closeAgent(n)
  PROVE  IInv'
<1> USE DEF callVars, doneVars, closeVars
<1>1. /\ timer' = [timer EXCEPT ![n] = "nil"]
      /\ flights' \subseteq Flight /\ FlightsOK'
      /\ \A f \in flights' : f \in flights \/ (f.node = n /\ pending[n] # << >>)
  BY StartFlush, Zenon DEF closeAgent
<1>2. pending' \in [Agents -> Seq(Entry)]
  BY DEF IInv, TypeOK, closeAgent
<1>3. TypeOK'
  BY <1>1, <1>2, Zenon DEF IInv, TypeOK, closeAgent
<1>4. CursorOK' /\ LockOK'
  BY Zenon DEF IInv, TypeOK, CursorOK, LockOK, NextItem, closeAgent
<1>5. TimerOK'
  BY <1>1, Zenon DEF IInv, TypeOK, TimerOK, closeAgent
<1>6. BytesOK'
  BY BufferAssumption DEF IInv, TypeOK, BytesOK, closeAgent
<1>7. CloseOK'
  BY <1>1, Zenon DEF IInv, TypeOK, CloseOK, closeAgent
<1> QED BY <1>1, <1>3, <1>4, <1>5, <1>6, <1>7, Zenon DEF IInv

\* The linger timer elapses.
LEMMA LingerIInv ==
  ASSUME IInv, NEW n \in Agents, lingerElapses(n)
  PROVE  IInv'
<1> USE DEF callVars, doneVars, closeVars
<1>1. TypeOK'
  BY DEF IInv, TypeOK, lingerElapses
<1>2. CursorOK' /\ LockOK' /\ FlightsOK' /\ BytesOK'
  BY Zenon DEF IInv, CursorOK, LockOK, NextItem, FlightsOK, BytesOK, lingerElapses
<1>3. TimerOK'
  BY DEF IInv, TypeOK, TimerOK, lingerElapses
<1>4. CloseOK'
  BY Zenon DEF IInv, CloseOK, lingerElapses
<1> QED BY <1>1, <1>2, <1>3, <1>4, Zenon DEF IInv

\* ClusterBuffer.Close marks the buffer closed, and returns.
LEMMA CloseIInv ==
  ASSUME IInv, Close \/ closeReturns
  PROVE  IInv'
<1> USE DEF callVars, doneVars, agentVars
<1>1. TypeOK'
  BY ZenonT(40) DEF IInv, TypeOK, Close, closeReturns
<1>2. CursorOK' /\ LockOK' /\ FlightsOK' /\ TimerOK' /\ BytesOK'
  BY ZenonT(40) DEF IInv, CursorOK, LockOK, NextItem, FlightsOK, TimerOK, BytesOK, Close, closeReturns
<1>3. CloseOK'
  BY ZenonT(40) DEF IInv, TypeOK, CloseOK, Close, closeReturns
<1> QED BY <1>1, <1>2, <1>3, Zenon DEF IInv

-----------------------------------------------------------------------------
\* One chunk joins what is pending, after a flush when it would not fit.
LEMMA AddIInv ==
  ASSUME IInv, NEW c \in Calls, addToNextProduceLocked(c)
  PROVE  IInv'
<1> USE DEF doneVars, closeVars
<1> DEFINE n == buf[c]
           i == NextItem(c)
           e == <<i, cur[c][2]>>
<1>1. n \in Agents /\ mu[n] = c /\ ~aClosed[n] /\ n \in known \cup closing
  BY NoneIsNobody, Zenon DEF IInv, TypeOK, LockOK, CloseOK, addToNextProduceLocked
<1>2. /\ cur[c] \in (Nat \ {0}) \X (Nat \ {0})
      /\ cur[c][1] \in Nat \ {0} /\ cur[c][2] \in Nat \ {0}
  BY Zenon DEF IInv, TypeOK
<1>3. i \in Items
  <2>1. cur[c][1] <= Len(Bin[c][n])
    BY Zenon DEF addToNextProduceLocked
  <2>2. Bin[c][n] \in Seq(Items)
    BY <1>1, BinsAndChunks, Zenon
  <2>3. Bin[c][n][cur[c][1]] \in Items
    BY <1>2, <2>1, <2>2, SeqElement, Zenon
  <2> QED BY <2>3, Zenon DEF NextItem
<1>4. cur[c][2] <= Len(Chunks[i])
  BY <1>1, Zenon DEF IInv, CursorOK, addToNextProduceLocked
<1>5. Chunks[i] \in Seq(Nat \ {0}) /\ cur[c][2] \in DOMAIN Chunks[i]
  <2>1. Chunks[i] \in Seq(Nat \ {0})
    BY <1>3, BinsAndChunks, Zenon
  <2> QED BY <1>2, <1>4, <2>1, SeqElement
<1>6. e \in Entry
  BY <1>3, <1>5, EntryIsChunk, Zenon
<1>7. WireBytes(e) \in Nat \ {0}
  BY <1>5 DEF WireBytes
<1>8. pending[n] \in Seq(Entry) /\ bytes[n] \in Nat
  BY <1>1, Zenon DEF IInv, TypeOK
<1>9. /\ cur' = [cur EXCEPT ![c] = Advanced(c)]
      /\ UNCHANGED <<pc, left, buf, ctx, doneVars, fanin, closeVars, mu, aClosed,
                     callbacks, landed>>
  BY Zenon DEF addToNextProduceLocked
<1>10. \/ /\ overflows(n, WireBytes(e)) /\ startFlushLocked(n)
          /\ pending' = [pending EXCEPT ![n] = <<e>>]
          /\ bytes' = [bytes EXCEPT ![n] = WireBytes(e)]
       \/ /\ ~overflows(n, WireBytes(e))
          /\ pending' = [pending EXCEPT ![n] = Append(pending[n], e)]
          /\ bytes' = [bytes EXCEPT ![n] = bytes[n] + WireBytes(e)]
          /\ UNCHANGED <<timer, flights>>
  BY Zenon DEF addToNextProduceLocked
<1> HIDE DEF e, i
\* The place after the chunk is well typed, and inside the item if not past it.
<1>11. Advanced(c) \in (Nat \ {0}) \X (Nat \ {0})
  BY <1>2 DEF Advanced
<1>12. CursorOK'
  <2> SUFFICES ASSUME NEW d \in Calls, buf[d] # None, mu[buf[d]] = d,
                      cur'[d][1] <= Len(Bin[d][buf[d]])
               PROVE  cur'[d][2] <= Len(Chunks[Bin[d][buf[d]][cur'[d][1]]])
    BY <1>9, Zenon DEF CursorOK, NextItem
  <2>1. CASE d # c
    BY <1>9, <2>1, Zenon DEF IInv, TypeOK, CursorOK, NextItem
  <2>2. CASE d = c /\ cur[c][2] < Len(Chunks[i])
    <3>1. cur'[d] = <<cur[c][1], cur[c][2] + 1>>
      BY <1>9, <2>2, Zenon DEF IInv, TypeOK, Advanced, i
    <3>2. Bin[d][buf[d]][cur'[d][1]] = i
      BY <3>1, <2>2, SMTT(40) DEF i, NextItem
    <3>3. cur'[d][2] = cur[c][2] + 1
      BY <3>1
    <3>4. Len(Chunks[i]) \in Nat
      BY <1>5
    <3>5. cur[c][2] + 1 <= Len(Chunks[i])
      BY <1>2, <2>2, <3>4
    <3> QED BY <3>2, <3>3, <3>5, Zenon
  <2>3. CASE d = c /\ ~(cur[c][2] < Len(Chunks[i]))
    <3>1. cur'[d] = <<cur[c][1] + 1, 1>>
      BY <1>9, <2>3, Zenon DEF IInv, TypeOK, Advanced, i
    <3>2. Bin[d][buf[d]][cur'[d][1]] \in Items
      <4>1. Bin[d][buf[d]] \in Seq(Items) /\ cur'[d][1] \in Nat \ {0}
        BY <1>1, <1>2, <2>3, <3>1, BinsAndChunks
      <4> QED BY <4>1, SeqElement, Zenon
    <3>3. \A j \in Items : 1 <= Len(Chunks[j])
      BY BinsAndChunks, Zenon
    <3> QED BY <3>1, <3>2, <3>3, SMTT(40)
  <2> QED BY <2>1, <2>2, <2>3, Zenon
<1>13. LockOK'
  BY <1>9, Zenon DEF IInv, LockOK
<1>14. closer # "closed"
  BY <1>1, Zenon DEF IInv, CloseOK
<1>15. CASE overflows(n, WireBytes(e))
  <2>1. /\ pending' = [pending EXCEPT ![n] = <<e>>]
        /\ bytes' = [bytes EXCEPT ![n] = WireBytes(e)]
        /\ startFlushLocked(n)
    BY <1>10, <1>15, Zenon
  <2>2. /\ timer' = [timer EXCEPT ![n] = "nil"]
        /\ flights' \subseteq Flight /\ FlightsOK'
        /\ \A f \in flights' : f \in flights \/ (f.node = n /\ pending[n] # << >>)
    BY <1>1, <2>1, StartFlush, Zenon
  <2>3. pending' \in [Agents -> Seq(Entry)]
    <3>1. <<e>> \in Seq(Entry)
      BY <1>6
    <3> QED BY <2>1, <3>1, Zenon DEF IInv, TypeOK
  <2>4. TypeOK'
    BY <1>7, <1>9, <1>11, <2>1, <2>2, <2>3, Zenon DEF IInv, TypeOK
  <2>5. TimerOK'
    BY <1>1, <1>9, <2>1, <2>2, NoneIsNobody, Zenon DEF IInv, TypeOK, TimerOK
  <2>6. BytesOK'
    BY <1>1, <2>1, Zenon DEF IInv, TypeOK, BytesOK
  <2>7. CloseOK'
    <3>1. \A m \in Agents : pending'[m] # << >> => m \in known \cup closing /\ ~aClosed[m]
      BY <1>1, <2>1, Zenon DEF IInv, TypeOK, CloseOK
    <3>2. \A f \in flights' : f.node \in known \cup closing
      BY <1>1, <2>2, Zenon DEF IInv, CloseOK
    <3> QED BY <1>9, <1>14, <3>1, <3>2, Zenon DEF IInv, CloseOK
  <2> QED BY <1>12, <1>13, <2>2, <2>4, <2>5, <2>6, <2>7, Zenon DEF IInv
<1>16. CASE ~overflows(n, WireBytes(e))
  <2>1. /\ pending' = [pending EXCEPT ![n] = Append(pending[n], e)]
        /\ bytes' = [bytes EXCEPT ![n] = bytes[n] + WireBytes(e)]
        /\ UNCHANGED <<timer, flights>>
    BY <1>10, <1>16, Zenon
  <2>2. /\ Append(pending[n], e) \in Seq(Entry) /\ Append(pending[n], e) # << >>
        /\ Len(Append(pending[n], e)) = Len(pending[n]) + 1
    BY <1>6, <1>8
  <2>3. pending' \in [Agents -> Seq(Entry)]
    BY <2>1, <2>2, Zenon DEF IInv, TypeOK
  <2>4. TypeOK'
    <3>1. bytes' \in [Agents -> Nat]
      <4>1. bytes[n] + WireBytes(e) \in Nat
        BY <1>7, <1>8
      <4>2. bytes \in [Agents -> Nat]
        BY Zenon DEF IInv, TypeOK
      <4> QED BY <2>1, <4>1, <4>2, Zenon
    <3>2. cur' \in [Calls -> (Nat \ {0}) \X (Nat \ {0})]
      BY <1>9, <1>11, Zenon DEF IInv, TypeOK
    <3> QED BY <1>9, <2>1, <2>3, <3>1, <3>2, Zenon DEF IInv, TypeOK
  <2>5. FlightsOK' /\ TimerOK'
    BY <1>1, <1>9, <2>1, <2>2, NoneIsNobody, Zenon DEF IInv, TypeOK, FlightsOK, TimerOK
  <2>6. bytes[n] + WireBytes(e) > BatchMaxBytes => pending[n] = << >>
    BY <1>16, Zenon DEF overflows
  <2>7. BytesOK'
    BY <1>1, <1>8, <2>1, <2>2, <2>6, SMTT(40) DEF IInv, TypeOK, BytesOK
  <2>8. CloseOK'
    <3>1. \A m \in Agents : pending'[m] # << >> => m \in known \cup closing /\ ~aClosed[m]
      BY <1>1, <2>1, Zenon DEF IInv, TypeOK, CloseOK
    <3> QED BY <1>9, <1>14, <2>1, <3>1, Zenon DEF IInv, CloseOK
  <2> QED BY <1>12, <1>13, <2>4, <2>5, <2>7, <2>8, Zenon DEF IInv
<1> QED BY <1>15, <1>16, Zenon

\* The bin is done: the timer is armed if need be and mu is released.
LEMMA MaybeStartIInv ==
  ASSUME IInv, NEW c \in Calls, maybeStartNextFlushTimerLocked(c)
  PROVE  IInv'
<1> USE DEF doneVars, closeVars
<1> DEFINE n == buf[c]
<1>1. n \in Agents /\ mu[n] = c
  BY SMTT(40) DEF IInv, TypeOK, maybeStartNextFlushTimerLocked
<1>2. /\ timer' = [timer EXCEPT ![n] =
                     IF pending[n] # << >> /\ timer[n] = "nil" THEN "running" ELSE timer[n]]
      /\ mu' = [mu EXCEPT ![n] = None]
      /\ buf' = [buf EXCEPT ![c] = None]
  BY Zenon DEF maybeStartNextFlushTimerLocked
<1>3. TypeOK'
  <2>1. /\ timer' \in [Agents -> {"nil", "running", "fired"}]
        /\ mu' \in [Agents -> Calls \cup {None}]
        /\ buf' \in [Calls -> Agents \cup {None}]
    BY <1>2, Zenon DEF IInv, TypeOK
  <2>2. left' \in [Calls -> SUBSET Agents]
    BY Zenon DEF IInv, TypeOK, maybeStartNextFlushTimerLocked
  <2> QED BY <2>1, <2>2, Zenon DEF IInv, TypeOK, maybeStartNextFlushTimerLocked
<1>4. CursorOK'
  <2> SUFFICES ASSUME NEW d \in Calls, buf'[d] # None, mu'[buf'[d]] = d,
                      cur[d][1] <= Len(Bin[d][buf'[d]])
               PROVE  cur[d][2] <= Len(Chunks[Bin[d][buf'[d]][cur[d][1]]])
    BY Zenon DEF CursorOK, NextItem, maybeStartNextFlushTimerLocked
  <2>1. d # c /\ buf'[d] = buf[d] /\ buf[d] \in Agents
    BY <1>2 DEF IInv, TypeOK
  <2>2. mu[buf[d]] = d
    BY <1>1, <1>2, <2>1, NoneIsNobody, Zenon DEF IInv, TypeOK
  <2> QED BY <2>1, <2>2, Zenon DEF IInv, CursorOK, NextItem
<1>5. LockOK'
  <2> SUFFICES ASSUME NEW m \in Agents, mu'[m] # None
               PROVE  buf'[mu'[m]] = m /\ ~aClosed'[m]
    BY Zenon DEF LockOK
  <2>1. m # n /\ mu'[m] = mu[m]
    BY <1>1, <1>2, Zenon DEF IInv, TypeOK
  <2>2. buf[mu[m]] = m /\ ~aClosed[m] /\ mu[m] \in Calls
    BY <2>1, Zenon DEF IInv, TypeOK, LockOK
  <2>3. mu[m] # c
    BY <2>1, <2>2, Zenon
  <2> QED BY <1>2, <2>1, <2>2, <2>3, Zenon DEF IInv, TypeOK, maybeStartNextFlushTimerLocked
<1>6. TimerOK'
  <2>1. UNCHANGED <<pending, callbacks>>
    BY Zenon DEF maybeStartNextFlushTimerLocked
  <2>2. \A m \in Agents : m # n => timer'[m] = timer[m] /\ mu'[m] = mu[m]
    BY <1>2, Zenon DEF IInv, TypeOK
  <2>3. timer'[n] = IF pending[n] # << >> /\ timer[n] = "nil" THEN "running" ELSE timer[n]
    BY <1>1, <1>2, ZenonT(40) DEF IInv, TypeOK
  <2> QED BY <2>1, <2>2, <2>3, Zenon DEF IInv, TimerOK
<1>7. FlightsOK' /\ BytesOK'
  BY Zenon DEF IInv, FlightsOK, BytesOK, maybeStartNextFlushTimerLocked
<1>8. CloseOK'
  <2>1. \A d \in Calls : buf'[d] # None => buf'[d] = buf[d]
    BY <1>2, Zenon DEF IInv, TypeOK
  <2> QED BY <2>1, SMTT(40) DEF IInv, CloseOK, maybeStartNextFlushTimerLocked
<1> QED BY <1>3, <1>4, <1>5, <1>6, <1>7, <1>8, Zenon DEF IInv

\* A flush returns.
LEMMA FlushReturnsIInv ==
  ASSUME IInv, NEW f \in flights, flushReturns(f)
  PROVE  IInv'
<1> USE DEF callVars, doneVars, closeVars, agentVars
<1>1. f \in Flight
  BY Zenon DEF IInv, TypeOK
<1>2. \A j \in DOMAIN f.entries : f.entries[j] \in Entry /\ PartOf[f.entries[j][1]] \in Parts
  <2>1. \A j \in DOMAIN f.entries : f.entries[j] \in Entry
    BY <1>1 DEF Flight
  <2>2. \A e \in Entry : PartOf[e[1]] \in Parts
    BY EntryIsChunk, BufferAssumption, Zenon
  <2> QED BY <2>1, <2>2, Zenon
<1>3. WireParts(f.entries) \subseteq Parts
  BY <1>2, Zenon DEF WireParts
<1>4. PICK res \in [kind : {"resp"}, ok : SUBSET WireParts(f.entries),
                    bad : SUBSET WireParts(f.entries)] \cup {ErrResult("err")} :
        /\ flights' = (flights \ {f}) \cup {[f EXCEPT !.res = res]}
        /\ landed' = landed \cup {f.entries[j] : j \in
                       {j \in DOMAIN f.entries : PartOf[f.entries[j][1]] \in res.ok}}
  BY Zenon DEF flushReturns
<1>5. res \in Result
  BY <1>3, ErrResultType, Zenon DEF Result
<1> DEFINE g == [f EXCEPT !.res = res]
<1>6. /\ g \in Flight /\ g.node = f.node /\ g.entries = f.entries
      /\ g.next = f.next /\ g.bytes = f.bytes
  BY <1>1, <1>5, Zenon DEF Flight
<1>7. flights' = (flights \ {f}) \cup {g}
  BY <1>4, Zenon
<1> HIDE DEF g
<1>8. landed' \subseteq Entry
  BY <1>2, <1>4 DEF IInv, TypeOK
<1>9. TypeOK'
  BY <1>6, <1>7, <1>8, Zenon DEF IInv, TypeOK, flushReturns
<1>10. FlightsOK'
  BY <1>6, <1>7, Zenon DEF IInv, FlightsOK
<1>11. CursorOK' /\ LockOK' /\ TimerOK' /\ BytesOK'
  BY Zenon DEF IInv, CursorOK, NextItem, LockOK, TimerOK, BytesOK, flushReturns
<1>12. CloseOK'
  BY <1>6, <1>7, Zenon DEF IInv, CloseOK, flushReturns
<1> QED BY <1>9, <1>10, <1>11, <1>12, Zenon DEF IInv

\* A flush reports to its next entry.
LEMMA DeliverIInv ==
  ASSUME IInv, NEW f \in flights, deliver(f)
  PROVE  IInv'
<1> USE DEF callVars, closeVars, agentVars
<1>1. f \in Flight /\ f.next <= Len(f.entries)
  BY Zenon DEF IInv, TypeOK, FlightsOK
<1>2. /\ f.entries \in Seq(Entry) /\ f.next \in Nat \ {0} /\ f.res \in Result
      /\ f.node \in Agents /\ f.bytes \in Nat
  BY <1>1, Zenon DEF Flight
<1>3. f.entries[f.next] \in Entry
  BY <1>1, <1>2, SeqElement, Zenon
<1> DEFINE i == f.entries[f.next][1]
<1>4. i \in Items /\ chunkDone(i, f.res)
  BY <1>3, EntryIsChunk, Zenon DEF deliver
<1> HIDE DEF i
<1>5. /\ contrib' \in [Items -> Int] /\ released' \in [Items -> BOOLEAN]
      /\ watch' \in [Items -> {"off", "armed", "started"}]
      /\ outcome' \in [Items -> Result] /\ fires' \in [Items -> Nat]
      /\ fanin' \in [Items -> [left : Int, res : Result]]
  BY <1>2, <1>4, ChunkDoneType, Zenon DEF IInv
<1> DEFINE g == [f EXCEPT !.next = f.next + 1]
<1>6. g \in Flight /\ g.node = f.node /\ g.entries = f.entries
      /\ g.next = f.next + 1 /\ g.bytes = f.bytes
  BY <1>1, <1>2 DEF Flight
<1>7. flights' = (flights \ {f}) \cup (IF f.next < Len(f.entries) THEN {g} ELSE {})
  BY Zenon DEF deliver
<1> HIDE DEF g
<1>8. \A h \in flights' : h \in flights \/ (h = g /\ f.next < Len(f.entries))
  BY <1>7, Zenon
<1>9. TypeOK'
  BY <1>5, <1>6, <1>8, Zenon DEF IInv, TypeOK, deliver
<1>10. FlightsOK'
  BY <1>2, <1>6, <1>8 DEF IInv, FlightsOK
<1>11. CursorOK' /\ LockOK' /\ TimerOK' /\ BytesOK'
  BY Zenon DEF IInv, CursorOK, NextItem, LockOK, TimerOK, BytesOK, deliver
<1>12. CloseOK'
  BY <1>6, <1>8, Zenon DEF IInv, CloseOK, deliver
<1> QED BY <1>9, <1>10, <1>11, <1>12, Zenon DEF IInv

-----------------------------------------------------------------------------
\* Every step of the buffer preserves IInv.
LEMMA StepIInv == IInv /\ [Next]_vars => IInv'
<1> SUFFICES ASSUME IInv, [Next]_vars PROVE IInv'
  BY Zenon
<1>1. ASSUME NEW c \in Calls, wrap(c) \/ CallStep(c) \/ cancel(c) PROVE IInv'
  <2>1. CASE multiAddClosed(c)
    BY <2>1, MultiAddClosedIInv, Zenon
  <2>2. CASE multiAddLock(c)
    BY <2>2, MultiAddLockIInv, Zenon
  <2>3. CASE addToNextProduceLocked(c)
    BY <2>3, AddIInv, Zenon
  <2>4. CASE maybeStartNextFlushTimerLocked(c)
    BY <2>4, MaybeStartIInv, Zenon
  <2>5. CASE \E n \in Agents : agentBufferFor(c, n)
    BY <2>5, AgentBufferForIInv, Zenon
  <2>6. CASE wrap(c) \/ rejectCanceled(c) \/ binByAgent(c) \/ cancel(c)
             \/ \E n \in Agents : agentBufferForClosed(c, n)
    BY <2>6, CallerIInv, Zenon
  <2> QED BY <1>1, <2>1, <2>2, <2>3, <2>4, <2>5, <2>6, Zenon DEF CallStep
<1>2. ASSUME NEW i \in Items, ctxWatch(i) PROVE IInv'
  BY <1>2, CtxWatchIInv, Zenon
<1>3. ASSUME NEW n \in Agents, lingerElapses(n) \/ timerFlush(n) \/ closeAgent(n)
      PROVE  IInv'
  BY <1>3, LingerIInv, TimerFlushIInv, CloseAgentIInv, Zenon
<1>4. ASSUME NEW f \in flights, flushReturns(f) \/ deliver(f) PROVE IInv'
  BY <1>4, FlushReturnsIInv, DeliverIInv, Zenon
<1>5. CASE Close \/ closeReturns
  BY <1>5, CloseIInv, Zenon
<1>6. CASE UNCHANGED vars
  <2>1. TypeOK'
    BY <1>6, Zenon DEF IInv, TypeOK, vars, callVars, doneVars, closeVars, agentVars
  <2> QED BY <1>6, <2>1, FrameIInv, Zenon DEF vars, callVars
<1> QED BY <1>1, <1>2, <1>3, <1>4, <1>5, <1>6, Zenon DEF Next

\* IInv is an invariant of the buffer.
THEOREM BufferInvariant == Spec => []IInv
<1>1. Init => IInv
  BY InitIInv, Zenon
<1>2. IInv /\ [Next]_vars => IInv'
  BY StepIInv, Zenon
<1> QED BY <1>1, <1>2, PTL DEF Spec

\* The state of the buffers is well typed, however calls, timers, flushes and
\* Close interleave.
THEOREM BufferTypes == Spec => []TypeOK
<1>1. IInv => TypeOK
  BY Zenon DEF IInv
<1> QED BY <1>1, BufferInvariant, PTL

\* Batches that wait are always about to be flushed (maybeStartNextFlushTimerLocked,
\* startFlushLocked): with no holder of mu the timer is set, and a timer that has
\* fired still has its callback queued.
THEOREM BatchesAreNotStranded == Spec => []NoStrandedBatch
<1>1. IInv => NoStrandedBatch
  BY Zenon DEF IInv, TypeOK, TimerOK, NoStrandedBatch
<1> QED BY <1>1, BufferInvariant, PTL

\* addToNextProduceLocked keeps every flush under the byte cap, single chunks aside.
THEOREM FlushesRespectCap == Spec => []FlushWithinCap
<1>1. IInv => FlushWithinCap
  BY Zenon DEF IInv, FlightsOK, FlushWithinCap
<1> QED BY <1>1, BufferInvariant, PTL

\* ClusterBuffer.Close leaves no batch and no flush behind, also with calls that
\* looked up their buffer before it and lock it afterwards.
THEOREM CloseLeavesNothing == Spec => []CloseDrains
<1>1. IInv => CloseDrains
  <2> SUFFICES ASSUME IInv, closer = "closed"
               PROVE  flights = {} /\ \A n \in Agents : pending[n] = << >>
    BY Zenon DEF CloseDrains
  <2>1. known = {} /\ flights = {} /\ \A n \in closing : aClosed[n]
    BY Zenon DEF IInv, CloseOK
  <2> QED BY <2>1, Zenon DEF IInv, CloseOK
<1> QED BY <1>1, BufferInvariant, PTL

-----------------------------------------------------------------------------
(***************************************************************************)
(* Where chunks are.  Every chunk that a call handed over and that has not *)
(* been reported is in one place: still ahead of its call, in the batch of *)
(* an agent, or in a flush at or after the entry it reports next.  What    *)
(* each action does to these places is stated here, for the proof in       *)
(* BufferContractProofs that the buffer implements its contract.           *)
(***************************************************************************)
elems(s) == {s[j] : j \in DOMAIN s}
distinct(s) == \A j, k \in DOMAIN s : s[j] = s[k] => j = k

\* The entries a flush has not reported to.
rest(f) == {f.entries[j] : j \in f.next..Len(f.entries)}

\* The call stands before chunk k of the item in place j of its bin of agent n.
before(c, n, j, k) ==
  buf[c] = n /\ mu[n] = c => j > cur[c][1] \/ (j = cur[c][1] /\ k >= cur[c][2])

\* The chunk's call has still to put it into a batch.
ahead(e) ==
  LET c == CallOf[e[1]]
  IN  \/ pc[c] = "wrapped"
      \/ \E n \in left[c] : \E j \in DOMAIN Bin[c][n] :
           Bin[c][n][j] = e[1] /\ before(c, n, j, e[2])

batched(e) == \E n \in Agents : e \in elems(pending[n])
flying(e) == \E f \in flights : e \in rest(f)
outstanding(e) == ahead(e) \/ batched(e) \/ flying(e)

\* A call looks up a buffer for a bin it has still to dispatch.
BinInv ==
  \A c \in Calls : /\ pc[c] # "binning" => left[c] = {}
                   /\ buf[c] # None => buf[c] \in left[c]

\* No chunk is in two places.
PlaceInv ==
  /\ \A n \in Agents : distinct(pending[n])
  /\ \A f \in flights : distinct(f.entries)
  /\ \A n, m \in Agents : \A e \in elems(pending[n]) : e \in elems(pending[m]) => n = m
  /\ \A n \in Agents, f \in flights : \A e \in elems(pending[n]) : e \notin rest(f)
  /\ \A f, g \in flights : \A e \in rest(f) : e \in rest(g) => f = g
  /\ \A e \in Entry : ahead(e) => ~batched(e) /\ ~flying(e)

-----------------------------------------------------------------------------
(***************************************************************************)
(* Sequences of entries.                                                   *)
(***************************************************************************)
\* An empty batch.
LEMMA EmptyElems == elems(<< >>) = {} /\ distinct(<< >>)
BY DEF elems, distinct

\* A batch of one entry.
LEMMA OneElem ==
  ASSUME NEW e
  PROVE  elems(<<e>>) = {e} /\ distinct(<<e>>)
BY DEF elems, distinct

\* A batch that is one entry longer.
LEMMA AppendElems ==
  ASSUME NEW S, NEW s \in Seq(S), NEW e \in S
  PROVE  /\ elems(Append(s, e)) = elems(s) \cup {e}
         /\ e \notin elems(s) /\ distinct(s) => distinct(Append(s, e))
<1> DEFINE t == Append(s, e)
<1>1. /\ t \in Seq(S) /\ DOMAIN s = 1..Len(s) /\ DOMAIN t = 1..(Len(s) + 1) /\ Len(s) \in Nat
      /\ t[Len(s) + 1] = e /\ \A j \in 1..Len(s) : t[j] = s[j]
  OBVIOUS
<1> HIDE DEF t
<1>2. elems(t) = elems(s) \cup {e}
  <2>1. ASSUME NEW x \in elems(t) PROVE x \in elems(s) \cup {e}
    <3>1. PICK j \in DOMAIN t : x = t[j]
      BY <2>1, Zenon DEF elems
    <3>2. j \in 1..Len(s) \/ j = Len(s) + 1
      BY <1>1, <3>1
    <3> QED
      BY <1>1, <3>1, <3>2, Zenon DEF elems
  <2>2. ASSUME NEW x \in elems(s) \cup {e} PROVE x \in elems(t)
    <3>1. \A j \in 1..Len(s) : j \in DOMAIN t
      BY <1>1
    <3>2. Len(s) + 1 \in DOMAIN t
      BY <1>1
    <3> QED
      BY <1>1, <2>2, <3>1, <3>2, Zenon DEF elems
  <2> QED
    BY <2>1, <2>2, Zenon
<1>3. ASSUME e \notin elems(s), distinct(s) PROVE distinct(t)
  <2> SUFFICES ASSUME NEW j \in DOMAIN t, NEW k \in DOMAIN t, t[j] = t[k] PROVE j = k
    BY Zenon DEF distinct
  <2>1. (j \in 1..Len(s) \/ j = Len(s) + 1) /\ (k \in 1..Len(s) \/ k = Len(s) + 1)
    BY <1>1
  <2>2. \A x \in 1..Len(s) : s[x] # e
    BY <1>1, <1>3, Zenon DEF elems
  <2> QED
    BY <1>1, <1>3, <2>1, <2>2, Zenon DEF distinct
<1> QED
  BY <1>2, <1>3, Zenon DEF t

\* A flush that starts has everything to report.
LEMMA FreshRest ==
  ASSUME NEW S, NEW s \in Seq(S), NEW f, f.entries = s, f.next = 1
  PROVE  rest(f) = elems(s)
<1>1. DOMAIN s = 1..Len(s)
  OBVIOUS
<1> QED
  BY <1>1, Zenon DEF rest, elems

\* Reporting to the next entry takes that one out of the rest.
LEMMA NextRest ==
  ASSUME NEW S, NEW s \in Seq(S), distinct(s), NEW m \in Nat \ {0}, m <= Len(s)
  PROVE  /\ s[m] \in {s[j] : j \in m..Len(s)}
         /\ s[m] \notin {s[j] : j \in (m + 1)..Len(s)}
         /\ \A e : e \in {s[j] : j \in m..Len(s)} <=>
                   e = s[m] \/ e \in {s[j] : j \in (m + 1)..Len(s)}
         /\ m = Len(s) => {s[j] : j \in (m + 1)..Len(s)} = {}
<1>1. DOMAIN s = 1..Len(s) /\ Len(s) \in Nat
  OBVIOUS
<1> DEFINE n == Len(s)
<1>2. n \in Nat /\ m <= n /\ DOMAIN s = 1..n
  BY <1>1, Zenon
<1> HIDE DEF n
<1>3. \A j \in Nat : j \in m..n <=> j = m \/ j \in (m + 1)..n
  BY <1>2
<1>4. m \in DOMAIN s /\ \A j \in (m + 1)..n : j \in DOMAIN s /\ j # m
  BY <1>2
<1>5. m \in Nat /\ (\A j \in m..n : j \in Nat) /\ \A j \in (m + 1)..n : j \in Nat
  BY <1>2
<1>6. s[m] \in {s[j] : j \in m..n}
  BY <1>3, <1>5, Zenon
<1>7. s[m] \notin {s[j] : j \in (m + 1)..n}
  BY <1>4, Zenon DEF distinct
<1>8. \A e : e \in {s[j] : j \in m..n} <=> e = s[m] \/ e \in {s[j] : j \in (m + 1)..n}
  BY <1>3, <1>5, Zenon
<1>9. m = n => {s[j] : j \in (m + 1)..n} = {}
  BY <1>2
<1> QED
  BY <1>6, <1>7, <1>8, <1>9, Zenon DEF n

-----------------------------------------------------------------------------
(***************************************************************************)
(* What calls do to the chunks that are ahead of them.                     *)
(***************************************************************************)
\* An item is in one place of one bin of its call.
LEMMA OneSpot ==
  ASSUME NEW c \in Calls, NEW n \in Agents, NEW m \in Agents,
         NEW j \in DOMAIN Bin[c][n], NEW k \in DOMAIN Bin[c][m], Bin[c][n][j] = Bin[c][m][k]
  PROVE  n = m /\ j = k
BY BinAssumption

\* The items in a bin of a call are its own.
LEMMA InOwnBin ==
  ASSUME NEW c \in Calls, NEW n \in Agents, NEW i \in InBin(c, n)
  PROVE  CallOf[i] = c
BY BinAssumption DEF InBin

\* Every item is in a bin of its call.
LEMMA HasSpot ==
  ASSUME NEW e \in Entry
  PROVE  /\ e[1] \in Items /\ CallOf[e[1]] \in Calls
         /\ \E n \in Agents : \E j \in DOMAIN Bin[CallOf[e[1]]][n] : Bin[CallOf[e[1]]][n][j] = e[1]
<1>1. e[1] \in Items
  BY EntryIsChunk, Zenon
<1>2. CallOf[e[1]] \in Calls
  BY <1>1, BufferAssumption, Zenon
<1>3. \E n \in Agents : \E j \in DOMAIN Bin[CallOf[e[1]]][n] : Bin[CallOf[e[1]]][n][j] = e[1]
  BY <1>1, BinAssumption, Zenon
<1> QED
  BY <1>1, <1>2, <1>3, Zenon

\* Whether a chunk is ahead is a matter of its own call.
LEMMA AheadQuiet ==
  ASSUME NEW e \in Entry, NEW d, d = CallOf[e[1]],
         pc'[d] = pc[d], left'[d] = left[d], left[d] \subseteq Agents, buf'[d] = buf[d],
         cur'[d] = cur[d], \A n \in Agents : mu'[n] = d <=> mu[n] = d
  PROVE  ahead(e)' <=> ahead(e)
<1>1. ASSUME NEW n \in left[d], NEW j
      PROVE  before(d, n, j, e[2])' <=> before(d, n, j, e[2])
  BY <1>1, Zenon DEF before
<1>2. ahead(e) <=> \/ pc[d] = "wrapped"
                   \/ \E n \in left[d] : \E j \in DOMAIN Bin[d][n] :
                        Bin[d][n][j] = e[1] /\ before(d, n, j, e[2])
  BY Zenon DEF ahead
<1>3. ahead(e)' <=> \/ pc'[d] = "wrapped"
                    \/ \E n \in left'[d] : \E j \in DOMAIN Bin[d][n] :
                         Bin[d][n][j] = e[1] /\ before(d, n, j, e[2])'
  BY Zenon DEF ahead
<1> QED
  BY <1>1, <1>2, <1>3, Zenon

\* While calls and locks stand still, so does what is ahead.
LEMMA AheadStays ==
  ASSUME UNCHANGED <<pc, left, buf, cur, mu>>
  PROVE  \A e : ahead(e)' <=> ahead(e)
<1>1. pc' = pc /\ left' = left /\ buf' = buf /\ cur' = cur /\ mu' = mu
  BY Zenon
<1>2. \A c, n, j, k : before(c, n, j, k)' <=> before(c, n, j, k)
  BY <1>1, Zenon DEF before
<1> SUFFICES ASSUME NEW e PROVE ahead(e)' <=> ahead(e)
  BY Zenon
<1> DEFINE c == CallOf[e[1]]
           at(n, j) == Bin[c][n][j] = e[1] /\ before(c, n, j, e[2])
<1>3. \A n, j : at(n, j)' <=> at(n, j)
  BY <1>2, Zenon
<1>4. /\ ahead(e) <=> (pc[c] = "wrapped" \/ \E n \in left[c] : \E j \in DOMAIN Bin[c][n] : at(n, j))
      /\ ahead(e)' <=> (pc'[c] = "wrapped" \/ \E n \in left'[c] : \E j \in DOMAIN Bin[c][n] : at(n, j)')
  BY Zenon DEF ahead
<1> HIDE DEF at, c
<1> QED
  BY <1>1, <1>3, <1>4, Zenon

\* The steps of a call c leave the chunks of other calls where they are.
LEMMA AheadOther ==
  ASSUME IInv, NEW c \in Calls, NEW e \in Entry, CallOf[e[1]] # c,
         \A d \in Calls : d # c => pc'[d] = pc[d] /\ left'[d] = left[d] /\ buf'[d] = buf[d]
                                   /\ cur'[d] = cur[d],
         \A n \in Agents : mu'[n] = mu[n] \/ {mu[n], mu'[n]} \subseteq {c, None}
  PROVE  ahead(e)' <=> ahead(e)
<1> DEFINE d == CallOf[e[1]]
<1>1. d \in Calls /\ d # c /\ d # None
  BY HasSpot, NoneIsNobody, Zenon
<1>2. \A n \in Agents : mu'[n] = d <=> mu[n] = d
  BY <1>1, Zenon
<1>3. left[d] \subseteq Agents
  BY <1>1, Zenon DEF IInv, TypeOK
<1> QED
  BY <1>1, <1>2, <1>3, AheadQuiet, Zenon

\* What the functions of the calls become, by name.
LEMMA CallTypes ==
  ASSUME IInv
  PROVE  /\ DOMAIN pc = Calls /\ DOMAIN left = Calls /\ DOMAIN buf = Calls /\ DOMAIN cur = Calls
         /\ DOMAIN mu = Agents /\ \A c \in Calls : left[c] \subseteq Agents
BY Zenon DEF IInv, TypeOK

\* wrap puts the chunks of its call ahead.
LEMMA AheadWrap ==
  ASSUME IInv, NEW c \in Calls, wrap(c), NEW e \in Entry
  PROVE  ahead(e)' <=> ahead(e) \/ CallOf[e[1]] = c
<1>1. pc' = [pc EXCEPT ![c] = "wrapped"] /\ UNCHANGED <<left, buf, cur, mu>>
  BY Zenon DEF wrap, agentVars
<1>2. CASE CallOf[e[1]] = c
  BY <1>1, <1>2, CallTypes, Zenon DEF ahead
<1>3. CASE CallOf[e[1]] # c
  <2>1. \A d \in Calls : d # c => pc'[d] = pc[d]
    BY <1>1, CallTypes, Zenon
  <2> QED
    BY <1>1, <1>3, <2>1, AheadOther, Zenon
<1> QED
  BY <1>2, <1>3, Zenon

\* Before binning no bin is left to dispatch and no buffer looked up.
LEMMA NoBins ==
  ASSUME BinInv, NEW c \in Calls, pc[c] # "binning"
  PROVE  left[c] = {} /\ buf[c] = None
BY Zenon DEF BinInv

\* A rejected call has nothing ahead any more.
LEMMA AheadReject ==
  ASSUME IInv, BinInv, NEW c \in Calls, rejectCanceled(c), NEW e \in Entry
  PROVE  ahead(e)' <=> ahead(e) /\ CallOf[e[1]] # c
<1>1. pc[c] = "wrapped" /\ pc' = [pc EXCEPT ![c] = "binning"] /\ UNCHANGED <<left, buf, cur, mu>>
  BY Zenon DEF rejectCanceled, agentVars
<1>2. CASE CallOf[e[1]] = c
  <2>1. left[c] = {} /\ pc'[c] # "wrapped"
    BY <1>1, NoBins, CallTypes, Zenon
  <2> QED
    BY <1>1, <1>2, <2>1, Zenon DEF ahead
<1>3. CASE CallOf[e[1]] # c
  <2>1. \A d \in Calls : d # c => pc'[d] = pc[d]
    BY <1>1, CallTypes, Zenon
  <2> QED
    BY <1>1, <1>3, <2>1, AheadOther, Zenon
<1> QED
  BY <1>2, <1>3, Zenon

\* Binning moves nothing: every chunk is in one of the bins.
LEMMA AheadBin ==
  ASSUME IInv, BinInv, NEW c \in Calls, binByAgent(c), NEW e \in Entry
  PROVE  ahead(e)' <=> ahead(e)
<1>1. /\ pc[c] = "wrapped" /\ pc' = [pc EXCEPT ![c] = "binning"]
      /\ left' = [left EXCEPT ![c] = {n \in Agents : Bin[c][n] # << >>}]
      /\ UNCHANGED <<buf, cur, mu>>
  BY Zenon DEF binByAgent, agentVars
<1>2. CASE CallOf[e[1]] = c
  <2>1. ahead(e)
    BY <1>1, <1>2, Zenon DEF ahead
  <2>2. PICK n \in Agents : \E j \in DOMAIN Bin[c][n] : Bin[c][n][j] = e[1]
    BY <1>2, HasSpot, Zenon
  <2>3. PICK j \in DOMAIN Bin[c][n] : Bin[c][n][j] = e[1]
    BY <2>2, Zenon
  <2>4. Bin[c][n] # << >>
    BY <2>3
  <2>5. n \in left'[c]
    BY <1>1, <2>4, CallTypes, Zenon
  <2>6. before(c, n, j, e[2])'
    BY <1>1, NoBins, NoneIsNobody, Zenon DEF before
  <2>7. ahead(e)'
    BY <1>2, <2>3, <2>5, <2>6, Zenon DEF ahead
  <2> QED
    BY <2>1, <2>7, Zenon
<1>3. CASE CallOf[e[1]] # c
  <2>1. \A d \in Calls : d # c => pc'[d] = pc[d] /\ left'[d] = left[d]
    BY <1>1, CallTypes, Zenon
  <2> QED
    BY <1>1, <1>3, <2>1, AheadOther, Zenon
<1> QED
  BY <1>2, <1>3, Zenon

\* A bin that is given up takes the chunks of its items out of the way, and no
\* others; its call was not in the middle of it.
LEMMA AheadGiveUp ==
  ASSUME IInv, BinInv, NEW c \in Calls, NEW n \in left[c], buf[c] \in {n, None}, mu[n] # c,
         left' = [left EXCEPT ![c] = left[c] \ {n}], buf' = [buf EXCEPT ![c] = None],
         UNCHANGED <<pc, cur, mu>>, NEW e \in Entry
  PROVE  ahead(e)' <=> ahead(e) /\ e[1] \notin InBin(c, n)
<1>1. pc[c] = "binning" /\ n \in Agents /\ left[c] \subseteq Agents
  BY CallTypes, Zenon DEF BinInv
<1>2. left'[c] = left[c] \ {n} /\ buf'[c] = None
  BY CallTypes, Zenon
<1>3. CASE CallOf[e[1]] = c
  <2>1. ASSUME NEW m \in left[c], m # n, NEW j
        PROVE  before(c, m, j, e[2])' /\ before(c, m, j, e[2])
    BY <1>1, <1>2, <2>1, NoneIsNobody, Zenon DEF before
  <2>2. ASSUME NEW j PROVE before(c, n, j, e[2])
    BY Zenon DEF before
  <2>3. ahead(e) <=> \E m \in left[c] : \E j \in DOMAIN Bin[c][m] :
                       Bin[c][m][j] = e[1] /\ before(c, m, j, e[2])
    BY <1>1, <1>3, Zenon DEF ahead
  <2>4. ahead(e)' <=> \E m \in left[c] \ {n} : \E j \in DOMAIN Bin[c][m] :
                        Bin[c][m][j] = e[1] /\ before(c, m, j, e[2])'
    BY <1>1, <1>2, <1>3, Zenon DEF ahead
  <2>5. CASE e[1] \in InBin(c, n)
    <3>1. PICK k \in DOMAIN Bin[c][n] : Bin[c][n][k] = e[1]
      BY <2>5, Zenon DEF InBin
    <3>2. ASSUME NEW m \in left[c], NEW j \in DOMAIN Bin[c][m], Bin[c][m][j] = e[1] PROVE m = n
      <4>1. m \in Agents /\ Bin[c][m][j] = Bin[c][n][k]
        BY <1>1, <3>1, <3>2, Zenon
      <4> QED
        BY <1>1, <3>1, <4>1, OneSpot, Zenon
    <3> QED
      BY <2>4, <2>5, <3>2, Zenon
  <2>6. CASE e[1] \notin InBin(c, n)
    <3>1. ASSUME NEW j \in DOMAIN Bin[c][n] PROVE Bin[c][n][j] # e[1]
      BY <2>6, <3>1, Zenon DEF InBin
    <3> QED
      BY <2>1, <2>3, <2>4, <2>6, <3>1, Zenon
  <2> QED
    BY <2>5, <2>6, Zenon
<1>4. CASE CallOf[e[1]] # c
  <2>1. \A d \in Calls : d # c => left'[d] = left[d] /\ buf'[d] = buf[d]
    BY CallTypes, Zenon
  <2>2. ahead(e)' <=> ahead(e)
    BY <1>4, <2>1, AheadOther, Zenon
  <2>3. e[1] \notin InBin(c, n)
    BY <1>1, <1>4, InOwnBin, Zenon
  <2> QED
    BY <2>2, <2>3, Zenon
<1> QED
  BY <1>3, <1>4, Zenon

\* agentBufferFor and the closed paths.
LEMMA AheadClosed ==
  ASSUME IInv, BinInv, NEW c \in Calls, NEW n \in Agents,
         agentBufferForClosed(c, n) \/ (multiAddClosed(c) /\ n = buf[c]), NEW e \in Entry
  PROVE  ahead(e)' <=> ahead(e) /\ e[1] \notin InBin(c, n)
<1>1. CASE agentBufferForClosed(c, n)
  <2>1. /\ n \in left[c] /\ buf[c] = None /\ left' = [left EXCEPT ![c] = left[c] \ {n}]
        /\ UNCHANGED <<pc, buf, cur, mu>>
    BY <1>1, Zenon DEF agentBufferForClosed, agentVars
  <2>2. buf' = [buf EXCEPT ![c] = None]
    BY <2>1, Zenon DEF IInv, TypeOK
  <2>3. mu[n] # c
    BY <2>1, NoneIsNobody, Zenon DEF IInv, LockOK
  <2> QED
    BY <2>1, <2>2, <2>3, AheadGiveUp, Zenon
<1>2. CASE multiAddClosed(c) /\ n = buf[c]
  <2>1. /\ buf[c] # None /\ mu[n] = None /\ left' = [left EXCEPT ![c] = left[c] \ {n}]
        /\ buf' = [buf EXCEPT ![c] = None] /\ UNCHANGED <<pc, cur, mu>>
    BY <1>2, Zenon DEF multiAddClosed, agentVars
  <2>2. n \in left[c] /\ mu[n] # c
    BY <1>2, <2>1, NoneIsNobody, Zenon DEF BinInv
  <2> QED
    BY <1>2, <2>1, <2>2, AheadGiveUp, Zenon
<1> QED
  BY <1>1, <1>2, Zenon

\* Looking a buffer up and locking it move nothing.
LEMMA AheadLookUp ==
  ASSUME IInv, NEW c \in Calls, NEW n \in Agents, agentBufferFor(c, n), NEW e \in Entry
  PROVE  ahead(e)' <=> ahead(e)
<1>1. buf[c] = None /\ buf' = [buf EXCEPT ![c] = n] /\ UNCHANGED <<pc, left, cur, mu>>
  BY Zenon DEF agentBufferFor, agentVars
<1>2. CASE CallOf[e[1]] = c
  <2>1. \A m \in Agents : mu[m] # c
    BY <1>1, NoneIsNobody, Zenon DEF IInv, LockOK
  <2>2. ASSUME NEW m \in left[c], NEW j PROVE before(c, m, j, e[2])' /\ before(c, m, j, e[2])
    BY <1>1, <2>1, CallTypes, Zenon DEF before
  <2> QED
    BY <1>1, <1>2, <2>2, Zenon DEF ahead
<1>3. CASE CallOf[e[1]] # c
  <2>1. \A d \in Calls : d # c => buf'[d] = buf[d]
    BY <1>1, CallTypes, Zenon
  <2> QED
    BY <1>1, <1>3, <2>1, AheadOther, Zenon
<1> QED
  BY <1>2, <1>3, Zenon

\* Locking the buffer moves nothing either: the cursor starts before the bin.
LEMMA AheadLock ==
  ASSUME IInv, NEW c \in Calls, multiAddLock(c), NEW e \in Entry
  PROVE  ahead(e)' <=> ahead(e)
<1> DEFINE n == buf[c]
<1>1. /\ n # None /\ mu[n] = None /\ mu' = [mu EXCEPT ![n] = c] /\ cur' = [cur EXCEPT ![c] = <<1, 1>>]
      /\ UNCHANGED <<pc, left, buf>>
  BY Zenon DEF multiAddLock
<1>2. n \in Agents
  BY <1>1, Zenon DEF IInv, TypeOK
<1> HIDE DEF n
<1>3. mu'[n] = c /\ (\A m \in Agents : m # n => mu'[m] = mu[m]) /\ cur'[c] = <<1, 1>>
  BY <1>1, <1>2, CallTypes, Zenon
<1>4. CASE CallOf[e[1]] = c
  <2>1. cur'[c][1] = 1 /\ cur'[c][2] = 1
    BY <1>3
  <2>2. e[2] >= 1 /\ \A m \in Agents : \A j \in DOMAIN Bin[c][m] : j > 1 \/ j = 1
    BY BufferAssumption DEF Entry
  <2>3. \A m \in Agents : ~(buf[c] = m /\ mu[m] = c)
    BY <1>1, NoneIsNobody, Zenon DEF n
  <2>4. ASSUME NEW m \in left[c], NEW j \in DOMAIN Bin[c][m]
        PROVE  before(c, m, j, e[2])' /\ before(c, m, j, e[2])
    <3>1. m \in Agents
      BY <2>4, CallTypes, Zenon
    <3> QED
      BY <2>1, <2>2, <2>3, <2>4, <3>1, Zenon DEF before
  <2> QED
    BY <1>1, <1>4, <2>4, Zenon DEF ahead
<1>5. CASE CallOf[e[1]] # c
  <2>1. \A d \in Calls : d # c => cur'[d] = cur[d]
    BY <1>1, CallTypes, Zenon
  <2>2. \A m \in Agents : mu'[m] = mu[m] \/ {mu[m], mu'[m]} \subseteq {c, None}
    BY <1>1, <1>3, Zenon
  <2> QED
    BY <1>1, <1>5, <2>1, <2>2, AheadOther, ZenonT(40)
<1> QED
  BY <1>4, <1>5, Zenon

\* A bin whose last chunk was added leaves nothing behind.
LEMMA AheadBinDone ==
  ASSUME IInv, BinInv, NEW c \in Calls, maybeStartNextFlushTimerLocked(c), NEW e \in Entry
  PROVE  ahead(e)' <=> ahead(e)
<1> DEFINE n == buf[c]
<1>1. /\ n # None /\ mu[n] = c /\ cur[c][1] > Len(Bin[c][n])
      /\ mu' = [mu EXCEPT ![n] = None] /\ left' = [left EXCEPT ![c] = left[c] \ {n}]
      /\ buf' = [buf EXCEPT ![c] = None] /\ UNCHANGED <<pc, cur>>
  BY Zenon DEF maybeStartNextFlushTimerLocked
<1>2. n \in Agents /\ n \in left[c] /\ pc[c] = "binning"
  BY <1>1, CallTypes, Zenon DEF BinInv
<1>3. \A j \in DOMAIN Bin[c][n], k \in Nat : ~before(c, n, j, k)
  <2>1. Bin[c][n] \in Seq(Items) /\ cur[c][1] \in Nat
    BY <1>2, BinsAndChunks, Zenon DEF IInv, TypeOK
  <2>2. \A j \in DOMAIN Bin[c][n] : j \in Nat /\ j <= Len(Bin[c][n]) /\ Len(Bin[c][n]) \in Nat
    BY <2>1
  <2>3. \A j \in DOMAIN Bin[c][n] : ~(j > cur[c][1]) /\ j # cur[c][1]
    BY <1>1, <2>1, <2>2
  <2> QED
    BY <1>1, <2>3, Zenon DEF before
<1> HIDE DEF n
<1>4. CASE CallOf[e[1]] = c
  <2>1. left'[c] = left[c] \ {n} /\ buf'[c] = None
    BY <1>1, CallTypes, Zenon
  <2>2. ASSUME NEW m \in left[c], m # n, NEW j
        PROVE  before(c, m, j, e[2])' /\ before(c, m, j, e[2])
    BY <2>1, <2>2, CallTypes, NoneIsNobody, Zenon DEF before, n
  <2>3. e[2] \in Nat
    BY BufferAssumption DEF Entry
  <2>4. ahead(e) <=> \E m \in left[c] : \E j \in DOMAIN Bin[c][m] :
                       Bin[c][m][j] = e[1] /\ before(c, m, j, e[2])
    BY <1>2, <1>4, Zenon DEF ahead
  <2>5. ahead(e)' <=> \E m \in left[c] \ {n} : \E j \in DOMAIN Bin[c][m] :
                        Bin[c][m][j] = e[1] /\ before(c, m, j, e[2])'
    BY <1>1, <1>2, <1>4, <2>1, Zenon DEF ahead
  <2> QED
    BY <1>3, <2>2, <2>3, <2>4, <2>5, ZenonT(40)
<1>5. CASE CallOf[e[1]] # c
  <2>1. \A d \in Calls : d # c => pc'[d] = pc[d] /\ left'[d] = left[d] /\ buf'[d] = buf[d]
                                   /\ cur'[d] = cur[d]
    BY <1>1, CallTypes, Zenon
  <2>2. \A m \in Agents : mu'[m] = mu[m] \/ {mu[m], mu'[m]} \subseteq {c, None}
    BY <1>1, <1>2, CallTypes, Zenon
  <2> QED
    BY <1>5, <2>1, <2>2, AheadOther, Zenon
<1> QED
  BY <1>4, <1>5, Zenon

\* addToNextProduceLocked passes the chunk at the cursor, and only that one.
LEMMA AheadAdd ==
  ASSUME IInv, BinInv, NEW c \in Calls, addToNextProduceLocked(c), NEW e \in Entry
  PROVE  /\ <<NextItem(c), cur[c][2]>> \in Entry
         /\ ahead(<<NextItem(c), cur[c][2]>>)
         /\ ahead(e)' <=> ahead(e) /\ e # <<NextItem(c), cur[c][2]>>
<1>0. PICK n \in Agents : n = buf[c]
  BY CallTypes, Zenon DEF addToNextProduceLocked, BinInv
<1> DEFINE x == cur[c][1]
           y == cur[c][2]
           i == Bin[c][n][x]
<1>1. /\ n = buf[c] /\ n # None /\ mu[n] = c /\ x <= Len(Bin[c][n])
      /\ cur' = [cur EXCEPT ![c] = Advanced(c)]
      /\ UNCHANGED <<pc, left, buf, mu>>
  BY <1>0, Zenon DEF addToNextProduceLocked
<1>2. n \in Agents /\ n \in left[c] /\ pc[c] = "binning"
  BY <1>1, CallTypes, Zenon DEF BinInv
<1>3. x \in Nat \ {0} /\ y \in Nat \ {0} /\ Bin[c][n] \in Seq(Items)
  BY <1>2, BinsAndChunks, Zenon DEF IInv, TypeOK
<1>4. x \in DOMAIN Bin[c][n] /\ i \in Items /\ NextItem(c) = i
  <2>1. x \in DOMAIN Bin[c][n] /\ i \in Items
    BY <1>1, <1>3, SeqElement, Zenon
  <2> QED
    BY <1>1, <2>1, Zenon DEF NextItem
<1> HIDE DEF i
<1>5. CallOf[i] = c
  <2>1. i \in InBin(c, n)
    BY <1>4, Zenon DEF InBin, i
  <2> QED
    BY <1>2, <2>1, InOwnBin, Zenon
<1>6. y <= Len(Chunks[i])
  BY <1>1, <1>4, Zenon DEF IInv, CursorOK
<1>7. y \in DOMAIN Chunks[i] /\ <<i, y>> \in Entry
  <2>1. Chunks[i] \in Seq(Nat \ {0})
    BY <1>4, BinsAndChunks, Zenon
  <2>2. y \in DOMAIN Chunks[i]
    BY <1>3, <1>6, <2>1, SeqElement
  <2> QED
    BY <1>4, <2>2, EntryIsChunk, Zenon
<1>8. \A j, k : before(c, n, j, k) <=> j > x \/ (j = x /\ k >= y)
  BY <1>1, Zenon DEF before
<1>9. ahead(<<i, y>>)
  <2>1. before(c, n, x, y)
    BY <1>3, <1>8
  <2>2. <<i, y>>[1] = i /\ <<i, y>>[2] = y
    BY Zenon
  <2> QED
    BY <1>2, <1>4, <1>5, <2>1, <2>2, Zenon DEF ahead, i
<1>10. cur'[c] = IF y < Len(Chunks[i]) THEN <<x, y + 1>> ELSE <<x + 1, 1>>
  BY <1>1, <1>4, CallTypes, Zenon DEF Advanced
<1>11. ASSUME NEW j \in DOMAIN Bin[c][n], NEW k \in DOMAIN Chunks[Bin[c][n][j]]
       PROVE  before(c, n, j, k)' <=> before(c, n, j, k) /\ ~(j = x /\ k = y)
  <2>1. j \in Nat /\ k \in Nat /\ k >= 1
    BY <1>3, <1>11, BinsAndChunks, SMTT(30)
  <2>2. before(c, n, j, k)' <=> j > cur'[c][1] \/ (j = cur'[c][1] /\ k >= cur'[c][2])
    BY <1>1, Zenon DEF before
  <2>3. CASE y < Len(Chunks[i])
    <3>1. cur'[c][1] = x /\ cur'[c][2] = y + 1
      BY <1>10, <2>3
    <3> HIDE DEF x, y
    <3> QED
      BY <1>3, <1>8, <2>1, <2>2, <3>1
  <2>4. CASE ~(y < Len(Chunks[i]))
    <3>1. cur'[c][1] = x + 1 /\ cur'[c][2] = 1
      BY <1>10, <2>4
    <3>2. j = x => k <= y
      <4>1. j = x => k \in DOMAIN Chunks[i]
        BY <1>11, Zenon DEF i
      <4>2. Chunks[i] \in Seq(Nat \ {0})
        BY <1>4, BinsAndChunks, Zenon
      <4>3. k \in DOMAIN Chunks[i] => k <= Len(Chunks[i])
        BY <4>2
      <4>4. Len(Chunks[i]) \in Nat
        BY <4>2
      <4>5. \A a, b \in Nat : a <= b /\ ~(a < b) => a = b
        OBVIOUS
      <4>6. y = Len(Chunks[i])
        BY <1>3, <1>6, <2>4, <4>4, <4>5, Zenon
      <4> QED
        BY <4>1, <4>3, <4>6, Zenon
    <3> HIDE DEF x, y
    <3> QED
      BY <1>3, <1>8, <2>1, <2>2, <3>1, <3>2
  <2> QED
    BY <2>3, <2>4, Zenon
<1> HIDE DEF x, y
<1>12. ahead(e)' <=> ahead(e) /\ e # <<i, y>>
  <2>1. CASE CallOf[e[1]] = c
    <3>1. ahead(e) <=> \E m \in left[c] : \E j \in DOMAIN Bin[c][m] :
                         Bin[c][m][j] = e[1] /\ before(c, m, j, e[2])
      BY <1>2, <2>1, Zenon DEF ahead
    <3>2. ahead(e)' <=> \E m \in left[c] : \E j \in DOMAIN Bin[c][m] :
                          Bin[c][m][j] = e[1] /\ before(c, m, j, e[2])'
      BY <1>1, <1>2, <2>1, Zenon DEF ahead
    <3>3. ASSUME NEW m \in left[c], m # n, NEW j
          PROVE  before(c, m, j, e[2])' /\ before(c, m, j, e[2])
      BY <1>1, <3>3, Zenon DEF before
    <3>4. e[2] \in DOMAIN Chunks[e[1]] /\ e = <<e[1], e[2]>>
      BY DEF Entry
    <3>5. ASSUME NEW j \in DOMAIN Bin[c][n], Bin[c][n][j] = e[1]
          PROVE  before(c, n, j, e[2])' <=> before(c, n, j, e[2]) /\ e # <<i, y>>
      <4>1. e = <<i, y>> <=> j = x /\ e[2] = y
        <5>1. j = x <=> e[1] = i
          <6>1. j = x => e[1] = i
            BY <3>5, Zenon DEF i
          <6>2. ASSUME e[1] = i PROVE j = x
            <7>1. Bin[c][n][j] = Bin[c][n][x]
              BY <3>5, <6>2, Zenon DEF i
            <7> QED
              BY <1>2, <1>4, <7>1, OneSpot, Zenon
          <6> QED
            BY <6>1, <6>2, Zenon
        <5>2. e = <<i, y>> <=> e[1] = i /\ e[2] = y
          BY <3>4
        <5> QED
          BY <5>1, <5>2, Zenon
      <4>2. e[2] \in DOMAIN Chunks[Bin[c][n][j]]
        BY <3>4, <3>5, Zenon
      <4> QED
        BY <1>11, <4>1, <4>2, Zenon
    <3>6. ASSUME NEW m \in left[c], NEW j \in DOMAIN Bin[c][m], Bin[c][m][j] = e[1], e = <<i, y>>
          PROVE  m = n
      <4>1. m \in Agents /\ Bin[c][m][j] = Bin[c][n][x]
        BY <3>4, <3>6, CallTypes, Zenon DEF i
      <4> QED
        BY <1>2, <1>4, <4>1, OneSpot, Zenon
    <3>7. ASSUME ahead(e)' PROVE ahead(e) /\ e # <<i, y>>
      <4>1. PICK m \in left[c] : \E j \in DOMAIN Bin[c][m] :
                                  Bin[c][m][j] = e[1] /\ before(c, m, j, e[2])'
        BY <3>2, <3>7, Zenon
      <4>2. PICK j \in DOMAIN Bin[c][m] : Bin[c][m][j] = e[1] /\ before(c, m, j, e[2])'
        BY <4>1, Zenon
      <4>3. CASE m = n
        <5>1. j \in DOMAIN Bin[c][n] /\ Bin[c][n][j] = e[1] /\ before(c, n, j, e[2])'
          BY <4>2, <4>3, Zenon
        <5> QED
          BY <1>2, <3>1, <3>5, <5>1, Zenon
      <4>4. CASE m # n
        BY <3>1, <3>3, <3>6, <4>2, <4>4, Zenon
      <4> QED
        BY <4>3, <4>4, Zenon
    <3>8. ASSUME ahead(e), e # <<i, y>> PROVE ahead(e)'
      <4>1. PICK m \in left[c] : \E j \in DOMAIN Bin[c][m] :
                                  Bin[c][m][j] = e[1] /\ before(c, m, j, e[2])
        BY <3>1, <3>8, Zenon
      <4>2. PICK j \in DOMAIN Bin[c][m] : Bin[c][m][j] = e[1] /\ before(c, m, j, e[2])
        BY <4>1, Zenon
      <4>3. CASE m = n
        <5>1. j \in DOMAIN Bin[c][n] /\ Bin[c][n][j] = e[1] /\ before(c, n, j, e[2])
          BY <4>2, <4>3, Zenon
        <5> QED
          BY <1>2, <3>2, <3>5, <3>8, <5>1, Zenon
      <4>4. CASE m # n
        BY <3>2, <3>3, <4>2, <4>4, Zenon
      <4> QED
        BY <4>3, <4>4, Zenon
    <3> QED
      BY <3>7, <3>8, Zenon
  <2>2. CASE CallOf[e[1]] # c
    <3>1. \A d \in Calls : d # c => cur'[d] = cur[d]
      BY <1>1, CallTypes, Zenon
    <3>2. ahead(e)' <=> ahead(e)
      BY <1>1, <2>2, <3>1, AheadOther, Zenon
    <3>3. <<i, y>>[1] = i
      BY Zenon
    <3>4. e # <<i, y>>
      BY <1>5, <2>2, <3>3, Zenon
    <3> QED
      BY <3>2, <3>4, Zenon
  <2> QED
    BY <2>1, <2>2, Zenon
<1> QED
  BY <1>4, <1>7, <1>9, <1>12, Zenon DEF y

-----------------------------------------------------------------------------
(***************************************************************************)
(* No chunk is in two places.                                              *)
(***************************************************************************)
\* What is in a batch or in a flush is an entry.
LEMMA PlaceTypes ==
  ASSUME IInv
  PROVE  /\ DOMAIN pending = Agents
         /\ \A n \in Agents : pending[n] \in Seq(Entry) /\ elems(pending[n]) \subseteq Entry
         /\ \A f \in flights : f.entries \in Seq(Entry) /\ f.next \in Nat \ {0} /\ f.next <= Len(f.entries)
         /\ \A f \in flights : rest(f) \subseteq Entry
<1>1. DOMAIN pending = Agents /\ \A n \in Agents : pending[n] \in Seq(Entry)
  BY Zenon DEF IInv, TypeOK
<1>2. ASSUME NEW s \in Seq(Entry) PROVE elems(s) \subseteq Entry
  BY DEF elems
<1>3. ASSUME NEW f \in flights
      PROVE  f.entries \in Seq(Entry) /\ f.next \in Nat \ {0} /\ f.next <= Len(f.entries)
  BY Zenon DEF IInv, TypeOK, Flight, FlightsOK
<1>4. ASSUME NEW f \in flights PROVE rest(f) \subseteq Entry
  <2>1. f.entries \in Seq(Entry) /\ f.next \in Nat \ {0}
    BY <1>3, <1>4, Zenon
  <2>2. \A j \in f.next..Len(f.entries) : f.entries[j] \in Entry
    BY <2>1
  <2> QED
    BY <2>2, Zenon DEF rest
<1> QED
  BY <1>1, <1>2, <1>3, <1>4, Zenon

\* While batches and flushes stay, a chunk may only leave the call it is ahead of,
\* or get there when it is nowhere else.
LEMMA PlaceCalls ==
  ASSUME PlaceInv, UNCHANGED <<pending, flights>>,
         \A e \in Entry : ahead(e)' => ahead(e) \/ (~batched(e) /\ ~flying(e))
  PROVE  /\ PlaceInv'
         /\ \A e \in Entry : outstanding(e)' <=> ahead(e)' \/ batched(e) \/ flying(e)
<1>1. \A e : (batched(e)' <=> batched(e)) /\ (flying(e)' <=> flying(e))
  BY Zenon DEF batched, flying, elems, rest
<1>2. \A e \in Entry : ahead(e)' => ~batched(e)' /\ ~flying(e)'
  BY <1>1, Zenon DEF PlaceInv
<1>3. /\ (\A n \in Agents : distinct(pending[n]))'
      /\ (\A f \in flights : distinct(f.entries))'
      /\ (\A n, m \in Agents : \A e \in elems(pending[n]) : e \in elems(pending[m]) => n = m)'
      /\ (\A n \in Agents, f \in flights : \A e \in elems(pending[n]) : e \notin rest(f))'
      /\ (\A f, g \in flights : \A e \in rest(f) : e \in rest(g) => f = g)'
  BY DEF PlaceInv, elems, rest, distinct
<1> QED
  BY <1>1, <1>2, <1>3, Zenon DEF PlaceInv, outstanding

\* The flush startFlushLocked dispatches.
fresh(n) == [node |-> n, entries |-> pending[n], bytes |-> bytes[n], next |-> 1, res |-> NoResult]

\* Chunks N move from their call into the batch of n, behind what is there or in
\* its place when that is dispatched.
LEMMA PlaceBatch ==
  ASSUME IInv, PlaceInv, NEW n \in Agents, NEW q, NEW N \in SUBSET Entry,
         pending' = [pending EXCEPT ![n] = q], distinct(q),
         \/ flights' = flights /\ elems(q) = elems(pending[n]) \cup N
         \/ flights' = flights \cup {fresh(n)} /\ elems(q) = N,
         \A e \in N : ahead(e),
         \A e \in Entry : ahead(e)' <=> ahead(e) /\ e \notin N
  PROVE  /\ PlaceInv'
         /\ \A e \in Entry : outstanding(e)' <=> outstanding(e)
<1> DEFINE E(m) == elems(pending[m])
           P(m) == elems(pending'[m])
           fl == fresh(n)
<1>1. pending'[n] = q /\ \A m \in Agents : m # n => pending'[m] = pending[m]
  BY PlaceTypes, Zenon
<1>2. P(n) = elems(q) /\ \A m \in Agents : m # n => P(m) = E(m)
  BY <1>1, Zenon
<1>3. fl.entries = pending[n] /\ rest(fl) = E(n)
  <2>1. fl.entries = pending[n] /\ fl.next = 1
    BY Zenon DEF fresh
  <2>2. pending[n] \in Seq(Entry)
    BY PlaceTypes, Zenon
  <2> QED
    BY <2>1, <2>2, FreshRest, Zenon
<1> HIDE DEF fl
<1>4. (flights' = flights /\ P(n) = E(n) \cup N) \/ (flights' = flights \cup {fl} /\ P(n) = N)
  BY <1>2, Zenon DEF fl
<1>5. \A m \in Agents : E(m) \subseteq Entry
  BY PlaceTypes, Zenon
<1>6. \A e \in N : (\A m \in Agents : e \notin E(m)) /\ (\A f \in flights : e \notin rest(f))
  BY Zenon DEF PlaceInv, batched, flying
<1>7. /\ \A m, l \in Agents : \A e \in E(m) : e \in E(l) => m = l
      /\ \A m \in Agents, f \in flights : \A e \in E(m) : e \notin rest(f)
      /\ \A f, g \in flights : \A e \in rest(f) : e \in rest(g) => f = g
  BY Zenon DEF PlaceInv
<1>8. \A e : batched(e)' <=> \E m \in Agents : e \in P(m)
  BY Zenon DEF batched, elems
<1>9. \A e : flying(e)' <=> \E f \in flights' : e \in rest(f)
  BY Zenon DEF flying, rest
<1>10. \A m \in Agents : distinct(pending'[m])
  BY <1>1, Zenon DEF PlaceInv
<1>11. \A f \in flights' : distinct(f.entries)
  BY <1>3, <1>4, Zenon DEF PlaceInv
<1> HIDE DEF E, P
<1>12. ASSUME NEW m \in Agents, NEW l \in Agents, NEW e \in P(m), e \in P(l) PROVE m = l
  <2>1. e \in E(m) \/ (m = n /\ e \in N)
    BY <1>2, <1>4, Zenon
  <2>2. e \in E(l) \/ (l = n /\ e \in N)
    BY <1>2, <1>4, <1>12, Zenon
  <2>3. CASE e \in N
    <3>1. e \notin E(m) /\ e \notin E(l)
      BY <1>6, <2>3, Zenon
    <3> QED
      BY <2>1, <2>2, <3>1, Zenon
  <2>4. CASE e \notin N
    BY <1>7, <2>1, <2>2, <2>4, Zenon
  <2> QED
    BY <2>3, <2>4, Zenon
<1>13. ASSUME NEW m \in Agents, NEW f \in flights', NEW e \in P(m), e \in rest(f) PROVE FALSE
  <2>1. e \in E(m) \/ (m = n /\ e \in N)
    BY <1>2, <1>4, Zenon
  <2>2. CASE f \in flights
    BY <1>6, <1>7, <1>13, <2>1, <2>2, Zenon
  <2>3. CASE f \notin flights
    <3>1. f = fl /\ P(n) = N
      BY <1>4, <2>3, Zenon
    <3>2. e \in E(n)
      BY <1>3, <1>13, <3>1, Zenon
    <3>3. e \notin N
      BY <1>6, <3>2, Zenon
    <3>4. m # n
      BY <3>1, <3>3, Zenon
    <3>5. e \in E(m)
      BY <2>1, <3>4, Zenon
    <3> QED
      BY <1>7, <3>2, <3>4, <3>5, Zenon
  <2> QED
    BY <2>2, <2>3, Zenon
<1>14. ASSUME NEW f \in flights', NEW g \in flights', NEW e \in rest(f), e \in rest(g) PROVE f = g
  <2>1. f \in flights \/ (f = fl /\ e \in E(n))
    BY <1>3, <1>4, Zenon
  <2>2. g \in flights \/ (g = fl /\ e \in E(n))
    BY <1>3, <1>4, <1>14, Zenon
  <2>3. f \in flights => e \notin E(n)
    BY <1>7, Zenon
  <2>4. g \in flights => e \notin E(n)
    BY <1>7, <1>14, Zenon
  <2>5. f \in flights /\ g \in flights => f = g
    BY <1>7, <1>14, Zenon
  <2> QED
    BY <2>1, <2>2, <2>3, <2>4, <2>5, Zenon
<1>15. \A e \in Entry : (batched(e)' \/ flying(e)') <=> (batched(e) \/ flying(e) \/ e \in N)
  <2>1. \A e : batched(e) <=> \E m \in Agents : e \in E(m)
    BY Zenon DEF batched, E
  <2>2. \A e : flying(e) <=> \E f \in flights : e \in rest(f)
    BY Zenon DEF flying
  <2>3. CASE flights' = flights /\ P(n) = E(n) \cup N
    BY <1>2, <1>8, <1>9, <2>1, <2>2, <2>3, Zenon
  <2>4. CASE flights' = flights \cup {fl} /\ P(n) = N
    BY <1>2, <1>3, <1>8, <1>9, <2>1, <2>2, <2>4, Zenon
  <2> QED
    BY <1>4, <2>3, <2>4, Zenon
<1>16. ASSUME NEW e \in Entry, ahead(e)' PROVE ~batched(e)' /\ ~flying(e)'
  BY <1>15, <1>16, Zenon DEF PlaceInv
<1>17. PlaceInv'
  BY <1>10, <1>11, <1>12, <1>13, <1>14, <1>16, Zenon DEF PlaceInv, P, elems, distinct, rest
<1>18. \A e \in Entry : outstanding(e)' <=> outstanding(e)
  BY <1>15, Zenon DEF outstanding
<1> QED
  BY <1>17, <1>18, Zenon

\* A flush goes on as another one that has no more to report, or ends.
LEMMA PlaceFlight ==
  ASSUME PlaceInv, NEW f \in flights, NEW G, flights' = (flights \ {f}) \cup G,
         \A g \in G : distinct(g.entries) /\ \A e \in rest(g) : e \in rest(f),
         \A g, h \in G : g = h, UNCHANGED <<pc, left, buf, cur, mu, pending>>
  PROVE  /\ PlaceInv'
         /\ \A e : (ahead(e)' <=> ahead(e)) /\ (batched(e)' <=> batched(e))
         /\ \A e : flying(e)' <=> (flying(e) /\ e \notin rest(f)) \/ \E g \in G : e \in rest(g)
<1>1. \A e : (ahead(e)' <=> ahead(e)) /\ (batched(e)' <=> batched(e))
  <2>1. \A e : ahead(e)' <=> ahead(e)
    BY AheadStays, Zenon
  <2>2. \A e : batched(e)' <=> batched(e)
    BY Zenon DEF batched, elems
  <2> QED
    BY <2>1, <2>2, Zenon
<1>2. /\ \A g, h \in flights : \A e \in rest(g) : e \in rest(h) => g = h
      /\ \A n \in Agents, g \in flights : \A e \in elems(pending[n]) : e \notin rest(g)
  BY Zenon DEF PlaceInv
<1>3. \A e : flying(e)' <=> \E g \in flights' : e \in rest(g)
  BY Zenon DEF flying, rest
<1>4. \A e : flying(e) <=> \E g \in flights : e \in rest(g)
  BY Zenon DEF flying
<1>5. \A e : flying(e)' <=> (flying(e) /\ e \notin rest(f)) \/ \E g \in G : e \in rest(g)
  BY <1>2, <1>3, <1>4, Zenon
<1>6. \A g \in flights' : distinct(g.entries)
  BY Zenon DEF PlaceInv
<1>7. ASSUME NEW g \in flights', NEW h \in flights', NEW e \in rest(g), e \in rest(h) PROVE g = h
  <2>1. (g \in flights /\ g # f) \/ (g \in G /\ e \in rest(f))
    BY Zenon
  <2>2. (h \in flights /\ h # f) \/ (h \in G /\ e \in rest(f))
    BY <1>7, Zenon
  <2>3. g \in flights /\ h \in flights => g = h
    BY <1>2, <1>7, Zenon
  <2>4. g \in flights /\ e \in rest(f) => g = f
    BY <1>2, Zenon
  <2>5. h \in flights /\ e \in rest(f) => h = f
    BY <1>2, <1>7, Zenon
  <2> QED
    BY <2>1, <2>2, <2>3, <2>4, <2>5, Zenon
<1>8. ASSUME NEW n \in Agents, NEW g \in flights', NEW e \in elems(pending'[n]) PROVE e \notin rest(g)
  <2>1. g \in flights \/ (e \in rest(g) => e \in rest(f))
    BY Zenon
  <2>2. e \in elems(pending[n])
    BY Zenon
  <2> QED
    BY <1>2, <2>1, <2>2, Zenon
<1>9. \A e : flying(e)' => flying(e)
  BY <1>4, <1>5, Zenon
<1>10. \A e \in Entry : ahead(e)' => ~batched(e)' /\ ~flying(e)'
  BY <1>1, <1>9, Zenon DEF PlaceInv
<1>11. (\A n \in Agents : distinct(pending[n]))'
  BY Zenon DEF PlaceInv, distinct
<1>12. (\A n, m \in Agents : \A e \in elems(pending[n]) : e \in elems(pending[m]) => n = m)'
  BY DEF PlaceInv, elems
<1>13. (\A n \in Agents, g \in flights : \A e \in elems(pending[n]) : e \notin rest(g))'
  BY <1>8, Zenon DEF elems, rest
<1>14. (\A g \in flights : distinct(g.entries))'
  BY <1>6, Zenon DEF distinct
<1>15. (\A g, h \in flights : \A e \in rest(g) : e \in rest(h) => g = h)'
  BY <1>7, Zenon DEF rest
<1>16. PlaceInv'
  BY <1>10, <1>11, <1>12, <1>13, <1>14, <1>15, Zenon DEF PlaceInv
<1> QED
  BY <1>1, <1>5, <1>16, Zenon

\* What a flush that returned or reported is.
LEMMA FlushReturnsPlace ==
  ASSUME IInv, PlaceInv, NEW f \in flights, flushReturns(f)
  PROVE  PlaceInv' /\ \A e \in Entry : outstanding(e)' <=> outstanding(e)
<1>1. PICK res : flights' = (flights \ {f}) \cup {[f EXCEPT !.res = res]}
  BY Zenon DEF flushReturns
<1> DEFINE g == [f EXCEPT !.res = res]
<1>2. f \in Flight
  BY Zenon DEF IInv, TypeOK
<1>3. g.entries = f.entries /\ g.next = f.next
  BY <1>2, Zenon DEF Flight
<1> HIDE DEF g
<1>4. rest(g) = rest(f) /\ distinct(g.entries)
  BY <1>3, Zenon DEF rest, PlaceInv
<1>5. flights' = (flights \ {f}) \cup {g}
  BY <1>1, Zenon DEF g
<1>6. UNCHANGED <<pc, left, buf, cur, mu, pending>>
  BY Zenon DEF flushReturns, callVars, agentVars
<1>7. /\ PlaceInv'
      /\ \A e : (ahead(e)' <=> ahead(e)) /\ (batched(e)' <=> batched(e))
      /\ \A e : flying(e)' <=> (flying(e) /\ e \notin rest(f)) \/ \E h \in {g} : e \in rest(h)
  BY <1>4, <1>5, <1>6, PlaceFlight, Zenon
<1>8. \A e : e \in rest(f) => flying(e)
  BY Zenon DEF flying
<1> QED
  BY <1>4, <1>7, <1>8, Zenon DEF outstanding

\* deliver takes the entry it reports to off the rest, and moves nothing else.
LEMMA DeliverPlace ==
  ASSUME IInv, PlaceInv, NEW f \in flights, deliver(f)
  PROVE  /\ PlaceInv'
         /\ f.entries[f.next] \in Entry /\ outstanding(f.entries[f.next])
         /\ \A e \in Entry : outstanding(e)' <=> outstanding(e) /\ e # f.entries[f.next]
<1> DEFINE s == f.entries
           m == f.next
           g == [f EXCEPT !.next = m + 1]
           G == IF m < Len(s) THEN {g} ELSE {}
<1>1. flights' = (flights \ {f}) \cup G
  BY Zenon DEF deliver
<1>2. UNCHANGED <<pc, left, buf, cur, mu, pending>>
  BY Zenon DEF deliver, callVars, agentVars
<1>3. f \in Flight
  BY Zenon DEF IInv, TypeOK
<1>4. g.entries = s /\ g.next = m + 1
  BY <1>3, Zenon DEF Flight
<1>5. s \in Seq(Entry) /\ m \in Nat \ {0} /\ m <= Len(s) /\ distinct(s)
  BY PlaceTypes, Zenon DEF PlaceInv
<1> HIDE DEF g, s, m
<1>6. rest(f) = {s[j] : j \in m..Len(s)} /\ rest(g) = {s[j] : j \in (m + 1)..Len(s)}
  BY <1>4, Zenon DEF rest, s, m
<1>7. /\ s[m] \in rest(f)
      /\ s[m] \notin rest(g)
      /\ \A e : e \in rest(f) <=> e = s[m] \/ e \in rest(g)
      /\ m = Len(s) => rest(g) = {}
  BY <1>5, <1>6, NextRest, Zenon
<1>8. m < Len(s) \/ m = Len(s)
  BY <1>5
<1>9. (\A h \in G : h = g) /\ \A e : (\E h \in G : e \in rest(h)) <=> e \in rest(g)
  BY <1>7, <1>8, Zenon
<1>10. \A h \in G : distinct(h.entries) /\ \A e \in rest(h) : e \in rest(f)
  BY <1>4, <1>5, <1>7, <1>9, Zenon
<1>11. \A h, k \in G : h = k
  BY <1>9, Zenon
<1> HIDE DEF G
<1>12. /\ PlaceInv'
       /\ \A e : (ahead(e)' <=> ahead(e)) /\ (batched(e)' <=> batched(e))
       /\ \A e : flying(e)' <=> (flying(e) /\ e \notin rest(f)) \/ \E h \in G : e \in rest(h)
  BY <1>1, <1>2, <1>10, <1>11, PlaceFlight
<1>13. flying(s[m]) /\ \A e \in rest(f) : flying(e)
  BY <1>7, Zenon DEF flying
<1>14. s[m] \in Entry
  BY <1>7, PlaceTypes, Zenon
<1>15. ~batched(s[m]) /\ ~ahead(s[m])
  BY <1>7, <1>13, <1>14, Zenon DEF PlaceInv, batched
<1>16. \A e \in Entry : outstanding(e)' <=> outstanding(e) /\ e # s[m]
  BY <1>7, <1>9, <1>12, <1>13, <1>15, Zenon DEF outstanding
<1> QED
  BY <1>12, <1>13, <1>14, <1>16, Zenon DEF outstanding, s, m

\* Steps that touch neither calls nor batches nor flushes.
LEMMA QuietPlace ==
  ASSUME PlaceInv, UNCHANGED <<pc, left, buf, cur, mu, pending, flights>>
  PROVE  PlaceInv' /\ \A e \in Entry : outstanding(e)' <=> outstanding(e)
<1>1. \A e \in Entry : ahead(e)' <=> ahead(e)
  BY AheadStays, Zenon
<1>2. UNCHANGED <<pending, flights>>
  BY Zenon
<1> QED
  BY <1>1, <1>2, PlaceCalls, Zenon DEF outstanding

\* timerFlush and closeAgent dispatch what is pending.
LEMMA FlushPlace ==
  ASSUME IInv, PlaceInv, NEW n \in Agents, startFlushLocked(n),
         pending' = [pending EXCEPT ![n] = << >>], UNCHANGED <<pc, left, buf, cur, mu>>
  PROVE  PlaceInv' /\ \A e \in Entry : outstanding(e)' <=> outstanding(e)
<1>1. \A e \in Entry : ahead(e)' <=> ahead(e) /\ e \notin {}
  BY AheadStays, Zenon
<1>2. elems(<< >>) = {} /\ distinct(<< >>)
  BY EmptyElems, Zenon
<1>3. \/ flights' = flights /\ elems(<< >>) = elems(pending[n]) \cup {}
      \/ flights' = flights \cup {fresh(n)} /\ elems(<< >>) = {}
  <2>1. CASE pending[n] = << >>
    BY <1>2, <2>1, Zenon DEF startFlushLocked
  <2>2. CASE pending[n] # << >>
    BY <1>2, <2>2, Zenon DEF startFlushLocked, fresh
  <2> QED
    BY <2>1, <2>2, Zenon
<1>4. {} \in SUBSET Entry /\ \A e \in {} : ahead(e)
  BY Zenon
<1> QED
  BY <1>1, <1>2, <1>3, <1>4, PlaceBatch, Zenon

\* addToNextProduceLocked moves the chunk at the cursor into the batch.
LEMMA AddPlace ==
  ASSUME IInv, BinInv, PlaceInv, NEW c \in Calls, addToNextProduceLocked(c)
  PROVE  PlaceInv' /\ \A e \in Entry : outstanding(e)' <=> outstanding(e)
<1>1. PICK n \in Agents : n = buf[c]
  BY CallTypes, Zenon DEF addToNextProduceLocked, BinInv
<1>2. PICK x : x = <<NextItem(c), cur[c][2]>>
  BY Zenon
<1>3. PICK z \in Entry : TRUE
  <2>1. /\ Bin[c][n] \in Seq(Items) /\ cur[c][1] \in Nat \ {0}
        /\ cur[c][1] <= Len(Bin[c][n])
    BY <1>1, BinsAndChunks, Zenon DEF IInv, TypeOK, addToNextProduceLocked
  <2>2. PICK i \in Items : TRUE
    BY <2>1, SeqElement
  <2>3. Chunks[i] \in Seq(Nat \ {0}) /\ 1 <= Len(Chunks[i])
    BY BinsAndChunks, Zenon
  <2>4. 1 \in DOMAIN Chunks[i]
    BY <2>3
  <2> QED
    BY <2>4, EntryIsChunk, Zenon
<1>4. x \in Entry /\ ahead(x) /\ \A e \in Entry : ahead(e)' <=> ahead(e) /\ e # x
  BY <1>2, <1>3, AheadAdd, Zenon
<1>5. \/ /\ overflows(n, WireBytes(x)) /\ startFlushLocked(n)
         /\ pending' = [pending EXCEPT ![n] = <<x>>]
      \/ pending' = [pending EXCEPT ![n] = Append(pending[n], x)] /\ flights' = flights
  BY <1>1, <1>2, Zenon DEF addToNextProduceLocked
<1>6. \A e \in Entry : ahead(e)' <=> ahead(e) /\ e \notin {x}
  BY <1>4, Zenon
<1>7. {x} \in SUBSET Entry /\ \A e \in {x} : ahead(e)
  BY <1>4, Zenon
<1>8. CASE /\ overflows(n, WireBytes(x)) /\ startFlushLocked(n)
           /\ pending' = [pending EXCEPT ![n] = <<x>>]
  <2>1. flights' = flights \cup {fresh(n)}
    BY <1>8, Zenon DEF startFlushLocked, overflows, fresh
  <2>2. elems(<<x>>) = {x} /\ distinct(<<x>>)
    BY OneElem, Zenon
  <2> QED
    BY <1>6, <1>7, <1>8, <2>1, <2>2, PlaceBatch, Zenon
<1>9. CASE pending' = [pending EXCEPT ![n] = Append(pending[n], x)] /\ flights' = flights
  <2>1. pending[n] \in Seq(Entry) /\ distinct(pending[n])
    BY PlaceTypes, Zenon DEF PlaceInv
  <2>2. x \notin elems(pending[n])
    BY <1>4, Zenon DEF PlaceInv, batched
  <2>3. /\ elems(Append(pending[n], x)) = elems(pending[n]) \cup {x}
        /\ distinct(Append(pending[n], x))
    BY <1>4, <2>1, <2>2, AppendElems, ZenonT(40)
  <2> QED
    BY <1>6, <1>7, <1>9, <2>3, PlaceBatch, Zenon
<1> QED
  BY <1>5, <1>8, <1>9, Zenon

\* The other steps of a call move no chunk.
LEMMA CallPlace ==
  ASSUME IInv, BinInv, PlaceInv, NEW c \in Calls,
         \/ binByAgent(c) \/ multiAddLock(c) \/ maybeStartNextFlushTimerLocked(c)
         \/ \E n \in Agents : agentBufferFor(c, n)
  PROVE  PlaceInv' /\ \A e \in Entry : outstanding(e)' <=> outstanding(e)
<1>1. \A e \in Entry : ahead(e)' <=> ahead(e)
  BY AheadBin, AheadLock, AheadBinDone, AheadLookUp, Zenon
<1>2. UNCHANGED <<pending, flights>>
  BY Zenon DEF binByAgent, multiAddLock, maybeStartNextFlushTimerLocked, agentBufferFor, agentVars
<1> QED
  BY <1>1, <1>2, PlaceCalls, Zenon DEF outstanding

\* A rejected call's chunks, and those of a bin that is given up, are dropped.
LEMMA RejectPlace ==
  ASSUME IInv, BinInv, PlaceInv, NEW c \in Calls, rejectCanceled(c)
  PROVE  /\ PlaceInv'
         /\ \A e \in Entry : CallOf[e[1]] = c => outstanding(e)
         /\ \A e \in Entry : outstanding(e)' <=> outstanding(e) /\ CallOf[e[1]] # c
<1>1. \A e \in Entry : ahead(e)' <=> ahead(e) /\ CallOf[e[1]] # c
  BY AheadReject, Zenon
<1>2. UNCHANGED <<pending, flights>>
  BY Zenon DEF rejectCanceled, agentVars
<1>3. \A e \in Entry : CallOf[e[1]] = c => ahead(e) /\ ~batched(e) /\ ~flying(e)
  BY Zenon DEF rejectCanceled, ahead, PlaceInv
<1> QED
  BY <1>1, <1>2, <1>3, PlaceCalls, Zenon DEF outstanding

\* The same for the bin that a closed buffer refuses.
LEMMA ClosedPlace ==
  ASSUME IInv, BinInv, PlaceInv, NEW c \in Calls, NEW n \in Agents,
         agentBufferForClosed(c, n) \/ (multiAddClosed(c) /\ n = buf[c])
  PROVE  /\ PlaceInv'
         /\ \A e \in Entry : e[1] \in InBin(c, n) => outstanding(e)
         /\ \A e \in Entry : outstanding(e)' <=> outstanding(e) /\ e[1] \notin InBin(c, n)
<1>1. \A e \in Entry : ahead(e)' <=> ahead(e) /\ e[1] \notin InBin(c, n)
  BY AheadClosed, Zenon
<1>2. UNCHANGED <<pending, flights>>
  BY Zenon DEF agentBufferForClosed, multiAddClosed, agentVars
<1>3. n \in left[c] /\ ~(buf[c] = n /\ mu[n] = c)
  BY NoneIsNobody, Zenon DEF agentBufferForClosed, multiAddClosed, BinInv
<1>4. ASSUME NEW e \in Entry, e[1] \in InBin(c, n) PROVE ahead(e) /\ ~batched(e) /\ ~flying(e)
  <2>1. CallOf[e[1]] = c
    BY <1>4, InOwnBin, Zenon
  <2>2. \E j \in DOMAIN Bin[c][n] : Bin[c][n][j] = e[1]
    BY <1>4, Zenon DEF InBin
  <2>3. \A j : before(c, n, j, e[2])
    BY <1>3, Zenon DEF before
  <2>4. ahead(e)
    BY <1>3, <2>1, <2>2, <2>3, Zenon DEF ahead
  <2> QED
    BY <2>4, Zenon DEF PlaceInv
<1> QED
  BY <1>1, <1>2, <1>4, PlaceCalls, Zenon DEF outstanding

\* Steps that leave the calls alone leave their bins alone.
LEMMA BinSame ==
  ASSUME BinInv, UNCHANGED <<pc, left, buf>>
  PROVE  BinInv'
BY Zenon DEF BinInv

\* A call looks up a buffer only for a bin it has left, and forgets both together.
LEMMA BinStep == IInv /\ BinInv /\ [Next]_vars => BinInv'
<1> SUFFICES ASSUME IInv, BinInv, [Next]_vars PROVE BinInv'
  BY Zenon
<1>1. ASSUME NEW c \in Calls, wrap(c) \/ rejectCanceled(c) PROVE BinInv'
  <2>1. UNCHANGED <<left, buf>> /\ pc[c] # "binning" /\ \A d \in Calls : d # c => pc'[d] = pc[d]
    BY <1>1, CallTypes, Zenon DEF wrap, rejectCanceled
  <2> QED
    BY <2>1, Zenon DEF BinInv
<1>2. ASSUME NEW c \in Calls, binByAgent(c) PROVE BinInv'
  <2>1. /\ pc'[c] = "binning" /\ pc[c] # "binning" /\ buf' = buf
        /\ \A d \in Calls : d # c => pc'[d] = pc[d] /\ left'[d] = left[d]
    BY <1>2, CallTypes, Zenon DEF binByAgent
  <2> QED
    BY <2>1, Zenon DEF BinInv
<1>3. ASSUME NEW c \in Calls, NEW n \in Agents, agentBufferFor(c, n) PROVE BinInv'
  <2>1. /\ n \in left[c] /\ UNCHANGED <<pc, left>> /\ buf'[c] = n
        /\ \A d \in Calls : d # c => buf'[d] = buf[d]
    BY <1>3, CallTypes, Zenon DEF agentBufferFor
  <2> QED
    BY <2>1, Zenon DEF BinInv
<1>4. ASSUME NEW c \in Calls, \/ multiAddClosed(c) \/ maybeStartNextFlushTimerLocked(c)
                              \/ \E n \in Agents : agentBufferForClosed(c, n)
      PROVE  BinInv'
  <2>1. /\ buf'[c] = None /\ pc' = pc /\ left'[c] \subseteq left[c]
        /\ \A d \in Calls : d # c => left'[d] = left[d] /\ buf'[d] = buf[d]
    BY <1>4, CallTypes, Zenon DEF agentBufferForClosed, multiAddClosed, maybeStartNextFlushTimerLocked
  <2> QED
    BY <2>1, Zenon DEF BinInv
<1>5. CASE UNCHANGED <<pc, left, buf>>
  BY <1>5, BinSame, Zenon
<1>6. ASSUME NEW c \in Calls, multiAddLock(c) \/ addToNextProduceLocked(c) \/ cancel(c)
      PROVE UNCHANGED <<pc, left, buf>>
  BY <1>6, Zenon DEF multiAddLock, addToNextProduceLocked, cancel, callVars
<1>7. ASSUME \/ \E i \in Items : ctxWatch(i)
             \/ \E n \in Agents : lingerElapses(n) \/ timerFlush(n) \/ closeAgent(n)
             \/ \E f \in flights : flushReturns(f) \/ deliver(f)
             \/ Close \/ closeReturns \/ UNCHANGED vars
      PROVE  UNCHANGED <<pc, left, buf>>
  BY <1>7, Zenon DEF ctxWatch, lingerElapses, timerFlush, closeAgent, flushReturns, deliver, Close,
              closeReturns, callVars, vars
<1> QED
  BY <1>1, <1>2, <1>3, <1>4, <1>5, <1>6, <1>7, Zenon DEF Next, CallStep

\* startFlushLocked adds a flush that has not returned and stands at its first entry.
LEMMA FlushFlights ==
  ASSUME NEW n, startFlushLocked(n)
  PROVE  \A g \in flights' : g \in flights \/ (g.res.kind = "none" /\ g.next = 1)
<1>1. CASE pending[n] = << >>
  BY <1>1, Zenon DEF startFlushLocked
<1>2. CASE pending[n] # << >>
  <2>1. flights' = flights \cup {fresh(n)}
    BY <1>2, Zenon DEF startFlushLocked, fresh
  <2>2. fresh(n).res.kind = "none" /\ fresh(n).next = 1
    BY Zenon DEF fresh, NoResult, ErrResult
  <2> QED
    BY <2>1, <2>2, Zenon
<1> QED
  BY <1>1, <1>2, Zenon

\* At the start no chunk is anywhere.
LEMMA InitPlace ==
  ASSUME Init
  PROVE  BinInv /\ PlaceInv /\ \A e \in Entry : ~outstanding(e)
<1>1. /\ \A c \in Calls : pc[c] = "idle" /\ left[c] = {} /\ buf[c] = None
      /\ \A n \in Agents : pending[n] = << >>
      /\ flights = {}
  BY Zenon DEF Init
<1>2. BinInv
  BY <1>1, Zenon DEF BinInv
<1>3. \A n \in Agents : elems(pending[n]) = {} /\ distinct(pending[n])
  BY <1>1, EmptyElems, Zenon
<1>4. \A e \in Entry : ~ahead(e) /\ ~batched(e) /\ ~flying(e)
  <2>1. \A e \in Entry : CallOf[e[1]] \in Calls
    BY HasSpot, Zenon
  <2>2. \A e \in Entry : ~ahead(e)
    BY <1>1, <2>1, Zenon DEF ahead
  <2> QED
    BY <1>1, <1>3, <2>2, Zenon DEF batched, flying
<1> QED
  BY <1>1, <1>2, <1>3, <1>4, Zenon DEF PlaceInv, outstanding
=============================================================================
