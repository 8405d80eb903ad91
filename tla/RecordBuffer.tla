---------------------------- MODULE RecordBuffer ----------------------------
(***************************************************************************)
(* ClusterBuffer and AgentBuffer (cluster_record_buffer.go,                *)
(* agent_record_buffer.go, routed_batch.go): callers hand over promised    *)
(* items, each agent's buffer batches them until the linger timer fires,   *)
(* the next item would overflow the byte cap, or Close, and a goroutine    *)
(* per flush reports the outcome to every item of its batch.               *)
(*                                                                         *)
(* A call is one Add or MultiAdd.  Everything done under AgentBuffer.mu is *)
(* kept under mu here, one chunk at a time; the lookup of the buffer and   *)
(* the locking of it are separate steps, as they are in the code.          *)
(***************************************************************************)
EXTENDS Integers, Sequences, FiniteSets

CONSTANTS
  Calls,          \* calls of ClusterBuffer.Add / MultiAdd
  Items,          \* promised items
  Agents,         \* node IDs
  Parts,          \* (topic, partition) pairs
  CallOf,         \* [Items -> Calls]: the call that hands the item over
  PartOf,         \* [Items -> Parts]
  Bin,            \* [Calls -> [Agents -> Seq(Items)]]: byAgent, in slice order
  Chunks,         \* [Items -> Seq(Nat)]: wire bytes of what splitByMaxBytes returns
  BatchMaxBytes,  \* byte cap of one flush
  Cancelable,     \* SUBSET Calls: the ones whose ctx.Done() is not nil
  MayOmit,        \* whether a flush's response may omit partitions it was sent
  None            \* no call, no agent

ASSUME BufferAssumption ==
  /\ CallOf \in [Items -> Calls]
  /\ PartOf \in [Items -> Parts]
  /\ Bin \in [Calls -> [Agents -> Seq(Items)]]
  /\ Chunks \in [Items -> Seq(Nat \ {0})]
  /\ \A i \in Items : Chunks[i] # << >>
  /\ BatchMaxBytes \in Nat
  /\ Cancelable \subseteq Calls
  /\ MayOmit \in BOOLEAN
  /\ None \notin Calls \cup Agents

\* Every item sits in one place of one bin, and that bin is of its own call.
ASSUME BinAssumption ==
  /\ \A c \in Calls, n \in Agents : \A j \in DOMAIN Bin[c][n] :
       CallOf[Bin[c][n][j]] = c
  /\ \A i \in Items : \E n \in Agents : \E j \in DOMAIN Bin[CallOf[i]][n] :
       Bin[CallOf[i]][n][j] = i
  /\ \A c \in Calls, n, m \in Agents :
       \A j \in DOMAIN Bin[c][n], k \in DOMAIN Bin[c][m] :
         Bin[c][n][j] = Bin[c][m][k] => n = m /\ j = k

VARIABLES
  pc,         \* [Calls -> {"idle", "wrapped", "binning"}]
  left,       \* [Calls -> SUBSET Agents]: bins the call still has to dispatch
  buf,        \* [Calls -> Agents \cup {None}]: the buffer the call looked up
  cur,        \* [Calls -> Nat \X Nat]: next (item, chunk) of the bin to add
  ctx,        \* [Calls -> {"live", "canceled"}]
  watch,      \* [Items -> {"off", "armed", "started"}]: context.AfterFunc
  contrib,    \* [Items -> Int]: how often the item is in bufferedRecords/Bytes
  released,   \* [Items -> BOOLEAN]: ourDoneFired
  fanin,      \* [Items -> [left : Int, res : Result]]: the split's shared done
  outcome,    \* [Items -> Result]: what the item's own done was last called with
  fires,      \* [Items -> Nat]: how often it was called
  known,      \* SUBSET Agents: keys of agentBuffers
  cbClosed,   \* ClusterBuffer.closed
  closing,    \* SUBSET Agents: the buffers ClusterBuffer.Close took over
  closer,     \* "open", "draining", "closed": the call of ClusterBuffer.Close
  mu,         \* [Agents -> Calls \cup {None}]: holder of AgentBuffer.mu
  aClosed,    \* [Agents -> BOOLEAN]: AgentBuffer.closed
  pending,    \* [Agents -> Seq(Entry)]: nextProduceItems
  bytes,      \* [Agents -> Nat]: nextProduceWireBytes
  timer,      \* [Agents -> {"nil", "running", "fired"}]: nextProduceFlushTimer
  callbacks,  \* [Agents -> Nat]: timer callbacks waiting for mu
  flights,    \* flushes dispatched and not yet reported to all their entries
  landed      \* history: the chunks some agent acknowledged

callVars  == <<pc, left, buf, cur>>
doneVars  == <<watch, contrib, released, outcome, fires>>
closeVars == <<known, cbClosed, closing, closer>>
agentVars == <<mu, aClosed, pending, bytes, timer, callbacks>>
vars == <<callVars, ctx, doneVars, fanin, closeVars, agentVars, flights, landed>>

-----------------------------------------------------------------------------
\* A ProduceResult.  kind "resp" carries a response: the partitions it reports
\* without and with an error code.  The other kinds carry only an error.
Result == [kind : {"none", "ctx", "closed", "err", "resp"},
           ok : SUBSET Parts, bad : SUBSET Parts]

ErrResult(kind) == [kind |-> kind, ok |-> {}, bad |-> {}]
NoResult == ErrResult("none")

\* recordErrFromResult # nil.  A partition the response omits has no error.
recordErr(res, p) == IF res.kind = "resp" THEN p \in res.bad ELSE TRUE

\* A promised chunk: chunk k of item i.
Entry == UNION {{<<i, k>> : k \in DOMAIN Chunks[i]} : i \in Items}

ItemsOf(c) == {i \in Items : CallOf[i] = c}
InBin(c, n) == {Bin[c][n][j] : j \in DOMAIN Bin[c][n]}

\* uncompressedWireBytes() of one chunk.
WireBytes(e) == Chunks[e[1]][e[2]]

\* mergePromisedRoutedBatchByTopicPartition: one wire entry per partition.
WireParts(entries) == {PartOf[entries[j][1]] : j \in DOMAIN entries}

Flight == [node : Agents, entries : Seq(Entry), bytes : Nat, next : Nat \ {0}, res : Result]

Init ==
  /\ pc = [c \in Calls |-> "idle"]
  /\ left = [c \in Calls |-> {}]
  /\ buf = [c \in Calls |-> None]
  /\ cur = [c \in Calls |-> <<1, 1>>]
  /\ ctx = [c \in Calls |-> "live"]
  /\ watch = [i \in Items |-> "off"]
  /\ contrib = [i \in Items |-> 0]
  /\ released = [i \in Items |-> FALSE]
  /\ fanin = [i \in Items |-> [left |-> Len(Chunks[i]), res |-> NoResult]]
  /\ outcome = [i \in Items |-> NoResult]
  /\ fires = [i \in Items |-> 0]
  /\ known = {}
  /\ cbClosed = FALSE
  /\ closing = {}
  /\ closer = "open"
  /\ mu = [n \in Agents |-> None]
  /\ aClosed = [n \in Agents |-> FALSE]
  /\ pending = [n \in Agents |-> << >>]
  /\ bytes = [n \in Agents |-> 0]
  /\ timer = [n \in Agents |-> "nil"]
  /\ callbacks = [n \in Agents |-> 0]
  /\ flights = {}
  /\ landed = {}

-----------------------------------------------------------------------------
(***************************************************************************)
(* Completion.  wrap() layers an accounting hook and, for a cancelable     *)
(* ctx, two compare-and-swap gates around an item's own done.              *)
(***************************************************************************)
gated(i) == CallOf[i] \in Cancelable

\* The wrapped done of every item in S is called with res[i]: the first call
\* stops the ctx watch and gives the item's size back; the item's own done is
\* called unless the ctx watch got there first.
wrappedDone(S, res) ==
  /\ contrib' = [i \in Items |-> IF i \in S /\ ~(gated(i) /\ released[i])
                                 THEN contrib[i] - 1 ELSE contrib[i]]
  /\ released' = [i \in Items |-> released[i] \/ i \in S]
  /\ watch' = [i \in Items |-> IF i \in S /\ watch[i] = "armed"
                               THEN "off" ELSE watch[i]]
  /\ outcome' = [i \in Items |-> IF i \in S /\ ~(gated(i) /\ fires[i] > 0)
                                 THEN res[i] ELSE outcome[i]]
  /\ fires' = [i \in Items |-> IF i \in S /\ ~(gated(i) /\ fires[i] > 0)
                               THEN fires[i] + 1 ELSE fires[i]]

\* Mutant: the watch does not look whether done was called.
ctxWatch_ungated(i) ==
  /\ watch[i] = "started"
  /\ watch' = [watch EXCEPT ![i] = "off"]
  /\ outcome' = [outcome EXCEPT ![i] = ErrResult("ctx")]
  /\ fires' = [fires EXCEPT ![i] = @ + 1]
  /\ UNCHANGED <<callVars, ctx, contrib, released, fanin, closeVars, agentVars,
                 flights, landed>>

\* The callback of context.AfterFunc: fireOrigDone(ctx.Err()), nothing else.
ctxWatch(i) ==
  /\ watch[i] = "started"
  /\ watch' = [watch EXCEPT ![i] = "off"]
  /\ IF fires[i] = 0
       THEN /\ outcome' = [outcome EXCEPT ![i] = ErrResult("ctx")]
            /\ fires' = [fires EXCEPT ![i] = 1]
       ELSE UNCHANGED <<outcome, fires>>
  /\ UNCHANGED <<callVars, ctx, contrib, released, fanin, closeVars, agentVars,
                 flights, landed>>

\* Mutant: the last result wins.
chosen_last(i, res) == res

\* The result the shared done of a split item keeps: the first one, replaced by
\* the first later one that fails the item's own partition.
chosen(i, res) ==
  IF fanin[i].res.kind = "none" THEN res
  ELSE IF ~recordErr(fanin[i].res, PartOf[i]) /\ recordErr(res, PartOf[i])
       THEN res ELSE fanin[i].res

\* The done of one chunk: the item's wrapped done, or the fan-in of its chunks.
chunkDone(i, res) ==
  IF Len(Chunks[i]) = 1
    THEN wrappedDone({i}, [j \in {i} |-> res]) /\ UNCHANGED fanin
    ELSE /\ fanin' = [fanin EXCEPT ![i] = [left |-> @.left - 1, res |-> chosen(i, res)]]
         /\ IF fanin[i].left = 1
              THEN wrappedDone({i}, [j \in {i} |-> chosen(i, res)])
              ELSE UNCHANGED doneVars

\* done(err) of all items of S at once: no flush will carry their outcome.
failItems(S, kind) == wrappedDone(S, [i \in S |-> ErrResult(kind)])

\* done(err) of all chunks of all items of S: each fan-in runs to its end.
failChunks(S, kind) ==
  /\ failItems(S, kind)
  /\ fanin' = [i \in Items |-> IF i \in S /\ Len(Chunks[i]) > 1
                               THEN [left |-> 0, res |-> ErrResult(kind)]
                               ELSE fanin[i]]

-----------------------------------------------------------------------------
(***************************************************************************)
(* ClusterBuffer.Add / MultiAdd.                                           *)
(***************************************************************************)

\* wrap of every item: count it and, for a cancelable ctx, watch the ctx (the
\* callback starts at once when the ctx is already canceled).
wrap(c) ==
  /\ pc[c] = "idle"
  /\ pc' = [pc EXCEPT ![c] = "wrapped"]
  /\ contrib' = [i \in Items |-> IF i \in ItemsOf(c) THEN contrib[i] + 1 ELSE contrib[i]]
  /\ watch' = [i \in Items |->
                 IF i \notin ItemsOf(c) \/ ~gated(i) THEN watch[i]
                 ELSE IF ctx[c] = "live" THEN "armed" ELSE "started"]
  /\ UNCHANGED <<left, buf, cur, ctx, released, fanin, outcome, fires, closeVars,
                 agentVars, flights, landed>>

\* addToBuffers, the pre-canceled fast path: nothing is dispatched.
rejectCanceled(c) ==
  /\ pc[c] = "wrapped"
  /\ ctx[c] = "canceled"
  /\ pc' = [pc EXCEPT ![c] = "binning"]
  /\ failItems(ItemsOf(c), "ctx")
  /\ UNCHANGED <<left, buf, cur, ctx, fanin, closeVars, agentVars, flights, landed>>

\* addToBuffers, binning by destination agent.
binByAgent(c) ==
  /\ pc[c] = "wrapped"
  /\ ctx[c] = "live"
  /\ pc' = [pc EXCEPT ![c] = "binning"]
  /\ left' = [left EXCEPT ![c] = {n \in Agents : Bin[c][n] # << >>}]
  /\ UNCHANGED <<buf, cur, ctx, doneVars, fanin, closeVars, agentVars, flights, landed>>

\* agentBufferFor on a closed cluster buffer: errBufferClosed for the bin.
agentBufferForClosed(c, n) ==
  /\ n \in left[c]
  /\ buf[c] = None
  /\ cbClosed
  /\ left' = [left EXCEPT ![c] = @ \ {n}]
  /\ failItems(InBin(c, n), "closed")
  /\ UNCHANGED <<pc, buf, cur, ctx, fanin, closeVars, agentVars, flights, landed>>

\* agentBufferFor: the buffer of n, created on first use.  The caller keeps the
\* pointer; no lock is held until AgentBuffer.MultiAdd takes mu.
agentBufferFor(c, n) ==
  /\ n \in left[c]
  /\ buf[c] = None
  /\ ~cbClosed
  /\ known' = known \cup {n}
  /\ buf' = [buf EXCEPT ![c] = n]
  /\ UNCHANGED <<pc, left, cur, ctx, doneVars, fanin, cbClosed, closing, closer,
                 agentVars, flights, landed>>

-----------------------------------------------------------------------------
(***************************************************************************)
(* AgentBuffer.                                                            *)
(***************************************************************************)

\* Mutant: the stopped timer is not cleared.
startFlushLocked_keepsTimer(n) ==
  IF pending[n] = << >> THEN UNCHANGED <<timer, flights>>
  ELSE /\ UNCHANGED timer
       /\ flights' = flights \cup {[node |-> n, entries |-> pending[n],
                                    bytes |-> bytes[n], next |-> 1, res |-> NoResult]}

\* Mutant: delivery starts one entry early.
startFlushLocked_fromZero(n) ==
  IF pending[n] = << >> THEN UNCHANGED <<timer, flights>>
  ELSE /\ timer' = [timer EXCEPT ![n] = "nil"]
       /\ flights' = flights \cup {[node |-> n, entries |-> pending[n],
                                    bytes |-> bytes[n], next |-> 0, res |-> NoResult]}

\* Hand what is pending to a flush goroutine; no-op when nothing is pending.
\* The caller says what pending and bytes become.
startFlushLocked(n) ==
  IF pending[n] = << >> THEN UNCHANGED <<timer, flights>>
  ELSE /\ timer' = [timer EXCEPT ![n] = "nil"]
       /\ flights' = flights \cup {[node |-> n, entries |-> pending[n],
                                    bytes |-> bytes[n], next |-> 1, res |-> NoResult]}

\* MultiAdd finds the buffer closed: errBufferClosed for every chunk.
multiAddClosed(c) ==
  /\ buf[c] # None
  /\ mu[buf[c]] = None
  /\ aClosed[buf[c]]
  /\ left' = [left EXCEPT ![c] = @ \ {buf[c]}]
  /\ buf' = [buf EXCEPT ![c] = None]
  /\ failChunks(InBin(c, buf[c]), "closed")
  /\ UNCHANGED <<pc, cur, ctx, closeVars, agentVars, flights, landed>>

\* Mutant: closed is not looked at under mu.
multiAddLock_ignoresClosed(c) ==
  /\ buf[c] # None
  /\ mu[buf[c]] = None
  /\ mu' = [mu EXCEPT ![buf[c]] = c]
  /\ cur' = [cur EXCEPT ![c] = <<1, 1>>]
  /\ UNCHANGED <<pc, left, buf, ctx, doneVars, fanin, closeVars, aClosed, pending,
                 bytes, timer, callbacks, flights, landed>>

\* MultiAdd takes mu.
multiAddLock(c) ==
  /\ buf[c] # None
  /\ mu[buf[c]] = None
  /\ ~aClosed[buf[c]]
  /\ mu' = [mu EXCEPT ![buf[c]] = c]
  /\ cur' = [cur EXCEPT ![c] = <<1, 1>>]
  /\ UNCHANGED <<pc, left, buf, ctx, doneVars, fanin, closeVars, aClosed, pending,
                 bytes, timer, callbacks, flights, landed>>

\* The call's next chunk, and the place after it.
NextItem(c) == Bin[c][buf[c]][cur[c][1]]
Advanced(c) == IF cur[c][2] < Len(Chunks[NextItem(c)])
               THEN <<cur[c][1], cur[c][2] + 1>> ELSE <<cur[c][1] + 1, 1>>

\* Mutant: one byte too late.
overflows_late(n, b) == pending[n] # << >> /\ bytes[n] + b > BatchMaxBytes + 1

\* Adding b bytes to what is pending at n would exceed the cap.
overflows(n, b) == pending[n] # << >> /\ bytes[n] + b > BatchMaxBytes

\* One chunk joins the pending produce, which is flushed first if it would
\* overflow.
addToNextProduceLocked(c) ==
  /\ buf[c] # None
  /\ mu[buf[c]] = c
  /\ cur[c][1] <= Len(Bin[c][buf[c]])
  /\ LET n == buf[c]
         e == <<NextItem(c), cur[c][2]>>
     IN  IF overflows(n, WireBytes(e))
           THEN /\ startFlushLocked(n)
                /\ pending' = [pending EXCEPT ![n] = <<e>>]
                /\ bytes' = [bytes EXCEPT ![n] = WireBytes(e)]
           ELSE /\ pending' = [pending EXCEPT ![n] = Append(@, e)]
                /\ bytes' = [bytes EXCEPT ![n] = @ + WireBytes(e)]
                /\ UNCHANGED <<timer, flights>>
  /\ cur' = [cur EXCEPT ![c] = Advanced(c)]
  /\ UNCHANGED <<pc, left, buf, ctx, doneVars, fanin, closeVars, mu, aClosed,
                 callbacks, landed>>

\* Mutant: mu is not released when the timer is started.
maybeStart_keepsLock(c) ==
  /\ buf[c] # None
  /\ mu[buf[c]] = c
  /\ cur[c][1] > Len(Bin[c][buf[c]])
  /\ timer' = [timer EXCEPT ![buf[c]] =
                 IF pending[buf[c]] # << >> /\ @ = "nil" THEN "running" ELSE @]
  /\ mu' = [mu EXCEPT ![buf[c]] = IF timer[buf[c]] = "nil" THEN @ ELSE None]
  /\ left' = [left EXCEPT ![c] = @ \ {buf[c]}]
  /\ buf' = [buf EXCEPT ![c] = None]
  /\ UNCHANGED <<pc, cur, ctx, doneVars, fanin, closeVars, aClosed, pending, bytes,
                 callbacks, flights, landed>>

\* maybeStartNextFlushTimerLocked, then mu is released and the bin is done.
maybeStartNextFlushTimerLocked(c) ==
  /\ buf[c] # None
  /\ mu[buf[c]] = c
  /\ cur[c][1] > Len(Bin[c][buf[c]])
  /\ timer' = [timer EXCEPT ![buf[c]] =
                 IF pending[buf[c]] # << >> /\ @ = "nil" THEN "running" ELSE @]
  /\ mu' = [mu EXCEPT ![buf[c]] = None]
  /\ left' = [left EXCEPT ![c] = @ \ {buf[c]}]
  /\ buf' = [buf EXCEPT ![c] = None]
  /\ UNCHANGED <<pc, cur, ctx, doneVars, fanin, closeVars, aClosed, pending, bytes,
                 callbacks, flights, landed>>

\* The linger elapses: the timer's callback goroutine starts and will want mu.
\* Stopping the timer from here on has no effect on that callback.
lingerElapses(n) ==
  /\ timer[n] = "running"
  /\ timer' = [timer EXCEPT ![n] = "fired"]
  /\ callbacks' = [callbacks EXCEPT ![n] = @ + 1]
  /\ UNCHANGED <<callVars, ctx, doneVars, fanin, closeVars, mu, aClosed, pending,
                 bytes, flights, landed>>

timerFlush(n) ==
  /\ callbacks[n] > 0
  /\ mu[n] = None
  /\ callbacks' = [callbacks EXCEPT ![n] = @ - 1]
  /\ startFlushLocked(n)
  /\ pending' = [pending EXCEPT ![n] = << >>]
  /\ bytes' = [bytes EXCEPT ![n] = 0]
  /\ UNCHANGED <<callVars, ctx, doneVars, fanin, closeVars, mu, aClosed, landed>>

\* The flush function returns: a response over the partitions of the wire (all
\* of them, or some when the producer does not check coverage), or an error.
flushReturns(f) ==
  /\ f.res.kind = "none"
  /\ \E res \in [kind : {"resp"}, ok : SUBSET WireParts(f.entries),
                 bad : SUBSET WireParts(f.entries)] \cup {ErrResult("err")} :
       /\ res.ok \cap res.bad = {}
       /\ res.kind = "resp" /\ ~MayOmit => res.ok \cup res.bad = WireParts(f.entries)
       /\ flights' = (flights \ {f}) \cup {[f EXCEPT !.res = res]}
       /\ landed' = landed \cup {f.entries[j] : j \in
                       {j \in DOMAIN f.entries : PartOf[f.entries[j][1]] \in res.ok}}
  /\ UNCHANGED <<callVars, ctx, doneVars, fanin, closeVars, agentVars>>

\* The flush goroutine calls the done of its next entry; after the last one it
\* leaves flushWG.
deliver(f) ==
  /\ f.res.kind # "none"
  /\ chunkDone(f.entries[f.next][1], f.res)
  /\ flights' = (flights \ {f}) \cup
       (IF f.next < Len(f.entries) THEN {[f EXCEPT !.next = @ + 1]} ELSE {})
  /\ UNCHANGED <<callVars, ctx, closeVars, agentVars, landed>>

-----------------------------------------------------------------------------
\* The caller's ctx is canceled: every armed watch starts its goroutine.
cancel(c) ==
  /\ c \in Cancelable
  /\ ctx[c] = "live"
  /\ ctx' = [ctx EXCEPT ![c] = "canceled"]
  /\ watch' = [i \in Items |-> IF CallOf[i] = c /\ watch[i] = "armed"
                               THEN "started" ELSE watch[i]]
  /\ UNCHANGED <<callVars, contrib, released, fanin, outcome, fires, closeVars,
                 agentVars, flights, landed>>

\* ClusterBuffer.Close: mark closed and take the map.
Close ==
  /\ closer = "open"
  /\ closer' = "draining"
  /\ cbClosed' = TRUE
  /\ closing' = known
  /\ known' = {}
  /\ UNCHANGED <<callVars, ctx, doneVars, fanin, agentVars, flights, landed>>

\* AgentBuffer.Close of one of them: mark closed and flush what is pending.
closeAgent(n) ==
  /\ closer = "draining"
  /\ n \in closing
  /\ ~aClosed[n]
  /\ mu[n] = None
  /\ aClosed' = [aClosed EXCEPT ![n] = TRUE]
  /\ startFlushLocked(n)
  /\ pending' = [pending EXCEPT ![n] = << >>]
  /\ bytes' = [bytes EXCEPT ![n] = 0]
  /\ UNCHANGED <<callVars, ctx, doneVars, fanin, closeVars, mu, callbacks, landed>>

\* flushWG.Wait of every agent, then wg.Wait: Close returns.
closeReturns ==
  /\ closer = "draining"
  /\ \A n \in closing : aClosed[n] /\ \A f \in flights : f.node # n
  /\ closer' = "closed"
  /\ UNCHANGED <<callVars, ctx, doneVars, fanin, known, cbClosed, closing, agentVars,
                 flights, landed>>

CallStep(c) ==
  \/ rejectCanceled(c) \/ binByAgent(c)
  \/ \E n \in Agents : agentBufferForClosed(c, n) \/ agentBufferFor(c, n)
  \/ multiAddClosed(c) \/ multiAddLock(c)
  \/ addToNextProduceLocked(c) \/ maybeStartNextFlushTimerLocked(c)

Next ==
  \/ \E c \in Calls : wrap(c) \/ CallStep(c) \/ cancel(c)
  \/ \E i \in Items : ctxWatch(i)
  \/ \E n \in Agents : lingerElapses(n) \/ timerFlush(n) \/ closeAgent(n)
  \/ \E f \in flights : flushReturns(f) \/ deliver(f)
  \/ Close \/ closeReturns

Spec == Init /\ [][Next]_vars

-----------------------------------------------------------------------------
TypeOK ==
  /\ pc \in [Calls -> {"idle", "wrapped", "binning"}]
  /\ left \in [Calls -> SUBSET Agents]
  /\ buf \in [Calls -> Agents \cup {None}]
  /\ cur \in [Calls -> (Nat \ {0}) \X (Nat \ {0})]
  /\ ctx \in [Calls -> {"live", "canceled"}]
  /\ watch \in [Items -> {"off", "armed", "started"}]
  /\ contrib \in [Items -> Int]
  /\ released \in [Items -> BOOLEAN]
  /\ fanin \in [Items -> [left : Int, res : Result]]
  /\ outcome \in [Items -> Result]
  /\ fires \in [Items -> Nat]
  /\ known \in SUBSET Agents
  /\ cbClosed \in BOOLEAN
  /\ closing \in SUBSET Agents
  /\ closer \in {"open", "draining", "closed"}
  /\ mu \in [Agents -> Calls \cup {None}]
  /\ aClosed \in [Agents -> BOOLEAN]
  /\ pending \in [Agents -> Seq(Entry)]
  /\ bytes \in [Agents -> Nat]
  /\ timer \in [Agents -> {"nil", "running", "fired"}]
  /\ callbacks \in [Agents -> Nat]
  /\ flights \subseteq Flight
  /\ landed \subseteq Entry

\* A batch that waits in a buffer nobody holds always has something coming that
\* flushes it: a running linger timer, or a callback already on its way to mu.
\* An overflow flush clears the timer in the middle of a MultiAdd and a callback
\* that lost the race may run for a later batch.
NoStrandedBatch ==
  \A n \in Agents : mu[n] = None /\ pending[n] # << >> =>
    timer[n] = "running" \/ callbacks[n] > 0

\* A flush carries more than the cap only when it is one single chunk.
FlushWithinCap ==
  \A f \in flights : f.bytes > BatchMaxBytes => Len(f.entries) = 1

\* Once Close has returned, the buffers are empty and no flush runs: a call that
\* had looked up its buffer before Close cannot slip a batch in afterwards.
CloseDrains ==
  closer = "closed" => flights = {} /\ \A n \in Agents : pending[n] = << >>

\* The buffer implements DeliveryContract: a promise is open from wrap to its
\* first done, and an item is stored when all its chunks are acknowledged.
Contract == INSTANCE DeliveryContract WITH
  phase  <- [i \in Items |->
               IF pc[CallOf[i]] = "idle" THEN "new"
               ELSE IF fires[i] = 0 THEN "open"
               ELSE IF recordErr(outcome[i], PartOf[i]) THEN "failed" ELSE "acked"],
  held   <- {i \in Items : contrib[i] # 0},
  stored <- {i \in Items : \A k \in DOMAIN Chunks[i] : <<i, k>> \in landed}

\* Promises settle once and never change, acknowledgements are true, cancellation
\* frees nothing: every step of the buffer is a step of DeliveryContract.
ImplementsContract == Contract!Spec

\* What startFlushLocked says of the timer it stops: a callback that was already
\* running when its timer was cleared finds the buffer empty.
StaleCallbackFindsNothing ==
  \A n \in Agents :
    mu[n] = None /\ callbacks[n] > (IF timer[n] = "fired" THEN 1 ELSE 0) =>
      pending[n] = << >>
=============================================================================
