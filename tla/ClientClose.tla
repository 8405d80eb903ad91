----------------------------- MODULE ClientClose -----------------------------
(***************************************************************************)
(* WarpstreamClient.Close over the two buffers of the client (client.go,   *)
(* hedger.go, cluster_record_buffer.go).  A flush of the main buffer runs  *)
(* Hedger.ProduceSync, which may hand a leg to the hedge buffer; Close     *)
(* drains the main buffer, then the hedge buffer, then closes the Kafka    *)
(* client.                                                                 *)
(*                                                                         *)
(* The hedge buffer is HedgeLegs, in full.  Of the main buffer only what   *)
(* its Close relies on is kept: a batch accepted before Close is flushed,  *)
(* Close waits for every flush, and nothing is accepted afterwards.  Calls *)
(* are the flushes of the main buffer, each with one leg.                  *)
(***************************************************************************)
EXTENDS HedgeLegs

CONSTANT MaxCloses   \* bound: calls of WarpstreamClient.Close

VARIABLES
  flush,       \* [Calls -> {"none", "running", "late", "done"}]: the main buffer's
               \* flush; "late": it returned, its fallback goroutine has not added yet
  mainClosed,  \* closed, of the main buffer
  stage,       \* "open", "main", "hedger", "closed": how far closeOnce is
  waiting,     \* calls of Close that have not returned
  returned     \* calls of Close that have

clientVars == <<flush, mainClosed, stage, waiting, returned>>
cvars == <<hvars, clientVars>>

CInit ==
  /\ HInit
  /\ flush = [c \in Calls |-> "none"]
  /\ mainClosed = FALSE
  /\ stage = "open"
  /\ waiting = 0
  /\ returned = 0

-----------------------------------------------------------------------------
\* A batch is accepted by the main buffer and flushed: by the linger timer, by
\* the byte cap, or by Close.  A closed buffer refuses it.
startFlush(c) ==
  /\ flush[c] = "none" /\ ~mainClosed
  /\ flush' = [flush EXCEPT ![c] = "running"]
  /\ UNCHANGED <<hvars, mainClosed, stage, waiting, returned>>

\* The hedge buffer's own steps, under the legDone of every leg.
bufferStep ==
  /\ \/ \E c \in Calls : CallStep(c)
     \/ \E i \in Items : ctxWatch(i)
     \/ \E n \in Agents : lingerElapses(n) \/ timerFlush(n) \/ closeAgent(n)
     \/ \E f \in flights : flushReturns(f) \/ deliver(f)
  /\ legRes' = [c \in Calls |-> legDone(c)]
  /\ UNCHANGED clientVars

\* runHedgingAttempt hands the leg over.  The fallback goroutine of a call that
\* already returned with the primary's result may only get there now.
addLeg(c) ==
  /\ flush[c] \in {"running", "late"}
  /\ wrap(c)
  /\ flush' = [flush EXCEPT ![c] = IF @ = "late" THEN "done" ELSE @]
  /\ UNCHANGED <<legRes, mainClosed, stage, waiting, returned>>

\* The write timeout of a running flush passes.
writeTimeout(c) ==
  /\ flush[c] = "running"
  /\ cancel(c)
  /\ legRes' = [d \in Calls |-> legDone(d)]
  /\ UNCHANGED clientVars

\* ProduceSync returns, with the primary's result or with the leg's; the deferred
\* cancelWorkCtx ends the ctx of the leg.
produceReturns(c) ==
  /\ flush[c] = "running"
  /\ IF ctx[c] = "live" THEN cancel(c) ELSE UNCHANGED vars
  /\ legRes' = [d \in Calls |-> legDone(d)]
  /\ flush' \in {[flush EXCEPT ![c] = s] :
                   s \in IF pc[c] = "idle" THEN {"late", "done"} ELSE {"done"}}
  /\ UNCHANGED <<mainClosed, stage, waiting, returned>>

\* Close is called: the first call runs the closure of closeOnce, the others wait
\* in it.  The refresh loop is stopped first (RefreshLoop); then the main buffer
\* is marked closed.
callClose ==
  /\ waiting + returned < MaxCloses
  /\ waiting' = waiting + 1
  /\ IF stage = "open" THEN stage' = "main" /\ mainClosed' = TRUE
                       ELSE UNCHANGED <<stage, mainClosed>>
  /\ UNCHANGED <<hvars, flush, returned>>

\* Mutant: the hedge buffer is closed without waiting for the main one.
closeHedger_early ==
  /\ stage = "main"
  /\ stage' = "hedger"
  /\ Close
  /\ UNCHANGED <<legRes, flush, mainClosed, waiting, returned>>

\* buffer.Close has waited for its flushes; hedger.Close begins.
closeHedger ==
  /\ stage = "main"
  /\ \A c \in Calls : flush[c] # "running"
  /\ stage' = "hedger"
  /\ Close
  /\ UNCHANGED <<legRes, flush, mainClosed, waiting, returned>>

\* hedger.Close returns, then kgo's Client.Close, and with it the closure.
clientClosed ==
  /\ stage = "hedger"
  /\ stage' = "closed"
  /\ closeReturns
  /\ UNCHANGED <<legRes, flush, mainClosed, waiting, returned>>

\* Mutant: like ClusterBuffer.Close, a second Close returns at once.
closeDone_early ==
  /\ waiting > 0
  /\ stage = "closed" \/ waiting > 1
  /\ waiting' = waiting - 1
  /\ returned' = returned + 1
  /\ UNCHANGED <<hvars, flush, mainClosed, stage>>

\* A call of Close returns, the one that ran the closure or one that waited.
closeDone ==
  /\ waiting > 0
  /\ stage = "closed"
  /\ waiting' = waiting - 1
  /\ returned' = returned + 1
  /\ UNCHANGED <<hvars, flush, mainClosed, stage>>

CNext ==
  \/ bufferStep
  \/ \E c \in Calls : startFlush(c) \/ addLeg(c) \/ writeTimeout(c) \/ produceReturns(c)
  \/ callClose \/ closeDone \/ closeHedger \/ clientClosed

CSpec == CInit /\ [][CNext]_cvars

\* What goes on without the callers: goroutines are scheduled, timers fire, flushes
\* and ProduceSync return because every attempt has a deadline.
progress ==
  \/ bufferStep \/ \E c \in Calls : produceReturns(c)
  \/ closeHedger \/ clientClosed \/ closeDone

\* Something of it happens as long as something can.  No goroutine can starve
\* another, since each takes finitely many steps.
CFairSpec == CSpec /\ WF_cvars(progress)

-----------------------------------------------------------------------------
\* A flush that is still running is never refused a leg because the client is
\* closing: the hedge buffer stays open until the main one has drained, so only
\* the stray leg of a call that has returned meets errBufferClosed.
RunningKeepsHedging ==
  \A c \in Calls : flush[c] = "running" => legRes[c].kind # "closed"

\* When any call of Close has returned, also one that found another under way,
\* no flush of either buffer runs and nothing is left in the hedge buffer.
ClosedIsQuiet ==
  returned > 0 =>
    /\ flights = {} /\ \A n \in Agents : pending[n] = << >>
    /\ \A c \in Calls : flush[c] # "running"

\* A call of Close is waiting, or a leg was handed over and is unanswered.
Unsettled ==
  \/ waiting > 0
  \/ \E i \in Items : pc[CallOf[i]] # "idle" /\ fires[i] = 0

\* Every call of Close returns and every promise of a leg resolves, whatever the
\* flushes return, whenever flushes end and whenever Close is called (both happen
\* finitely often, so that one settled moment after each is as much).
ClientSettles == Unsettled ~> ~Unsettled
=============================================================================
