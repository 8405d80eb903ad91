----------------------------- MODULE ScenarioRun -----------------------------
(***************************************************************************)
(* One run of a simulation scenario (simulation/runner: environment.go,    *)
(* scenario_runner.go, external_observations.go, sampler.go): the          *)
(* environment is built, warmed up, observed while the phases play, judged *)
(* complete or not, and taken down.                                        *)
(*                                                                         *)
(* The workload is in-process (a client library; its events are produced   *)
(* with callbacks) or external (a Mimir process behind BrokerProxy, whose  *)
(* own requests are observed).  The clock stands still until the observed  *)
(* phase begins.                                                           *)
(***************************************************************************)
EXTENDS BrokerProxy

CONSTANTS
  Cases,         \* set of <<workload, script, requests on a connection>>
  Events,        \* scenario events
  EventAt,       \* [Events -> Nat]: at
  Records,       \* records, and so callbacks, of an event
  AppTimeout,    \* appRequestTimeout
  Duration,      \* sc.duration()
  RecoveryFrom,  \* sc.expect.recoveryFrom
  Seed           \* node of the address the client is given

\* A scenario's recovery starts long enough after its last phase for everything
\* answered before to have been written: 20s there, against latencies of at most 6s.
ASSUME RecoveryAssumption ==
  /\ Cases \subseteq {"inprocess", "external"} \X Scripts \X RequestSeqs
  /\ Records \in Nat /\ RecoveryFrom \in Nat
  /\ \A s \in Scripts : \A i \in DOMAIN s : \A d \in Delays :
       RecoveryFrom > s[i].at + served(d)

Resources == <<"wgoCluster", "wgoNetwork", "wgoClient", "kgoCluster", "kgoNetwork", "kgoClient">>
Clients == {"wgoClient", "kgoClient"}

VARIABLES
  workload,    \* "inprocess" or "external": which factory
  pc,          \* runScenario
  open,        \* what newScenarioEnvironment has created and nobody has closed
  runCtx,      \* "live", "canceled"
  ev,          \* [Events -> {"wait", "fired", "recorded", "done", "skipped"}]
  issued,      \* [Events -> Nat]
  callbacks,   \* [Events -> Nat]: callbacks to come
  firstErr,    \* [Events -> BOOLEAN]
  obs,         \* [Events -> Seq({"ok", "err", "deadline"})]: the observations
  sampler,     \* "off", "run", "done": the sampler's goroutine
  sampling,    \* its ctx is live
  observedErr, \* external.Observe failed
  result       \* "none", "ok", "failed"

eventVars == <<ev, issued, callbacks, firstErr, obs>>
sampleVars == <<sampler, sampling>>
runVars == <<workload, pc, open, runCtx, eventVars, sampleVars, observedErr, result>>
vars == <<netVars, proxyVars, runVars>>

Init ==
  /\ NetInit /\ ProxyInit
  /\ workload \in {"inprocess", "external"}
  /\ \A c \in Conns : <<workload, script, requests[c]>> \in Cases
  /\ pc = "build"
  /\ open = {}
  /\ runCtx = "live"
  /\ ev = [e \in Events |-> "wait"]
  /\ issued = [e \in Events |-> 0]
  /\ callbacks = [e \in Events |-> 0]
  /\ firstErr = [e \in Events |-> FALSE]
  /\ obs = [e \in Events |-> << >>]
  /\ sampler = "off"
  /\ sampling = FALSE
  /\ observedErr = FALSE
  /\ result = "none"

-----------------------------------------------------------------------------
(***************************************************************************)
(* newScenarioEnvironment and the warmup.                                  *)
(***************************************************************************)
\* The next part is created, in order; the proxy of an external workload gets a
\* listener for the seed address.
build ==
  LET r == Resources[Cardinality(open) + 1] IN
  /\ pc = "build" /\ Cardinality(open) < Len(Resources)
  /\ open' = open \cup {r}
  /\ pc' = IF Cardinality(open) + 1 = Len(Resources) THEN "warmup" ELSE pc
  /\ listeners' = IF r = "wgoClient" /\ workload = "external" THEN {<<Seed, 0>>} ELSE listeners
  /\ UNCHANGED <<netVars, requests, proxyClosed, dials, fwd, client, streamVars, copier, pathVars, recoveryStart,
                 recovered, workload, runCtx, eventVars, sampleVars, observedErr, result>>

\* Creation or the warmup fails: the deferred teardown or env.Close follows.
setupFails ==
  /\ pc \in {"build", "warmup"}
  /\ pc' = "cleanup"
  /\ result' = "failed"
  /\ UNCHANGED <<netVars, proxyVars, workload, open, runCtx, eventVars, sampleVars, observedErr>>

\* The observed phase begins: sampler, recoveryStart, phases.
startObserving ==
  /\ pc = "warmup" /\ runCtx = "live"
  /\ pc' = "observe"
  /\ sampler' = "run" /\ sampling' = TRUE
  /\ recoveryStart' = RecoveryFrom
  /\ startPhases
  /\ UNCHANGED <<now, faultVars, connVars, viewVars, requests, proxyClosed, listeners, dials, fwd, client,
                 streamVars, copier, pathVars, recovered, workload, open, runCtx, eventVars,
                 observedErr, result>>

\* The budget of the run or the parent ctx ends it; phaseCtx is a child.
cancelRun ==
  /\ runCtx = "live" /\ pc \notin {"build", "cleanup", "clients", "networks", "end"}
  /\ runCtx' = "canceled"
  /\ stopped' = TRUE
  /\ UNCHANGED <<now, faultVars, connVars, viewVars, script, phase, todo, phasePc, proxyVars,
                 workload, pc, open, eventVars, sampleVars, observedErr, result>>

\* A step of the phase goroutine; when it fails it cancels the run.
phases ==
  /\ phaseStep
  /\ runCtx' = IF phasePc' = "err" THEN "canceled" ELSE runCtx
  /\ UNCHANGED <<proxyVars, workload, pc, open, eventVars, sampleVars, observedErr, result>>

-----------------------------------------------------------------------------
(***************************************************************************)
(* runScenarioEvent, one goroutine per event.                              *)
(***************************************************************************)
inObserve == pc = "observe" /\ workload = "inprocess"
eventCtxDone(e) == runCtx = "canceled" \/ now >= issued[e] + AppTimeout
restOfEvents == <<netVars, proxyVars, workload, pc, open, runCtx, sampleVars, observedErr, result>>

fire(e) ==
  /\ inObserve /\ ev[e] = "wait" /\ now >= EventAt[e]
  /\ ev' = [ev EXCEPT ![e] = "fired"]
  /\ issued' = [issued EXCEPT ![e] = now]
  /\ callbacks' = [callbacks EXCEPT ![e] = Records]
  /\ UNCHANGED <<firstErr, obs, restOfEvents>>

\* The run is canceled before the event's time: nothing is recorded.
skip(e) ==
  /\ inObserve /\ ev[e] = "wait" /\ runCtx = "canceled"
  /\ ev' = [ev EXCEPT ![e] = "skipped"]
  /\ UNCHANGED <<issued, callbacks, firstErr, obs, restOfEvents>>

\* A record's callback, with or without an error.
callback(e) ==
  /\ callbacks[e] > 0
  /\ callbacks' = [callbacks EXCEPT ![e] = @ - 1]
  /\ firstErr' \in {[firstErr EXCEPT ![e] = @ \/ x] : x \in BOOLEAN}
  /\ UNCHANGED <<ev, issued, obs, restOfEvents>>

\* The select: all callbacks came, or the event's ctx ended.
record(e) ==
  /\ ev[e] = "fired"
  /\ callbacks[e] = 0 \/ eventCtxDone(e)
  /\ ev' = [ev EXCEPT ![e] = "recorded"]
  /\ obs' = [obs EXCEPT ![e] = Append(@, IF eventCtxDone(e) THEN "deadline"
                                         ELSE IF firstErr[e] THEN "err" ELSE "ok")]
  /\ UNCHANGED <<issued, callbacks, firstErr, restOfEvents>>

\* Mutant: callbacks that outlive the deadline are not waited for.
eventReturns_undrained(e) ==
  /\ ev[e] = "recorded"
  /\ ev' = [ev EXCEPT ![e] = "done"]
  /\ UNCHANGED <<issued, callbacks, firstErr, obs, restOfEvents>>

\* <-done: every callback has come.
eventReturns(e) ==
  /\ ev[e] = "recorded" /\ callbacks[e] = 0
  /\ ev' = [ev EXCEPT ![e] = "done"]
  /\ UNCHANGED <<issued, callbacks, firstErr, obs, restOfEvents>>

-----------------------------------------------------------------------------
(***************************************************************************)
(* The sampler reads the client's counters at every bucket boundary, until *)
(* it finds its ctx ended.                                                 *)
(***************************************************************************)
samplerEnds ==
  /\ sampler = "run" /\ ~sampling
  /\ sampler' = "done"
  /\ UNCHANGED <<netVars, proxyVars, workload, pc, open, runCtx, eventVars, sampling,
                 observedErr, result>>

-----------------------------------------------------------------------------
(***************************************************************************)
(* The end of the observed phase, the verdict, and env.Close.              *)
(***************************************************************************)
observed ==
  IF workload = "inprocess" THEN \A e \in Events : ev[e] \in {"done", "skipped"}
  ELSE now >= Duration \/ runCtx = "canceled"

\* observeWorkloads returns, and stopPhases is called.  An external workload may
\* report an error, and does when its ctx ended.
observeReturns ==
  /\ pc = "observe" /\ observed
  /\ pc' = "join"
  /\ observedErr' \in IF workload = "inprocess" THEN {FALSE}
                      ELSE IF now < Duration THEN {TRUE} ELSE BOOLEAN
  /\ stopped' = TRUE
  /\ UNCHANGED <<now, faultVars, connVars, viewVars, script, phase, todo, phasePc, proxyVars,
                 workload, open, runCtx, eventVars, sampleVars, result>>

\* Mutant: phases that fail do not report.
joinPhases_okOnly ==
  /\ pc = "join" /\ phasePc = "ok"
  /\ LET bad == phasePc = "err" \/ observedErr
     IN  /\ pc' = IF bad THEN "cleanup" ELSE "sampler"
         /\ result' = IF bad THEN "failed" ELSE result
  /\ sampling' = FALSE
  /\ UNCHANGED <<netVars, proxyVars, workload, open, runCtx, eventVars, sampler, observedErr>>

\* <-phaseDone, then the errors of the phases and of the observation; stop asks
\* the sampler to end.
joinPhases ==
  /\ pc = "join" /\ phasePc \in {"ok", "err"}
  /\ LET bad == phasePc = "err" \/ observedErr
     IN  /\ pc' = IF bad THEN "cleanup" ELSE "sampler"
         /\ result' = IF bad THEN "failed" ELSE result
  /\ sampling' = FALSE
  /\ UNCHANGED <<netVars, proxyVars, workload, open, runCtx, eventVars, sampler, observedErr>>

\* Mutant: the run's ctx is not looked at.
complete_unchecked == TRUE

complete == runCtx = "live"

\* sampler.stop returns; a canceled run and an invalid workload are failures.
judge ==
  /\ pc = "sampler" /\ sampler = "done"
  /\ pc' = "cleanup"
  /\ result' \in IF complete THEN {"ok", "failed"} ELSE {"failed"}
  /\ UNCHANGED <<netVars, proxyVars, workload, open, runCtx, eventVars, sampleVars, observedErr>>

\* The deferred calls: sampler.stop, cancel, and env.Close, which closes the
\* clients first.  Those of an external workload end the process, whose sockets
\* go with it, then close the proxy.
closeClients ==
  /\ pc = "cleanup" /\ sampler \in {"off", "done"}
  /\ pc' = "clients"
  /\ runCtx' = "canceled"
  /\ closeProxy
  /\ UNCHANGED <<workload, open, eventVars, sampleVars, observedErr, result>>

closeNetworks ==
  /\ pc = "clients" /\ proxyDrained
  /\ pc' = "networks"
  /\ open' = open \ Clients
  /\ closeNetwork
  /\ UNCHANGED <<now, faultVars, viewVars, phaseVars, proxyVars, workload, runCtx, eventVars,
                 sampleVars, observedErr, result>>

closeClusters ==
  /\ pc = "networks" /\ doomed = {}
  /\ pc' = "end"
  /\ open' = {}
  /\ listening' = {}
  /\ UNCHANGED <<now, fault, restored, brokers, connVars, viewVars, phaseVars, proxyVars,
                 workload, runCtx, eventVars, sampleVars, observedErr, result>>

-----------------------------------------------------------------------------
\* Steps of the process under test; it is there from its creation to its close.
clientStep(c) ==
  /\ "wgoClient" \in open
  /\ (\E a \in listeners : accept(c, a)) \/ copyRequest(c) \/ hangUp(c)
  /\ UNCHANGED runVars

proxyStep(c) == connStep(c) /\ UNCHANGED runVars

drain(c) ==
  /\ closeDoomed(c)
  /\ UNCHANGED <<now, faultVars, viewVars, phaseVars, proxyVars, runVars>>

\* Time passes while nothing on the answer path is ready and no phase is due:
\* their steps take no time against the latencies and the phases' spacing.
phaseDue ==
  /\ phasePc = "run"
  /\ \/ todo # << >>
     \/ phase < Len(script) /\ now >= script[phase + 1].at

tick ==
  /\ pc \notin {"build", "warmup", "end"} /\ now < MaxTime
  /\ ~phaseDue /\ \A c \in Conns : ~busy(c)
  /\ now' = now + 1
  /\ UNCHANGED <<faultVars, connVars, viewVars, phaseVars, proxyVars, runVars>>

\* The goroutine of runScenario.
run ==
  \/ build \/ setupFails \/ startObserving \/ observeReturns \/ joinPhases \/ judge
  \/ closeClients \/ closeNetworks \/ closeClusters

runScenarioEvent(e) == fire(e) \/ skip(e) \/ record(e) \/ eventReturns(e)

\* What goroutines, the brokers and time do by themselves.
progress ==
  \/ run \/ phases \/ samplerEnds \/ tick
  \/ \E e \in Events : runScenarioEvent(e) \/ callback(e)
  \/ \E c \in Conns : proxyStep(c) \/ drain(c)

Next == progress \/ cancelRun \/ \E c \in Conns : clientStep(c)

Spec == Init /\ [][Next]_vars

\* Nobody waits while something can step: goroutines are scheduled, time passes,
\* the clients resolve every callback.  The client need not send anything.  (The
\* sampler does not look at its ctx while it is behind: that it ends takes reads
\* shorter than a bucket.)
FairSpec == Spec /\ WF_vars(progress)

-----------------------------------------------------------------------------
\* A run that reports a result observed everything it set out to: each event has
\* exactly one observation, every phase was applied in full, and neither its
\* budget nor its parent cut it short ("fail loudly instead").
ResultIsComplete ==
  result = "ok" =>
    /\ workload = "inprocess" => \A e \in Events : Len(obs[e]) = 1
    /\ phase = Len(script) /\ todo = << >>

\* Nothing uses the environment once it is being closed: every callback has come
\* ("drain every callback before returning"), the phases and the sampler are
\* over.
EnvOutlivesUsers ==
  pc \in {"clients", "networks", "end"} =>
    /\ \A e \in Events : callbacks[e] = 0 /\ ev[e] # "fired"
    /\ phasePc # "run"
    /\ sampler # "run"

\* Every run ends, whatever fails or is canceled and however far its setup came,
\* and leaves nothing behind: no part of the environment, no connection, no
\* goroutine of the proxy.
RunEnds ==
  <>[](pc = "end" /\ open = {} /\ proxyDrained /\ \A c \in Conns : conn[c] = "none")
=============================================================================
