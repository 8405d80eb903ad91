-------------------------- MODULE ScenarioRunProofs --------------------------
(***************************************************************************)
(* Proofs about the faulty network, its metadata view and the run that     *)
(* drives them (TransportNetwork, ScenarioRun): what is cut stays cut, the *)
(* assignments converge, a result is complete and the environment outlives *)
(* what uses it, for any brokers, partitions, connections, scripts, events *)
(* and delays.  And about the proxy of these runs (BrokerProxy): answers   *)
(* in order and on time, for any number of requests and latencies.         *)
(*                                                                         *)
(* Four inductive invariants, each about variables of its own: PhaseInv    *)
(* (how far the script is), CutInv (connections and faults), ViewInv       *)
(* (assignments and what was published of them), RunInv (the goroutine of  *)
(* runScenario and those it waits for).                                    *)
(***************************************************************************)
EXTENDS ScenarioRun, TLAPS

\* The script's phases are applied in order, one at a time, and phases that
\* returned without an error have all been applied.
PhaseInv ==
  /\ script \in Scripts
  /\ phase \in 0..Len(script)
  /\ todo # << >> => phase > 0
  /\ phasePc \in {"off", "run", "ok", "err"}
  /\ phasePc = "ok" => phase = Len(script) /\ todo = << >>

\* A connection that is not refused is to a broker of the network, only one that
\* was admitted can have lost bytes, and CutStaysCut.
CutInv ==
  /\ conn \in [Conns -> {"none", "dialing", "dialed", "open", "closed"}]
  /\ DOMAIN addr = Conns
  /\ fault \in [Nodes -> {"healthy", "killed", "blackhole"}]
  /\ \A a \in brokers : a[1] \in Nodes
  /\ \A c \in Conns : conn[c] \in {"dialing", "dialed", "open"} => node(c) \in Nodes
  /\ \A c \in Conns : c \in holed => conn[c] \in {"open", "closed"}
  /\ CutStaysCut

\* No published epoch is ahead of the partition's, the partition's own is only
\* published with its leader, and AssignmentsConverge.
ViewInv ==
  /\ DOMAIN leader = Parts
  /\ epoch \in [Parts -> Nat]
  /\ \A x \in published :
       /\ x[1] \in Parts /\ x[2] \in Nat
       /\ x[2] <= epoch[x[1]]
       /\ x[2] = epoch[x[1]] => x[3] = leader[x[1]]
  /\ AssignmentsConverge

\* Where runScenario is says who still runs: events only while it observes, the
\* phases until it has joined them; an event has one observation from record on,
\* and is skipped only by a canceled run.
Late == {"cleanup", "clients", "networks", "end"}
RunInv ==
  /\ pc \in {"build", "warmup", "observe", "join", "sampler"} \cup Late
  /\ ev \in [Events -> {"wait", "fired", "recorded", "done", "skipped"}]
  /\ callbacks \in [Events -> Nat]
  /\ obs \in [Events -> Seq({"ok", "err", "deadline"})]
  /\ pc \in {"build", "warmup"} => phasePc = "off" /\ sampler = "off"
  /\ pc = "sampler" => phasePc = "ok"
  /\ pc \in Late => phasePc # "run"
  /\ pc \in {"clients", "networks", "end"} => sampler # "run"
  /\ pc # "observe" => \A e \in Events : ev[e] \notin {"fired", "recorded"}
  /\ workload = "inprocess" /\ pc \in {"join", "sampler"} =>
       \A e \in Events : ev[e] \in {"done", "skipped"}
  /\ \A e \in Events :
       /\ callbacks[e] > 0 => ev[e] \in {"fired", "recorded"}
       /\ ev[e] = "skipped" => runCtx = "canceled"
       /\ Len(obs[e]) = IF ev[e] \in {"recorded", "done"} THEN 1 ELSE 0
  /\ pc \in {"build", "warmup"} => result = "none" /\ \A e \in Events : ev[e] = "wait"
  /\ workload = "external" => \A e \in Events : ev[e] = "wait"
  /\ workload \in {"inprocess", "external"}
  /\ runCtx \in {"live", "canceled"}
  /\ result = "ok" =>
       /\ pc \in Late /\ phasePc = "ok"
       /\ workload = "inprocess" => \A e \in Events : ev[e] = "done"

IInv == PhaseInv /\ CutInv /\ ViewInv /\ RunInv

-----------------------------------------------------------------------------
(***************************************************************************)
(* How far the script is.                                                  *)
(***************************************************************************)
\* The steps of a run by what they do to the phases: startObserving starts them,
\* phaseStep takes them further, cancelRun and observeReturns only stop them and
\* nothing else touches them.
LEMMA PhaseFrame ==
  ASSUME Next
  PROVE  \/ startObserving
         \/ phases
         \/ UNCHANGED <<script, phase, todo, phasePc>>
<1>1. CASE run
  BY <1>1, Zenon DEF run, build, setupFails, observeReturns, joinPhases, judge, closeClients, closeProxy,
     closeNetworks, closeClusters, netVars, phaseVars
<1>2. CASE phases
  BY <1>2, Zenon
<1>3. CASE samplerEnds \/ tick \/ cancelRun
  BY <1>3, Zenon DEF samplerEnds, tick, cancelRun, netVars, phaseVars
<1>4. CASE \E e \in Events : runScenarioEvent(e) \/ callback(e)
  BY <1>4, Zenon DEF runScenarioEvent, fire, skip, record, eventReturns, callback, restOfEvents, netVars,
     phaseVars
<1>5. CASE \E c \in Conns : proxyStep(c)
  <2>1. PICK c \in Conns : connStep(c)
    BY <1>5, Zenon DEF proxyStep
  <2>2. CASE dial(c) \/ adopt(c) \/ copierEnds(c) \/ answerDropped(c)
    BY <2>2, Zenon DEF dial, adopt, copierEnds, answerDropped, phaseVars
  <2>3. CASE readAnswer(c) \/ readerFreed(c) \/ readerEnds(c) \/ takeResponse(c) \/ writeResponse(c)
    BY <2>3, Zenon DEF readAnswer, readerFreed, readerEnds, takeResponse, writeResponse, netVars, phaseVars
  <2>4. CASE forwardEnds(c) \/ forwardReturns(c)
    BY <2>4, Zenon DEF forwardEnds, forwardReturns, phaseVars
  <2> QED
    BY <2>1, <2>2, <2>3, <2>4, Zenon DEF connStep
<1>6. CASE \E c \in Conns : drain(c) \/ clientStep(c)
  BY <1>6, Zenon DEF drain, clientStep, accept, copyRequest, hangUp, netVars, phaseVars
<1> QED
  BY <1>1, <1>2, <1>3, <1>4, <1>5, <1>6, Zenon DEF Next, progress

\* PhaseInv is inductive: a phase begins only when the one before is done, and
\* the goroutine ends without an error only after the last.
LEMMA PhaseStep ==
  ASSUME PhaseInv, [Next]_vars
  PROVE  PhaseInv'
<1>1. CASE UNCHANGED <<script, phase, todo, phasePc>>
  BY <1>1, Zenon DEF PhaseInv
<1>2. CASE startObserving
  BY <1>2, Zenon DEF PhaseInv, startObserving, startPhases
<1>s. script \in Seq([at : Nat, node : Nodes, action : Actions])
  BY NetworkAssumption, Zenon DEF PhaseInv
<1>3. CASE phases
  <2>1. CASE beginPhase
    BY <1>s, <2>1 DEF PhaseInv, beginPhase
  <2>2. CASE phasesEnd
    BY <1>s, <2>2, Zenon DEF PhaseInv, phasesEnd
  <2>3. CASE applyOp
    <3>1. /\ phasePc = "run" /\ phasePc' \in {"run", "err"}
          /\ todo # << >> /\ UNCHANGED <<script, phase>>
      BY <2>3, Zenon DEF applyOp
    <3> QED
      BY <3>1, Zenon DEF PhaseInv
  <2> QED
    BY <1>3, <2>1, <2>2, <2>3, Zenon DEF phases, phaseStep
<1>4. CASE UNCHANGED vars
  BY <1>4, <1>1, Zenon DEF vars, netVars, phaseVars
<1> QED
  BY <1>1, <1>2, <1>3, <1>4, PhaseFrame, Zenon

\* The broker a call of applyTransportPhase is about is one of the network's.
LEMMA PhaseNode ==
  ASSUME PhaseInv, todo # << >>
  PROVE  script[phase].node \in Nodes
<1> DEFINE Phase == [at : Nat, node : Nodes, action : Actions]
<1>1. script \in Seq(Phase)
  BY NetworkAssumption, Zenon DEF PhaseInv
<1>2. phase \in 1..Len(script)
  BY <1>1 DEF PhaseInv
<1>3. script[phase] \in Phase
  <2> HIDE DEF Phase
  <2> QED
    BY <1>1, <1>2
<1> QED
  BY <1>3, Zenon

-----------------------------------------------------------------------------
(***************************************************************************)
(* Connections and faults.                                                 *)
(***************************************************************************)
\* CutInv is about these variables only.
LEMMA CutQuiet ==
  ASSUME CutInv, UNCHANGED <<conn, addr, holed, doomed, netClosed, fault, brokers>>
  PROVE  CutInv'
BY Zenon DEF CutInv, CutStaysCut, node, dropped

\* Closing connections keeps CutInv: a closed one leaves doomed, and is not open.
LEMMA CutClose ==
  ASSUME CutInv, NEW S, closeConns(S), UNCHANGED <<addr, holed, netClosed, fault, brokers>>
  PROVE  CutInv'
BY Zenon DEF CutInv, CutStaysCut, node, dropped, closeConns

\* DialContext keeps CutInv: what it admits is neither killed nor closed, for the
\* second check is made under the lock that publishes the connection.
LEMMA CutDial ==
  ASSUME CutInv, NEW c \in Conns,
         (\E a \in listeners : accept(c, a)) \/ dial(c)
  PROVE  CutInv'
<1>1. ASSUME NEW a \in listeners, accept(c, a) PROVE CutInv'
  BY <1>1, Zenon DEF CutInv, CutStaysCut, node, dropped, accept, dialCheck, refused, faultVars
<1>2. CASE fwd[c] = "dial" /\ rawDial(c) /\ UNCHANGED faultVars
  BY <1>2, Zenon DEF CutInv, CutStaysCut, node, dropped, rawDial, faultVars
<1>3. CASE fwd[c] = "dial" /\ admit(c) /\ UNCHANGED faultVars
  BY <1>3, Zenon DEF CutInv, CutStaysCut, node, dropped, admit, faultVars
<1> QED
  BY <1>1, <1>2, <1>3, Zenon DEF dial

\* Swallowed bytes mark a connection while its broker is blackholed.
LEMMA CutDrop ==
  ASSUME CutInv, NEW c \in Conns, copyRequest(c) \/ answerDropped(c)
  PROVE  CutInv'
<1>1. /\ conn[c] = "open"
      /\ holed' = holed \/ (dropped(c) /\ holed' = holed \cup {c})
      /\ UNCHANGED <<conn, addr, doomed, netClosed, fault, brokers>>
  BY Zenon DEF copyRequest, answerDropped, faultVars
<1> QED
  BY <1>1, Zenon DEF CutInv, CutStaysCut, node, dropped

\* forward's return frees a slot.
LEMMA CutReturn ==
  ASSUME CutInv, NEW c \in Conns, forwardReturns(c)
  PROVE  CutInv'
BY Zenon DEF CutInv, CutStaysCut, node, dropped, forwardReturns, faultVars

\* setFault takes every open connection of a killed broker, and of one whose
\* blackhole heals, to be closed.
LEMMA CutFault ==
  ASSUME CutInv, NEW n \in Nodes, NEW f \in {"killed", "blackhole", "healthy"}, setFault(n, f),
         UNCHANGED brokers
  PROVE  CutInv'
BY Zenon DEF CutInv, CutStaysCut, node, dropped, setFault, cut

\* A phase's steps keep CutInv.
LEMMA CutPhase ==
  ASSUME PhaseInv, CutInv, phaseStep
  PROVE  CutInv'
<1>1. CASE beginPhase \/ phasesEnd
  BY <1>1, CutQuiet, Zenon DEF beginPhase, phasesEnd, connVars, faultVars
<1>2. CASE applyOp
  <2> DEFINE n == script[phase].node
             op == Head(todo)
  <2>0. n \in Nodes
    BY <1>2, PhaseNode, Zenon DEF applyOp
  <2>1. CASE op \in {"killed", "blackhole", "healthy"} /\ setFault(n, op) /\ UNCHANGED brokers
    BY <2>0, <2>1, CutFault, Zenon
  <2>2. CASE op = "register" /\ brokers' = brokers \cup {newAddr(n)} /\ UNCHANGED <<fault, connVars>>
    <3>1. newAddr(n)[1] = n
      BY Zenon DEF newAddr
    <3> QED
      BY <2>0, <2>2, <3>1, Zenon DEF CutInv, CutStaysCut, node, dropped, connVars
  <2>3. CASE UNCHANGED <<fault, brokers, connVars>>
    BY <2>3, CutQuiet, Zenon DEF connVars
  <2> QED
    BY <1>2, <2>1, <2>2, <2>3, Zenon DEF applyOp, faultVars, connVars
<1> QED
  BY <1>1, <1>2, Zenon DEF phaseStep

\* CutInv is inductive.
LEMMA CutStep ==
  ASSUME PhaseInv, CutInv, [Next]_vars
  PROVE  CutInv'
<1>1. CASE build \/ setupFails \/ startObserving \/ observeReturns \/ joinPhases \/ judge
  BY <1>1, CutQuiet, Zenon DEF build, setupFails, startObserving, observeReturns, joinPhases, judge,
     netVars, faultVars, connVars
<1>2. CASE closeClients
  BY <1>2, CutClose, Zenon DEF closeClients, closeProxy, faultVars
<1>3. CASE closeNetworks
  BY <1>3, Zenon DEF closeNetworks, closeNetwork, faultVars, CutInv, CutStaysCut, node, dropped
<1>4. CASE closeClusters \/ samplerEnds \/ tick \/ cancelRun
  BY <1>4, CutQuiet, Zenon DEF closeClusters, samplerEnds, tick, cancelRun, netVars, faultVars, connVars
<1>5. CASE phases
  BY <1>5, CutPhase, Zenon DEF phases
<1>6. CASE \E e \in Events : runScenarioEvent(e) \/ callback(e)
  BY <1>6, CutQuiet, Zenon DEF runScenarioEvent, fire, skip, record, eventReturns, callback, restOfEvents,
     netVars, faultVars, connVars
<1>7. ASSUME NEW c \in Conns, proxyStep(c) PROVE CutInv'
  <2>1. CASE dial(c)
    BY <2>1, CutDial, Zenon
  <2>2. CASE adopt(c)
    <3>1. UNCHANGED <<conn, doomed>> \/ closeConns({c})
      BY <2>2, Zenon DEF adopt
    <3>2. UNCHANGED <<addr, holed, netClosed, fault, brokers>>
      BY <2>2, Zenon DEF adopt, faultVars
    <3> QED
      BY <3>1, <3>2, CutQuiet, CutClose, Zenon
  <2>3. CASE copierEnds(c) \/ forwardEnds(c)
    BY <2>3, CutClose, Zenon DEF copierEnds, forwardEnds, faultVars
  <2>4. CASE answerDropped(c)
    BY <2>4, CutDrop, Zenon
  <2>5. CASE readAnswer(c) \/ readerFreed(c) \/ readerEnds(c) \/ takeResponse(c) \/ writeResponse(c)
    BY <2>5, CutQuiet, Zenon DEF readAnswer, readerFreed, readerEnds, takeResponse, writeResponse, netVars,
       connVars, faultVars
  <2>6. CASE forwardReturns(c)
    BY <2>6, CutReturn, Zenon
  <2> QED
    BY <1>7, <2>1, <2>2, <2>3, <2>4, <2>5, <2>6, Zenon DEF proxyStep, connStep
<1>8. ASSUME NEW c \in Conns, drain(c) PROVE CutInv'
  BY <1>8, CutClose, Zenon DEF drain, closeDoomed, faultVars
<1>9. ASSUME NEW c \in Conns, clientStep(c) PROVE CutInv'
  BY <1>9, CutDial, CutDrop, CutQuiet, Zenon DEF clientStep, hangUp, netVars, connVars, faultVars
<1>10. CASE UNCHANGED vars
  BY <1>10, CutQuiet, Zenon DEF vars, netVars, connVars, faultVars
<1> QED
  BY <1>1, <1>2, <1>3, <1>4, <1>5, <1>6, <1>7, <1>8, <1>9, <1>10, Zenon DEF Next, progress, run

-----------------------------------------------------------------------------
(***************************************************************************)
(* The metadata view.                                                      *)
(***************************************************************************)
\* Only the phases publish views.
LEMMA ViewFrame ==
  ASSUME [Next]_vars
  PROVE  phases \/ UNCHANGED viewVars
<1>1. CASE run
  BY <1>1, Zenon DEF run, build, setupFails, startObserving, observeReturns, joinPhases, judge,
     closeClients, closeProxy, closeNetworks, closeClusters, netVars
<1>2. CASE samplerEnds \/ tick \/ cancelRun
  BY <1>2, Zenon DEF samplerEnds, tick, cancelRun, netVars
<1>3. CASE \E e \in Events : runScenarioEvent(e) \/ callback(e)
  BY <1>3, Zenon DEF runScenarioEvent, fire, skip, record, eventReturns, callback, restOfEvents, netVars
<1>4. ASSUME NEW c \in Conns, connStep(c) PROVE UNCHANGED viewVars
  <2>1. CASE dial(c) \/ adopt(c) \/ copierEnds(c) \/ answerDropped(c)
    BY <2>1, Zenon DEF dial, adopt, copierEnds, answerDropped
  <2>2. CASE readAnswer(c) \/ readerFreed(c) \/ readerEnds(c) \/ takeResponse(c) \/ writeResponse(c)
    BY <2>2, Zenon DEF readAnswer, readerFreed, readerEnds, takeResponse, writeResponse, netVars
  <2>3. CASE forwardEnds(c) \/ forwardReturns(c)
    BY <2>3, Zenon DEF forwardEnds, forwardReturns
  <2> QED
    BY <1>4, <2>1, <2>2, <2>3, Zenon DEF connStep
<1>5. CASE \E c \in Conns : drain(c) \/ clientStep(c)
  BY <1>5, Zenon DEF drain, clientStep, accept, copyRequest, hangUp, netVars
<1>6. CASE UNCHANGED vars
  BY <1>6, Zenon DEF vars, netVars
<1> QED
  BY <1>1, <1>2, <1>3, <1>4, <1>5, <1>6, Zenon DEF Next, progress, proxyStep

\* updateBroker keeps ViewInv: with every broker a member the rebuilt leaders are
\* the captured ones, and a leader that changes gets an epoch no view carried.
LEMMA ViewUpdate ==
  ASSUME ViewInv, NEW n \in Nodes, NEW A, updateBroker(n, A)
  PROVE  ViewInv'
<1> DEFINE L == members(without(n) \cup A)
<1>1. /\ members(live') = L
      /\ leader' = [p \in Parts |-> leaderAmong(p, L)]
      /\ epoch' = [p \in Parts |-> nextEpoch(p, leaderAmong(p, L))]
      /\ published' = published \cup Published(leader', epoch')
  BY Zenon DEF updateBroker, members
<1> HIDE DEF L
<1>2. members(live)' = L
  BY <1>1, Zenon DEF members
<1>3. \A p \in Parts : /\ leader'[p] = leaderAmong(p, L)
                       /\ epoch'[p] \in Nat
                       /\ \/ epoch'[p] = epoch[p] /\ leader'[p] = leader[p]
                          \/ epoch'[p] = epoch[p] + 1
  BY <1>1 DEF ViewInv, nextEpoch
<1>4. \A x \in published' : \/ x \in published
                            \/ \E p \in Parts : x = <<p, epoch'[p], leader'[p]>>
  BY <1>1, Zenon DEF Published
<1>5. \A x \in published' :
        /\ x[1] \in Parts /\ x[2] \in Nat
        /\ x[2] <= epoch'[x[1]]
        /\ x[2] = epoch'[x[1]] => x[3] = leader'[x[1]]
  BY <1>3, <1>4 DEF ViewInv
<1>6. \A x, y \in published' : x[1] = y[1] /\ x[2] = y[2] => x[3] = y[3]
  BY <1>3, <1>4 DEF ViewInv, AssignmentsConverge
<1>7. members(live)' = Nodes => leader' = Leader0
  BY <1>1, <1>2, NetworkAssumption, Zenon DEF leaderAmong
<1>8. DOMAIN leader' = Parts /\ epoch' \in [Parts -> Nat]
  BY <1>1, <1>3, Zenon
<1> QED
  BY <1>5, <1>6, <1>7, <1>8, Zenon DEF ViewInv, AssignmentsConverge

\* ViewInv is inductive: withdrawBroker leaves the assignments, and one broker out.
LEMMA ViewStep ==
  ASSUME PhaseInv, ViewInv, [Next]_vars
  PROVE  ViewInv'
<1>1. CASE UNCHANGED viewVars
  BY <1>1, Zenon DEF ViewInv, AssignmentsConverge, viewVars, members
<1>2. CASE phases
  <2>1. CASE beginPhase \/ phasesEnd
    BY <1>1, <2>1, Zenon DEF beginPhase, phasesEnd
  <2>2. CASE applyOp
    <3> DEFINE n == script[phase].node
    <3>0. n \in Nodes
      BY <2>2, PhaseNode, Zenon DEF applyOp
    <3>1. CASE withdrawBroker(n)
      <4>1. n \notin members(live)'
        BY <3>1, Zenon DEF withdrawBroker, without, members
      <4> QED
        BY <3>0, <3>1, <4>1, Zenon DEF ViewInv, AssignmentsConverge, withdrawBroker
    <3>2. CASE updateBroker(n, {}) \/ updateBroker(n, {a \in listening : a[1] = n})
      BY <3>0, <3>2, ViewUpdate, Zenon
    <3> QED
      BY <1>1, <2>2, <3>1, <3>2, Zenon DEF applyOp
  <2> QED
    BY <1>2, <2>1, <2>2, Zenon DEF phases, phaseStep
<1> QED
  BY <1>1, <1>2, ViewFrame, Zenon

-----------------------------------------------------------------------------
(***************************************************************************)
(* The run.                                                                *)
(***************************************************************************)
\* RunInv is about these variables only.
LEMMA RunQuiet ==
  ASSUME RunInv,
         UNCHANGED <<pc, ev, callbacks, obs, phasePc, sampler, workload, runCtx, result>>
  PROVE  RunInv'
BY ZenonT(40) DEF RunInv

\* Building and the warmup keep RunInv: nothing runs yet.
LEMMA RunSetup ==
  ASSUME RunInv, build \/ setupFails \/ startObserving
  PROVE  RunInv'
<1> USE DEF Late
<1>1. CASE build
  BY <1>1, Zenon DEF RunInv, build, netVars, phaseVars, eventVars, sampleVars
<1>2. CASE setupFails
  BY <1>2, Zenon DEF RunInv, setupFails, netVars, phaseVars, eventVars, sampleVars
<1>3. CASE startObserving
  BY <1>3, Zenon DEF RunInv, startObserving, startPhases, eventVars
<1> QED
  BY <1>1, <1>2, <1>3, Zenon

\* An event's goroutine and its callbacks keep RunInv.
LEMMA RunEvent ==
  ASSUME RunInv, NEW e \in Events, runScenarioEvent(e) \/ callback(e)
  PROVE  RunInv'
<1> USE DEF Late
<1>0. UNCHANGED <<pc, phasePc, sampler, workload, runCtx, result>>
  BY Zenon DEF runScenarioEvent, fire, skip, record, eventReturns, callback, restOfEvents, netVars,
     phaseVars, sampleVars
<1>1. CASE fire(e)
  BY <1>0, <1>1, RecoveryAssumption, Zenon DEF RunInv, fire, inObserve
<1>2. CASE skip(e)
  BY <1>0, <1>2, Zenon DEF RunInv, skip, inObserve
<1>3. CASE callback(e)
  BY <1>0, <1>3 DEF RunInv, callback
<1>4. CASE record(e)
  <2>1. PICK o \in {"ok", "err", "deadline"} : obs' = [obs EXCEPT ![e] = Append(@, o)]
    BY <1>4, Zenon DEF record
  <2>2. /\ obs' \in [Events -> Seq({"ok", "err", "deadline"})]
        /\ Len(obs'[e]) = Len(obs[e]) + 1
        /\ \A f \in Events \ {e} : obs'[f] = obs[f]
    BY <2>1 DEF RunInv
  <2>3. ev[e] = "fired" /\ ev' = [ev EXCEPT ![e] = "recorded"] /\ UNCHANGED callbacks
    BY <1>4, Zenon DEF record
  <2>4. pc = "observe" /\ workload = "inprocess" /\ result # "ok" /\ Len(obs[e]) = 0
    BY <2>3, Zenon DEF RunInv
  <2>5. \A f \in Events : Len(obs'[f]) = IF ev'[f] \in {"recorded", "done"} THEN 1 ELSE 0
    <3> SUFFICES ASSUME NEW f \in Events
                 PROVE  Len(obs'[f]) = IF ev'[f] \in {"recorded", "done"} THEN 1 ELSE 0
      BY Zenon
    <3>1. CASE f = e
      BY <2>2, <2>3, <2>4, <3>1 DEF RunInv
    <3>2. CASE f # e
      BY <2>2, <2>3, <3>2, Zenon DEF RunInv
    <3> QED
      BY <3>1, <3>2, Zenon
  <2>6. \A f \in Events : /\ callbacks'[f] > 0 => ev'[f] \in {"fired", "recorded"}
                          /\ ev'[f] = "skipped" => runCtx' = "canceled"
    BY <1>0, <2>3, Zenon DEF RunInv
  <2>7. ev' \in [Events -> {"wait", "fired", "recorded", "done", "skipped"}]
    BY <2>3, Zenon DEF RunInv
  <2> QED
    BY <1>0, <2>2, <2>3, <2>4, <2>5, <2>6, <2>7, Zenon DEF RunInv
<1>5. CASE eventReturns(e)
  BY <1>0, <1>5 DEF RunInv, eventReturns
<1> QED
  BY <1>1, <1>2, <1>3, <1>4, <1>5, Zenon DEF runScenarioEvent

\* The end of the observed phase, the verdict and env.Close keep RunInv.
LEMMA RunFinish ==
  ASSUME RunInv,
         observeReturns \/ joinPhases \/ judge \/ closeClients \/ closeNetworks \/ closeClusters
  PROVE  RunInv'
<1> USE DEF Late
<1>1. CASE observeReturns
  BY <1>1, Zenon DEF RunInv, observeReturns, observed, eventVars, sampleVars
<1>2. CASE joinPhases
  BY <1>2, Zenon DEF RunInv, joinPhases, netVars, phaseVars, eventVars
<1>3. CASE judge
  BY <1>3, Zenon DEF RunInv, judge, complete, netVars, phaseVars, eventVars, sampleVars
<1>4. CASE closeClients
  BY <1>4, Zenon DEF RunInv, closeClients, closeProxy, phaseVars, eventVars, sampleVars
<1>5. CASE closeNetworks
  BY <1>5, Zenon DEF RunInv, closeNetworks, phaseVars, eventVars, sampleVars
<1>6. CASE closeClusters
  BY <1>6, Zenon DEF RunInv, closeClusters, phaseVars, eventVars, sampleVars
<1> QED
  BY <1>1, <1>2, <1>3, <1>4, <1>5, <1>6, Zenon

\* RunInv is inductive.
LEMMA RunStep ==
  ASSUME PhaseInv, RunInv, [Next]_vars
  PROVE  RunInv'
<1>1. CASE run
  BY <1>1, RunSetup, RunFinish, Zenon DEF run
<1>2. CASE phases
  <2>1. /\ phasePc = "run" /\ phasePc' \in {"run", "ok", "err"}
        /\ runCtx' \in {runCtx, "canceled"}
        /\ UNCHANGED <<pc, ev, callbacks, obs, sampler, workload, result>>
    <3>1. phasePc = "run" /\ phasePc' \in {"run", "ok", "err"}
      BY <1>2, Zenon DEF phases, phaseStep, beginPhase, phasesEnd, applyOp
    <3>2. /\ runCtx' \in {runCtx, "canceled"}
          /\ UNCHANGED <<pc, ev, callbacks, obs, sampler, workload, result>>
      BY <1>2, Zenon DEF phases, eventVars, sampleVars
    <3> QED
      BY <3>1, <3>2, Zenon
  <2> QED
    BY <2>1, Zenon DEF RunInv, Late
<1>3. CASE \E e \in Events : runScenarioEvent(e) \/ callback(e)
  BY <1>3, RunEvent, Zenon
<1>4. CASE samplerEnds
  BY <1>4, Zenon DEF RunInv, samplerEnds, eventVars, netVars, phaseVars
<1>5. CASE cancelRun
  BY <1>5, Zenon DEF RunInv, cancelRun, eventVars, sampleVars
<1>6. CASE UNCHANGED <<runVars, phasePc>>
  BY <1>6, RunQuiet, Zenon DEF runVars, eventVars, sampleVars
<1>7. CASE Next /\ UNCHANGED runVars
  BY <1>6, <1>7, <1>2, <1>1, PhaseFrame, Zenon DEF run
<1>8. \/ run \/ phases \/ samplerEnds \/ cancelRun
      \/ \E e \in Events : runScenarioEvent(e) \/ callback(e)
      \/ Next /\ UNCHANGED runVars
      \/ UNCHANGED vars
  BY Zenon DEF Next, progress, tick, proxyStep, drain, clientStep
<1>9. CASE UNCHANGED vars
  BY <1>6, <1>9, Zenon DEF vars, netVars, phaseVars
<1> QED
  BY <1>1, <1>2, <1>3, <1>4, <1>5, <1>7, <1>8, <1>9, Zenon

-----------------------------------------------------------------------------
(***************************************************************************)
(* What follows for every behaviour.                                       *)
(***************************************************************************)
\* A run starts with nothing connected, published once and not yet begun.
LEMMA InitIInv == Init => IInv
<1> SUFFICES ASSUME Init PROVE IInv
  BY Zenon
<1> USE DEF Init, NetInit
<1>1. PhaseInv
  <2>1. script \in Seq([at : Nat, node : Nodes, action : Actions])
    BY NetworkAssumption, Zenon
  <2> QED
    BY <2>1 DEF PhaseInv
<1>2. CutInv
  BY Zenon DEF CutInv, CutStaysCut
<1>3. ViewInv
  BY NetworkAssumption DEF ViewInv, AssignmentsConverge, Published
<1>4. RunInv
  BY DEF RunInv, Late
<1> QED
  BY <1>1, <1>2, <1>3, <1>4, Zenon DEF IInv

\* The four invariants hold in every state of every run of a scenario.
THEOREM RunInvariant == Spec => []IInv
<1>1. IInv /\ [Next]_vars => IInv'
  BY PhaseStep, CutStep, ViewStep, RunStep, Zenon DEF IInv
<1> QED
  BY <1>1, InitIInv, PTL DEF Spec

\* No connection outlives the kill of its pod, the end of the blackhole that
\* swallowed some of its bytes, or the network (transport.go), except while the
\* loop that closes it is under way: for any number of connections and any script.
THEOREM CutStaysCutHolds == Spec => []CutStaysCut
<1>1. IInv => CutStaysCut
  BY Zenon DEF IInv, CutInv
<1> QED
  BY <1>1, RunInvariant, PTL

\* The metadata views (metadata.go) lead back to the captured leaders once every
\* broker is a member again, and never name two leaders for one epoch.
THEOREM AssignmentsConvergeHolds == Spec => []AssignmentsConverge
<1>1. IInv => AssignmentsConverge
  BY Zenon DEF IInv, ViewInv
<1> QED
  BY <1>1, RunInvariant, PTL

\* A result that is reported (runScenario) is of a run whose every event has one
\* observation and whose phases were all applied.
THEOREM ResultIsCompleteHolds == Spec => []ResultIsComplete
<1>1. IInv => ResultIsComplete
  BY Zenon DEF IInv, RunInv, PhaseInv, ResultIsComplete
<1> QED
  BY <1>1, RunInvariant, PTL

\* When env.Close is called no event waits, no callback is to come, and neither
\* the phases nor the sampler run.
THEOREM EnvOutlivesUsersHolds == Spec => []EnvOutlivesUsers
<1>1. IInv => EnvOutlivesUsers
  BY DEF IInv, RunInv, Late, EnvOutlivesUsers
<1> QED
  BY <1>1, RunInvariant, PTL

-----------------------------------------------------------------------------
(***************************************************************************)
(* The answers the proxy gives back (BrokerProxy): in order, not early,    *)
(* late only together with the one before, and counted as a sign of        *)
(* recovery only when they are one.                                        *)
(*                                                                         *)
(* What a connection's answers pass through, the response being waited     *)
(* for, the channel and what a full reader holds, is one queue: readAnswer *)
(* appends to it, writeResponse takes its head, and the steps between      *)
(* leave it as it is.  The invariant is about that queue.                  *)
(***************************************************************************)
(***************************************************************************)
(* The queue of a connection's answers: what forward waits to write, the   *)
(* channel, and what a full reader holds, one behind the other.  The       *)
(* lemmas are about any sequences; every step of a connection cites them.  *)
(***************************************************************************)
\* A response on its way: its request, when it was read, how long it waits, when
\* it is due and whether it is a success.
Response == [req : Nat, at : Nat, wait : Nat, due : Nat, ok : BOOLEAN]
Responses == Seq(Response)
RequestNos == Seq(Nat)

\* The answers on their way, the next to be written first.
join(w, q, h) == w \o q \o h
Short(q) == Len(q) <= 1

\* With requests a at the broker, answers p on their way, request g answered last
\* and s requests sent: every later place holds a later request.
InOrder(a, p, g, s) ==
  /\ \A i, j \in 1..Len(a) : i < j => a[i] < a[j]
  /\ \A i, j \in 1..Len(p) : i < j => p[i].req < p[j].req /\ p[i].at <= p[j].at
  /\ \A i \in 1..Len(p) : g < p[i].req /\ p[i].req <= s
  /\ \A j \in 1..Len(a) : g < a[j] /\ a[j] <= s
  /\ \A i \in 1..Len(p), j \in 1..Len(a) : p[i].req < a[j]
  /\ g <= s

\* Every response of p was read by time t and is due its latency, none or one of
\* W, later.
Stamped(p, t, W) ==
  \A i \in 1..Len(p) :
    /\ p[i].at <= t /\ p[i].due = p[i].at + p[i].wait
    /\ p[i].wait \in W \cup {0}

\* At time t, with the last answer written at time w: the next is not overdue
\* unless the last one has just been written, and none was read longer ago than
\* some latency.
OnTime(p, t, w, W) ==
  /\ p # << >> => t <= Head(p).due \/ t = w
  /\ \A i \in 1..Len(p) : \E x \in W : p[i].at + x >= t

-----------------------------------------------------------------------------
(***************************************************************************)
(* The queue and its parts.                                                *)
(***************************************************************************)
\* The numbers of a response are natural numbers.
LEMMA Fields ==
  ASSUME NEW r \in Response
  PROVE  r.req \in Nat /\ r.at \in Nat /\ r.wait \in Nat /\ r.due \in Nat
BY DEF Response

\* So are those of every response in a queue.
LEMMA QueueFields ==
  ASSUME NEW p \in Responses
  PROVE  \A i \in 1..Len(p) :
           p[i].req \in Nat /\ p[i].at \in Nat /\ p[i].wait \in Nat /\ p[i].due \in Nat
<1> TAKE i \in 1..Len(p)
<1>1. p[i] \in Response
  BY DEF Responses
<1> QED
  BY <1>1, Fields

\* Queues of no response and of one.
LEMMA SmallQueues ==
  /\ << >> \in Responses /\ Short(<< >>) /\ join(<< >>, << >>, << >>) = << >>
  /\ \A r \in Response : <<r>> \in Responses /\ Short(<<r>>) /\ <<r>> # << >>
BY DEF Responses, Short, join

\* A response is put into the channel, or taken out of it; the held one joins it.
LEMMA QueueTypes ==
  ASSUME NEW q \in Responses
  PROVE  /\ \A r \in Response : Append(q, r) \in Responses
         /\ \A h \in Responses : q \o h \in Responses
         /\ q # << >> => Head(q) \in Response /\ Tail(q) \in Responses
BY DEF Responses

\* A request reaches the broker, or leaves it.
LEMMA RequestTypes ==
  ASSUME NEW a \in RequestNos
  PROVE  /\ \A n \in Nat : Append(a, n) \in RequestNos
         /\ a # << >> => Head(a) \in Nat /\ Tail(a) \in RequestNos
BY DEF RequestNos

\* The three parts make one queue.
LEMMA JoinType ==
  ASSUME NEW w \in Responses, NEW q \in Responses, NEW h \in Responses
  PROVE  join(w, q, h) \in Responses
BY DEF Responses, join

\* Its head is what forward waits for, when it does.
LEMMA JoinHead ==
  ASSUME NEW w \in Responses, NEW q \in Responses, NEW h \in Responses, w # << >>
  PROVE  join(w, q, h) # << >> /\ Head(join(w, q, h)) = Head(w)
<1> USE DEF Responses, join
<1>1. join(w, q, h) # << >>
  OBVIOUS
<1>2. Head(join(w, q, h)) = Head(w)
  OBVIOUS
<1> QED
  BY <1>1, <1>2

\* takeResponse leaves the queue as it is: the head of the channel moves up.
LEMMA JoinTake ==
  ASSUME NEW q \in Responses, NEW h \in Responses, q # << >>
  PROVE  join(<<Head(q)>>, Tail(q), h) = join(<< >>, q, h)
<1>1. <<Head(q)>> \o Tail(q) = q
  BY DEF Responses
<1>2. << >> \o q = q
  BY DEF Responses
<1> QED
  BY <1>1, <1>2 DEF join

\* writeResponse takes the head.
LEMMA JoinWrite ==
  ASSUME NEW w \in Responses, NEW q \in Responses, NEW h \in Responses, w # << >>, Short(w)
  PROVE  join(<< >>, q, h) = Tail(join(w, q, h))
<1> USE DEF Responses
<1>1. Len(w) = 1
  <2> DEFINE n == Len(w)
  <2>1. n \in Nat /\ n # 0 /\ n <= 1
    BY DEF Short
  <2> HIDE DEF n
  <2>2. n = 1
    BY <2>1
  <2> QED
    BY <2>2 DEF n
<1>2. w = <<w[1]>> /\ w[1] \in Response
  BY <1>1
<1>3. q \o h \in Seq(Response)
  OBVIOUS
<1>4. \A r \in Response, x \in Seq(Response) : Tail(<<r>> \o x) = x
  OBVIOUS
<1>5. join(<< >>, q, h) = q \o h /\ join(w, q, h) = w \o (q \o h)
  BY DEF join
<1>6. Tail(<<w[1]>> \o (q \o h)) = q \o h
  BY <1>2, <1>3, <1>4
<1> QED
  BY <1>2, <1>5, <1>6, Zenon

\* readAnswer appends, to the channel or by holding what does not fit.
LEMMA JoinRead ==
  ASSUME NEW w \in Responses, NEW q \in Responses, NEW r \in Response
  PROVE  /\ join(w, Append(q, r), << >>) = Append(join(w, q, << >>), r)
         /\ join(w, q, <<r>>) = Append(join(w, q, << >>), r)
BY DEF Responses, join

\* readerFreed leaves the queue as it is: the held response joins the channel.
LEMMA JoinFreed ==
  ASSUME NEW w \in Responses, NEW q \in Responses, NEW h \in Responses
  PROVE  join(w, q \o h, << >>) = join(w, q, h)
BY DEF Responses, join

\* readerEnds drops the held response: what is left is the front of the queue.
LEMMA JoinEnds ==
  ASSUME NEW w \in Responses, NEW q \in Responses, NEW h \in Responses
  PROVE  /\ Len(join(w, q, << >>)) <= Len(join(w, q, h))
         /\ \A i \in 1..Len(join(w, q, << >>)) : join(w, q, << >>)[i] = join(w, q, h)[i]
BY DEF Responses, join

-----------------------------------------------------------------------------
(***************************************************************************)
(* Order.                                                                  *)
(***************************************************************************)
\* The next request copied to the broker is the latest, swallowed or not.
LEMMA OrderArrive ==
  ASSUME NEW a \in RequestNos, NEW p \in Responses, NEW g \in Nat, NEW s \in Nat, InOrder(a, p, g, s)
  PROVE  /\ InOrder(Append(a, s + 1), p, g, s + 1)
         /\ InOrder(a, p, g, s + 1)
<1> USE DEF RequestNos
<1>1. \A i \in 1..Len(p) : p[i].req \in Nat
  BY QueueFields
<1>2. \A j \in 1..Len(a) : a[j] \in Nat
  OBVIOUS
<1>3. InOrder(a, p, g, s + 1)
  BY <1>1, <1>2 DEF InOrder
<1> DEFINE b == Append(a, s + 1)
<1>4. Len(b) = Len(a) + 1 /\ Len(a) \in Nat
  OBVIOUS
<1>5. b[Len(a) + 1] = s + 1 /\ \A j \in 1..Len(a) : b[j] = a[j]
  OBVIOUS
<1>6. \A j \in 1..Len(b) : j \in 1..Len(a) \/ j = Len(a) + 1
  BY <1>4
<1> HIDE DEF b
<1>7. \A i, j \in 1..Len(b) : i < j => b[i] < b[j]
  <2> SUFFICES ASSUME NEW i \in 1..Len(b), NEW j \in 1..Len(b), i < j PROVE b[i] < b[j]
    OBVIOUS
  <2>1. i \in 1..Len(a)
    BY <1>4
  <2>2. CASE j \in 1..Len(a)
    BY <1>5, <2>1, <2>2 DEF InOrder
  <2>3. CASE j = Len(a) + 1
    <3>1. a[i] <= s
      BY <2>1 DEF InOrder
    <3> QED
      BY <1>2, <1>5, <2>1, <2>3, <3>1
  <2> QED
    BY <1>6, <2>2, <2>3
<1>8. \A j \in 1..Len(b) : g < b[j] /\ b[j] <= s + 1
  <2> TAKE j \in 1..Len(b)
  <2>1. CASE j \in 1..Len(a)
    BY <1>2, <1>5, <2>1 DEF InOrder
  <2>2. CASE j = Len(a) + 1
    <3>1. g <= s
      BY DEF InOrder
    <3> QED
      BY <1>5, <2>2, <3>1
  <2> QED
    BY <1>6, <2>1, <2>2
<1>9. \A i \in 1..Len(p), j \in 1..Len(b) : p[i].req < b[j]
  <2> SUFFICES ASSUME NEW i \in 1..Len(p), NEW j \in 1..Len(b) PROVE p[i].req < b[j]
    BY Zenon
  <2>1. CASE j \in 1..Len(a)
    BY <1>5, <2>1 DEF InOrder
  <2>2. CASE j = Len(a) + 1
    <3>1. p[i].req <= s /\ p[i].req \in Nat
      BY <1>1 DEF InOrder
    <3>2. b[j] = s + 1
      BY <1>5, <2>2, Zenon
    <3>3. \A x \in Nat : x <= s => x < s + 1
      OBVIOUS
    <3> QED
      BY <3>1, <3>2, <3>3, Zenon
  <2> QED
    BY <1>6, <2>1, <2>2
<1> QED
  BY <1>3, <1>7, <1>8, <1>9, Zenon DEF InOrder, b

\* Places of a tail are the next places of the whole.
LEMMA TailPlaces ==
  ASSUME NEW S, NEW p \in Seq(S), p # << >>
  PROVE  /\ 1 \in 1..Len(p) /\ Head(p) = p[1]
         /\ \A i \in 1..Len(Tail(p)) : i + 1 \in 1..Len(p) /\ 1 < i + 1 /\ Tail(p)[i] = p[i + 1]
OBVIOUS

\* An answer the network swallows leaves a gap and no disorder.
LEMMA OrderLose ==
  ASSUME NEW a \in RequestNos, NEW p, NEW g, NEW s, InOrder(a, p, g, s), a # << >>
  PROVE  InOrder(Tail(a), p, g, s)
<1> DEFINE b == Tail(a)
<1>1. \A i \in 1..Len(b) : i + 1 \in 1..Len(a) /\ b[i] = a[i + 1]
  BY TailPlaces DEF RequestNos
<1>2. \A i, j \in 1..Len(b) : i < j => i + 1 < j + 1
  OBVIOUS
<1> HIDE DEF b
<1> QED
  BY <1>1, <1>2 DEF InOrder, b

\* The answer to the broker's oldest request comes last in the queue.
LEMMA OrderRead ==
  ASSUME NEW a \in RequestNos, NEW p \in Responses, NEW g, NEW s, InOrder(a, p, g, s), a # << >>,
         NEW r \in Response, r.req = Head(a), \A i \in 1..Len(p) : p[i].at <= r.at
  PROVE  InOrder(Tail(a), Append(p, r), g, s)
<1> DEFINE b == Tail(a)
           q == Append(p, r)
<1>1. \A i \in 1..Len(b) : i + 1 \in 1..Len(a) /\ 1 < i + 1 /\ b[i] = a[i + 1]
  BY TailPlaces DEF RequestNos
<1>2. 1 \in 1..Len(a) /\ r.req = a[1]
  BY TailPlaces DEF RequestNos
<1>3. /\ Len(p) \in Nat /\ Len(q) = Len(p) + 1
      /\ q[Len(p) + 1] = r /\ \A i \in 1..Len(p) : q[i] = p[i]
  BY DEF Responses
<1>4. InOrder(b, p, g, s)
  BY OrderLose
<1> HIDE DEF b, q
<1>5. \A i \in 1..Len(q) : i \in 1..Len(p) \/ i = Len(p) + 1
  BY <1>3
<1>6. \A i, j \in 1..Len(q) : i < j => q[i].req < q[j].req /\ q[i].at <= q[j].at
  <2> SUFFICES ASSUME NEW i \in 1..Len(q), NEW j \in 1..Len(q), i < j
               PROVE  q[i].req < q[j].req /\ q[i].at <= q[j].at
    OBVIOUS
  <2>1. i \in 1..Len(p) /\ q[i] = p[i]
    BY <1>3
  <2>2. CASE j \in 1..Len(p)
    BY <1>3, <2>1, <2>2 DEF InOrder
  <2>3. CASE j = Len(p) + 1
    BY <1>2, <1>3, <2>1, <2>3, SMTT(30) DEF InOrder
  <2> QED
    BY <1>5, <2>2, <2>3
<1>7. \A i \in 1..Len(q) : g < q[i].req /\ q[i].req <= s
  <2> TAKE i \in 1..Len(q)
  <2>1. CASE i \in 1..Len(p)
    BY <1>3, <2>1 DEF InOrder
  <2>2. CASE i = Len(p) + 1
    BY <1>2, <1>3, <2>2, SMTT(30) DEF InOrder
  <2> QED
    BY <1>5, <2>1, <2>2
<1>8. \A i \in 1..Len(q), j \in 1..Len(b) : q[i].req < b[j]
  <2> SUFFICES ASSUME NEW i \in 1..Len(q), NEW j \in 1..Len(b) PROVE q[i].req < b[j]
    OBVIOUS
  <2>1. CASE i \in 1..Len(p)
    BY <1>3, <1>4, <2>1 DEF InOrder
  <2>2. CASE i = Len(p) + 1
    BY <1>1, <1>2, <1>3, <2>2 DEF InOrder
  <2> QED
    BY <1>5, <2>1, <2>2
<1> QED
  BY <1>4, <1>6, <1>7, <1>8 DEF InOrder, b, q

\* The head of the queue is the earliest after the one written last.
LEMMA OrderWrite ==
  ASSUME NEW a, NEW p \in Responses, NEW g, NEW s, InOrder(a, p, g, s), p # << >>
  PROVE  g < Head(p).req /\ InOrder(a, Tail(p), Head(p).req, s)
<1> DEFINE q == Tail(p)
<1>1. \A i \in 1..Len(q) : i + 1 \in 1..Len(p) /\ 1 < i + 1 /\ q[i] = p[i + 1]
  BY TailPlaces DEF Responses
<1>2. 1 \in 1..Len(p) /\ Head(p) = p[1]
  BY TailPlaces DEF Responses
<1> HIDE DEF q
<1>3. \A i, j \in 1..Len(q) : i < j => q[i].req < q[j].req /\ q[i].at <= q[j].at
  <2> SUFFICES ASSUME NEW i \in 1..Len(q), NEW j \in 1..Len(q), i < j
               PROVE  q[i].req < q[j].req /\ q[i].at <= q[j].at
    OBVIOUS
  <2>1. i + 1 \in 1..Len(p) /\ j + 1 \in 1..Len(p) /\ i + 1 < j + 1
    BY <1>1
  <2> QED
    BY <1>1, <2>1, SMTT(30) DEF InOrder
<1>4. \A i \in 1..Len(q) : p[1].req < q[i].req /\ q[i].req <= s
  BY <1>1, <1>2 DEF InOrder
<1>5. \A i \in 1..Len(q), j \in 1..Len(a) : q[i].req < a[j]
  BY <1>1 DEF InOrder
<1>6. g < p[1].req /\ p[1].req <= s /\ \A j \in 1..Len(a) : p[1].req < a[j]
  BY <1>2 DEF InOrder
<1>7. /\ \A i, j \in 1..Len(a) : i < j => a[i] < a[j]
      /\ \A j \in 1..Len(a) : a[j] <= s
  BY DEF InOrder
<1>8. InOrder(a, q, p[1].req, s)
  BY <1>3, <1>4, <1>5, <1>6, <1>7 DEF InOrder
<1> QED
  BY <1>2, <1>6, <1>8 DEF q

-----------------------------------------------------------------------------
(***************************************************************************)
(* Time.                                                                   *)
(***************************************************************************)
\* An answer read now is stamped and on time.
LEMMA TimeRead ==
  ASSUME NEW p \in Responses, NEW t \in Nat, NEW W \in SUBSET Nat, W # {}, Stamped(p, t, W),
         NEW r \in Response, r.at = t, r.due = r.at + r.wait, r.wait \in W \cup {0}
  PROVE  /\ Stamped(Append(p, r), t, W)
         /\ \A w : OnTime(p, t, w, W) => OnTime(Append(p, r), t, w, W)
<1> DEFINE q == Append(p, r)
<1>1. /\ Len(q) = Len(p) + 1 /\ Len(p) \in Nat
      /\ q[Len(p) + 1] = r /\ \A i \in 1..Len(p) : q[i] = p[i]
  BY DEF Responses
<1>2. IF p = << >> THEN Head(q) = r ELSE Head(q) = Head(p)
  BY DEF Responses
<1> HIDE DEF q
<1>3. \A i \in 1..Len(q) : i \in 1..Len(p) \/ i = Len(p) + 1
  BY <1>1
<1>4. r.wait \in Nat /\ r.at \in Nat
  BY Fields
<1>5. Stamped(q, t, W)
  <2> SUFFICES ASSUME NEW i \in 1..Len(q)
               PROVE  /\ q[i].at <= t /\ q[i].due = q[i].at + q[i].wait
                      /\ q[i].wait \in W \cup {0}
    BY DEF Stamped
  <2>1. CASE i \in 1..Len(p)
    BY <1>1, <2>1 DEF Stamped
  <2>2. CASE i = Len(p) + 1
    BY <1>1, <1>4, <2>2
  <2> QED
    BY <1>3, <2>1, <2>2, SMTT(30)
<1>6. ASSUME NEW w, OnTime(p, t, w, W) PROVE OnTime(q, t, w, W)
  <2>0. PICK x \in W : x \in Nat
    BY Zenon
  <2>1. r.at + x >= t
    BY <1>4, <2>0
  <2>2. t <= r.due
    BY <1>4
  <2>3. t <= Head(q).due \/ t = w
    BY <1>2, <1>6, <2>2 DEF OnTime
  <2>4. ASSUME NEW i \in 1..Len(q) PROVE \E y \in W : q[i].at + y >= t
    <3>1. CASE i \in 1..Len(p)
      BY <1>1, <1>6, <3>1 DEF OnTime
    <3>2. CASE i = Len(p) + 1
      BY <1>1, <2>1, <3>2
    <3> QED
      BY <1>3, <3>1, <3>2
  <2> QED
    BY <2>3, <2>4 DEF OnTime
<1> QED
  BY <1>5, <1>6 DEF q

\* The head of a queue, when it is due its latency after it was read.
LEMMA TimeHead ==
  ASSUME NEW p \in Responses, p # << >>, NEW t, NEW w, NEW W, Stamped(p, t, W), OnTime(p, t, w, W)
  PROVE  /\ Head(p) \in Response
         /\ Head(p).due = Head(p).at + Head(p).wait
         /\ t <= Head(p).due \/ t = w
         /\ \E x \in W : Head(p).at + x >= t
<1>1. 1 \in 1..Len(p) /\ Head(p) = p[1] /\ Head(p) \in Response
  BY DEF Responses
<1> QED
  BY <1>1 DEF Stamped, OnTime

\* What is behind an answer is on time when that one is written.
LEMMA TimeWrite ==
  ASSUME NEW p \in Responses, p # << >>, NEW t, NEW w, NEW W, Stamped(p, t, W), OnTime(p, t, w, W)
  PROVE  Stamped(Tail(p), t, W) /\ OnTime(Tail(p), t, t, W)
<1> DEFINE q == Tail(p)
<1>1. \A i \in 1..Len(q) : i + 1 \in 1..Len(p) /\ q[i] = p[i + 1]
  BY TailPlaces DEF Responses
<1> HIDE DEF q
<1>2. Stamped(q, t, W)
  BY <1>1 DEF Stamped
<1>3. OnTime(q, t, t, W)
  BY <1>1 DEF OnTime
<1> QED
  BY <1>2, <1>3 DEF q

\* Time passes while the next answer is not due: none gets late, and the others
\* were read no earlier than it was.
LEMMA TimePasses ==
  ASSUME NEW a, NEW g, NEW s, NEW p \in Responses, NEW t \in Nat, NEW W \in SUBSET Nat,
         Stamped(p, t, W), InOrder(a, p, g, s)
  PROVE  /\ Stamped(p, t + 1, W)
         /\ (p # << >> => t < Head(p).due) => \A w : OnTime(p, t + 1, w, W)
<1>1. p # << >> => 1 \in 1..Len(p) /\ Head(p) = p[1]
  BY TailPlaces DEF Responses
<1>2. \A i \in 1..Len(p) : p[i].req \in Nat /\ p[i].at \in Nat /\ p[i].wait \in Nat /\ p[i].due \in Nat
  BY QueueFields, SMTT(30)
<1>3. Stamped(p, t + 1, W)
  BY <1>2 DEF Stamped
<1>4. CASE p = << >>
  BY <1>3, <1>4, SMTT(30) DEF OnTime
<1>5. ASSUME p # << >>, t < Head(p).due, NEW w PROVE OnTime(p, t + 1, w, W)
  <2>1. p[1].at <= t /\ p[1].due = p[1].at + p[1].wait /\ p[1].wait \in W \cup {0}
    BY <1>1, <1>5 DEF Stamped
  <2>2. t + 1 <= p[1].due /\ p[1].wait # 0
    BY <1>1, <1>2, <1>5, <2>1
  <2>3. ASSUME NEW i \in 1..Len(p) PROVE p[i].at + p[1].wait >= t + 1
    <3>1. p[1].at <= p[i].at
      <4>1. CASE i = 1
        BY <4>1, <1>2
      <4>2. CASE 1 < i
        BY <1>1, <1>5, <4>2 DEF InOrder
      <4> QED
        BY <4>1, <4>2
    <3> QED
      BY <1>1, <1>2, <1>5, <2>1, <2>2, <3>1, SMTT(30)
  <2> QED
    BY <1>1, <1>5, <2>1, <2>2, <2>3, Zenon DEF OnTime
<1> QED
  BY <1>3, <1>4, <1>5

\* A front of the queue is in order and stamped as well.
LEMMA FrontKeeps ==
  ASSUME NEW p \in Responses, NEW q \in Responses, Len(q) <= Len(p), \A i \in 1..Len(q) : q[i] = p[i]
  PROVE  /\ \A a, g, s : InOrder(a, p, g, s) => InOrder(a, q, g, s)
         /\ \A t, W : Stamped(p, t, W) => Stamped(q, t, W)
<1>1. \A i \in 1..Len(q) : i \in 1..Len(p)
  BY DEF Responses
<1>2. ASSUME NEW a, NEW g, NEW s, InOrder(a, p, g, s) PROVE InOrder(a, q, g, s)
  BY <1>1, <1>2 DEF InOrder
<1>3. ASSUME NEW t, NEW W, Stamped(p, t, W) PROVE Stamped(q, t, W)
  BY <1>1, <1>3, SMTT(30) DEF Stamped
<1> QED
  BY <1>2, <1>3

\* And on time: readerEnds drops the last response only.
LEMMA FrontOnTime ==
  ASSUME NEW p \in Responses, NEW q \in Responses, Len(q) <= Len(p), \A i \in 1..Len(q) : q[i] = p[i],
         NEW t, NEW w, NEW W, OnTime(p, t, w, W)
  PROVE  OnTime(q, t, w, W)
<1>1. /\ \A i \in 1..Len(q) : i \in 1..Len(p)
      /\ q # << >> => p # << >> /\ Head(q) = Head(p)
  BY DEF Responses
<1> QED
  BY <1>1 DEF OnTime

\* Nothing on its way is in order, stamped and on time.
LEMMA EmptyPath ==
  /\ InOrder(<< >>, << >>, 0, 0)
  /\ \A t, W : Stamped(<< >>, t, W)
  /\ \A t, w, W : OnTime(<< >>, t, w, W)
BY DEF InOrder, Stamped, OnTime

-----------------------------------------------------------------------------
(***************************************************************************)
(* The inductive invariants.                                               *)
(***************************************************************************)
Waits == {served(d) : d \in Delays}
pipe(c) == join(writing[c], responses[c], held[c])

PathTypes ==
  /\ now \in Nat
  /\ fwd \in [Conns -> {"none", "dial", "serve", "unwind"}]
  /\ reader \in [Conns -> {"off", "run", "full", "done"}]
  /\ sent \in [Conns -> Nat]
  /\ arrived \in [Conns -> RequestNos]
  /\ writing \in [Conns -> Responses]
  /\ responses \in [Conns -> Responses]
  /\ held \in [Conns -> Responses]
  /\ got \in [Conns -> [req : Nat, ready : Nat, at : Nat]]

\* At most one response is waited for and one held, by a reader that is full, and
\* a connection that is not served has none.
Shape(c) ==
  /\ Short(writing[c])
  /\ held[c] # << >> => reader[c] = "full"
  /\ fwd[c] \in {"none", "dial"} =>
       /\ reader[c] = "off"
       /\ writing[c] = << >> /\ responses[c] = << >>

Path(c) ==
  /\ Shape(c)
  /\ InOrder(arrived[c], pipe(c), got[c].req, sent[c])
  /\ Stamped(pipe(c), now, Waits)
  /\ fwd[c] # "unwind" => OnTime(pipe(c), now, got[c].at, Waits)

PathInv == PathTypes /\ \A c \in Conns : Path(c)

\* Recoveries are counted only once phases have begun, and so from recoveryFrom
\* on, and by then nothing answered before the last phase is on its way.
RecoveryInv ==
  /\ script \in Scripts /\ phase \in 0..Len(script)
  /\ phasePc = "off" => restored = {}
  /\ phasePc # "off" => recoveryStart = RecoveryFrom
  /\ \A x \in recovered : \A i \in 1..Len(script) : x[2] >= script[i].at

-----------------------------------------------------------------------------
(***************************************************************************)
(* The steps of a connection.                                              *)
(***************************************************************************)
\* What is waited for is a time.
LEMMA WaitsType == Waits \in SUBSET Nat /\ Waits # {}
BY ProxyAssumption, Zenon DEF Waits, served

\* Path(e) is about the clock and what belongs to e only.
LEMMA PathQuiet ==
  ASSUME NEW e \in Conns, Path(e), now' = now, fwd'[e] = fwd[e], reader'[e] = reader[e],
         sent'[e] = sent[e], arrived'[e] = arrived[e], writing'[e] = writing[e],
         responses'[e] = responses[e], held'[e] = held[e], got'[e] = got[e]
  PROVE  Path(e)'
BY Zenon DEF Path, Shape, pipe

\* What a connection's answers pass through has the types the queue needs.
LEMMA PathOf ==
  ASSUME PathInv, NEW c \in Conns
  PROVE  /\ writing[c] \in Responses /\ responses[c] \in Responses /\ held[c] \in Responses
         /\ pipe(c) \in Responses
         /\ arrived[c] \in RequestNos /\ sent[c] \in Nat /\ now \in Nat
         /\ got[c].req \in Nat /\ got[c].at \in Nat
         /\ Path(c)
<1>1. writing[c] \in Responses /\ responses[c] \in Responses /\ held[c] \in Responses
  BY Zenon DEF PathInv, PathTypes
<1>2. pipe(c) \in Responses
  BY <1>1, JoinType, Zenon DEF pipe
<1>3. /\ arrived[c] \in RequestNos /\ sent[c] \in Nat /\ now \in Nat
      /\ got[c] \in [req : Nat, ready : Nat, at : Nat] /\ Path(c)
  BY Zenon DEF PathInv, PathTypes
<1> QED
  BY <1>1, <1>2, <1>3, Zenon

\* A request copied to the broker, or swallowed on the way.
LEMMA PathCopy ==
  ASSUME PathInv, NEW c \in Conns, copyRequest(c)
  PROVE  PathInv'
<1> DEFINE more == Append(arrived[c], sent[c] + 1)
<1>1. /\ sent' = [sent EXCEPT ![c] = sent[c] + 1]
      /\ arrived' = arrived \/ arrived' = [arrived EXCEPT ![c] = more]
      /\ UNCHANGED <<now, fwd, reader, held, responses, writing, got>>
  BY Zenon DEF copyRequest, pathVars
<1>2. more \in RequestNos /\ sent[c] + 1 \in Nat
  <2>1. sent[c] + 1 \in Nat /\ arrived[c] \in RequestNos
    BY PathOf
  <2> QED
    BY <2>1, RequestTypes, Zenon
<1>3. /\ InOrder(more, pipe(c), got[c].req, sent[c] + 1)
      /\ InOrder(arrived[c], pipe(c), got[c].req, sent[c] + 1)
  BY PathOf, OrderArrive, Zenon DEF Path
<1> HIDE DEF more
<1>4. PathTypes'
  BY <1>1, <1>2, ZenonT(40) DEF PathInv, PathTypes
<1>5. Path(c)'
  <2>1. sent'[c] = sent[c] + 1 /\ (arrived'[c] = arrived[c] \/ arrived'[c] = more)
    BY <1>1, Zenon DEF PathInv, PathTypes
  <2>2. pipe(c)' = pipe(c) /\ Shape(c)' = Shape(c)
    BY <1>1, Zenon DEF pipe, Shape
  <2> QED
    BY <1>1, <1>3, <2>1, <2>2, PathOf, Zenon DEF Path
<1>6. ASSUME NEW e \in Conns, e # c PROVE Path(e)'
  BY <1>1, <1>6, PathQuiet, Zenon DEF PathInv, PathTypes
<1> QED
  BY <1>4, <1>5, <1>6, Zenon DEF PathInv

\* An answer the network swallows.
LEMMA PathDrop ==
  ASSUME PathInv, NEW c \in Conns, answerDropped(c)
  PROVE  PathInv'
<1> DEFINE less == Tail(arrived[c])
<1>1. /\ arrived[c] # << >> /\ arrived' = [arrived EXCEPT ![c] = less]
      /\ UNCHANGED <<now, sent, fwd, reader, held, responses, writing, got>>
  BY Zenon DEF answerDropped, pathVars
<1>2. less \in RequestNos
  BY <1>1, PathOf, RequestTypes, Zenon
<1>3. InOrder(less, pipe(c), got[c].req, sent[c])
  BY <1>1, PathOf, OrderLose, Zenon DEF Path
<1> HIDE DEF less
<1>4. PathTypes'
  BY <1>1, <1>2, Zenon DEF PathInv, PathTypes
<1>5. Path(c)'
  <2>1. arrived'[c] = less /\ pipe(c)' = pipe(c) /\ Shape(c)' = Shape(c)
    BY <1>1, Zenon DEF PathInv, PathTypes, pipe, Shape
  <2> QED
    BY <1>1, <1>3, <2>1, PathOf, Zenon DEF Path
<1>6. ASSUME NEW e \in Conns, e # c PROVE Path(e)'
  BY <1>1, <1>6, PathQuiet, Zenon DEF PathInv, PathTypes
<1> QED
  BY <1>4, <1>5, <1>6, Zenon DEF PathInv

\* The reader gets an answer and puts it at the end of the queue.
LEMMA PathRead ==
  ASSUME PathInv, NEW c \in Conns, readAnswer(c)
  PROVE  PathInv'
<1> DEFINE less == Tail(arrived[c])
<1>1. /\ reader[c] = "run" /\ arrived[c] # << >> /\ arrived' = [arrived EXCEPT ![c] = less]
      /\ UNCHANGED <<now, sent, fwd, writing, got>>
  BY Zenon DEF readAnswer, netVars
<1>2. PICK r \in Response : /\ send(c, r) /\ r.req = Head(arrived[c]) /\ r.at = now
                            /\ r.due = r.at + r.wait /\ r.wait \in Waits \cup {0}
  <2>1. PICK d \in Delays \cup {0}, ok \in BOOLEAN :
          send(c, [req |-> Head(arrived[c]), at |-> now, wait |-> served(d), due |-> dueAt(c, d),
                   ok |-> ok /\ d <= Timeout])
    BY Zenon DEF readAnswer
  <2>2. served(d) \in Nat /\ served(d) \in Waits \cup {0}
    BY ProxyAssumption DEF served, Waits
  <2>3. now \in Nat /\ Head(arrived[c]) \in Nat
    BY <1>1, PathOf, RequestTypes, Zenon
  <2> DEFINE r == [req |-> Head(arrived[c]), at |-> now, wait |-> served(d), due |-> dueAt(c, d),
                   ok |-> ok /\ d <= Timeout]
  <2>4. dueAt(c, d) = now + served(d) /\ now + served(d) \in Nat
    BY <2>2, <2>3 DEF dueAt
  <2>5. r \in Response
    BY <2>2, <2>3, <2>4, Zenon DEF Response
  <2>6. r.req = Head(arrived[c]) /\ r.at = now /\ r.due = r.at + r.wait /\ r.wait \in Waits \cup {0}
    BY <2>2, <2>4, Zenon
  <2> HIDE DEF r
  <2> QED
    BY <2>1, <2>5, <2>6, Zenon DEF r
<1>3. less \in RequestNos
  BY <1>1, PathOf, RequestTypes, Zenon
<1>4. held[c] = << >> /\ fwd[c] \notin {"none", "dial"} /\ Short(writing[c])
  BY <1>1, PathOf, Zenon DEF Path, Shape
<1> DEFINE more == Append(responses[c], r)
           one == <<r>>
<1>5. /\ \/ /\ responses' = [responses EXCEPT ![c] = more]
            /\ reader' = reader /\ held' = held
         \/ /\ reader' = [reader EXCEPT ![c] = "full"]
            /\ held' = [held EXCEPT ![c] = one]
            /\ responses' = responses
  BY <1>2, Zenon DEF send
<1>6. more \in Responses /\ one \in Responses
  BY <1>2, PathOf, QueueTypes, SmallQueues, Zenon
<1>7. /\ join(writing[c], more, << >>) = Append(pipe(c), r)
      /\ join(writing[c], responses[c], one) = Append(pipe(c), r)
  <2>1. writing[c] \in Responses /\ responses[c] \in Responses /\ pipe(c) = join(writing[c], responses[c], << >>)
    BY <1>4, PathOf, Zenon DEF pipe
  <2> QED
    BY <1>2, <2>1, JoinRead, ZenonT(40)
<1>8. \A i \in 1..Len(pipe(c)) : pipe(c)[i].at <= r.at
  BY <1>2, PathOf, Zenon DEF Path, Stamped
<1>9. InOrder(less, Append(pipe(c), r), got[c].req, sent[c])
  BY <1>1, <1>2, <1>8, PathOf, OrderRead, Zenon DEF Path
<1>10. /\ Stamped(Append(pipe(c), r), now, Waits)
       /\ \A w : OnTime(pipe(c), now, w, Waits) => OnTime(Append(pipe(c), r), now, w, Waits)
  BY <1>2, PathOf, WaitsType, TimeRead, Zenon DEF Path
<1> HIDE DEF less, more, one
<1>11. PathTypes'
  <2>1. responses' \in [Conns -> Responses]
    BY <1>5, <1>6, Zenon DEF PathInv, PathTypes
  <2>2. held' \in [Conns -> Responses]
    BY <1>5, <1>6, Zenon DEF PathInv, PathTypes
  <2>3. reader' \in [Conns -> {"off", "run", "full", "done"}]
    BY <1>5, Zenon DEF PathInv, PathTypes
  <2>4. arrived' \in [Conns -> RequestNos]
    BY <1>1, <1>3, Zenon DEF PathInv, PathTypes
  <2> QED
    BY <1>1, <2>1, <2>2, <2>3, <2>4, Zenon DEF PathInv, PathTypes
<1>12. Path(c)'
  <2>1. /\ arrived'[c] = less
        /\ \/ responses'[c] = more /\ reader'[c] = reader[c] /\ held'[c] = held[c]
           \/ responses'[c] = responses[c] /\ reader'[c] = "full" /\ held'[c] = one
    BY <1>1, <1>5, Zenon DEF PathInv, PathTypes
  <2>2. pipe(c)' = Append(pipe(c), r)
    BY <1>1, <1>4, <1>7, <2>1, Zenon DEF pipe
  <2>3. Shape(c)'
    BY <1>1, <1>4, <2>1, Zenon DEF Shape
  <2> QED
    BY <1>1, <1>9, <1>10, <2>1, <2>2, <2>3, PathOf, Zenon DEF Path
<1>13. ASSUME NEW e \in Conns, e # c PROVE Path(e)'
  BY <1>1, <1>5, <1>13, PathQuiet, Zenon DEF PathInv, PathTypes
<1> QED
  BY <1>11, <1>12, <1>13, Zenon DEF PathInv

\* The held response joins the channel, or is dropped when the reader ends.
LEMMA PathReader ==
  ASSUME PathInv, NEW c \in Conns, readerFreed(c) \/ readerEnds(c)
  PROVE  PathInv'
<1> DEFINE more == responses[c] \o held[c]
           front == join(writing[c], responses[c], << >>)
<1>1. /\ UNCHANGED <<now, fwd, sent, arrived, writing, got>>
      /\ held' = [held EXCEPT ![c] = << >>] /\ reader[c] \in {"run", "full"}
  BY Zenon DEF readerFreed, readerEnds, netVars, streamVars
<1>2. \/ responses' = [responses EXCEPT ![c] = more] /\ reader' = [reader EXCEPT ![c] = "run"]
      \/ responses' = responses /\ reader' = [reader EXCEPT ![c] = "done"]
  BY Zenon DEF readerFreed, readerEnds
<1>3. more \in Responses /\ << >> \in Responses
  BY PathOf, QueueTypes, SmallQueues, Zenon
<1>4. join(writing[c], more, << >>) = pipe(c)
  BY PathOf, JoinFreed, Zenon DEF pipe
<1>5. front \in Responses /\ Len(front) <= Len(pipe(c)) /\ \A i \in 1..Len(front) : front[i] = pipe(c)[i]
  <2>1. writing[c] \in Responses /\ responses[c] \in Responses /\ held[c] \in Responses
    BY PathOf, Zenon
  <2>2. front \in Responses
    BY <1>3, <2>1, JoinType, Zenon
  <2> QED
    BY <2>1, <2>2, JoinEnds, Zenon DEF pipe
<1> HIDE DEF more, front
<1>6. /\ InOrder(arrived[c], front, got[c].req, sent[c]) /\ Stamped(front, now, Waits)
      /\ OnTime(pipe(c), now, got[c].at, Waits) => OnTime(front, now, got[c].at, Waits)
  BY <1>5, PathOf, FrontKeeps, FrontOnTime, Zenon DEF Path
<1>7. PathTypes'
  <2>1. responses' \in [Conns -> Responses]
    BY <1>2, <1>3, Zenon DEF PathInv, PathTypes
  <2>2. held' \in [Conns -> Responses]
    BY <1>1, <1>3, Zenon DEF PathInv, PathTypes
  <2>3. reader' \in [Conns -> {"off", "run", "full", "done"}]
    BY <1>2, Zenon DEF PathInv, PathTypes
  <2> QED
    BY <1>1, <2>1, <2>2, <2>3, Zenon DEF PathInv, PathTypes
<1>8. Path(c)'
  <2>1. /\ held'[c] = << >> /\ reader'[c] \in {"run", "done"}
        /\ responses'[c] = more \/ responses'[c] = responses[c]
    BY <1>1, <1>2, Zenon DEF PathInv, PathTypes
  <2>2. pipe(c)' = pipe(c) \/ pipe(c)' = front
    BY <1>1, <1>4, <2>1, Zenon DEF pipe, front
  <2>3. Shape(c)'
    BY <1>1, <2>1, PathOf, Zenon DEF Path, Shape
  <2> QED
    BY <1>1, <1>6, <2>2, <2>3, PathOf, Zenon DEF Path
<1>9. ASSUME NEW e \in Conns, e # c PROVE Path(e)'
  BY <1>1, <1>2, <1>9, PathQuiet, Zenon DEF PathInv, PathTypes
<1> QED
  BY <1>7, <1>8, <1>9, Zenon DEF PathInv

\* forward takes the head of the channel to wait for it.
LEMMA PathTake ==
  ASSUME PathInv, NEW c \in Conns, takeResponse(c)
  PROVE  PathInv'
<1> DEFINE one == <<Head(responses[c])>>
           less == Tail(responses[c])
<1>1. /\ writing[c] = << >> /\ responses[c] # << >> /\ fwd[c] = "serve"
      /\ writing' = [writing EXCEPT ![c] = one]
      /\ responses' = [responses EXCEPT ![c] = less]
      /\ UNCHANGED <<now, fwd, sent, arrived, reader, held, got>>
  BY Zenon DEF takeResponse, netVars, streamVars
<1>2. one \in Responses /\ Short(one) /\ less \in Responses
  BY <1>1, PathOf, QueueTypes, SmallQueues, Zenon
<1>3. join(one, less, held[c]) = pipe(c)
  BY <1>1, PathOf, JoinTake, Zenon DEF pipe
<1> HIDE DEF one, less
<1>4. PathTypes'
  BY <1>1, <1>2, Zenon DEF PathInv, PathTypes
<1>5. Path(c)'
  <2>1. writing'[c] = one /\ responses'[c] = less
    BY <1>1, Zenon DEF PathInv, PathTypes
  <2>2. pipe(c)' = pipe(c)
    BY <1>1, <1>3, <2>1, Zenon DEF pipe
  <2>3. Shape(c)'
    BY <1>1, <1>2, <2>1, PathOf, Zenon DEF Path, Shape
  <2> QED
    BY <1>1, <2>2, <2>3, PathOf, Zenon DEF Path
<1>6. ASSUME NEW e \in Conns, e # c PROVE Path(e)'
  BY <1>1, <1>6, PathQuiet, Zenon DEF PathInv, PathTypes
<1> QED
  BY <1>4, <1>5, <1>6, Zenon DEF PathInv

\* What a write does: the head of the queue, which is due, is written.
LEMMA WriteHead ==
  ASSUME PathInv, NEW c \in Conns, writeResponse(c)
  PROVE  /\ pipe(c) # << >> /\ Head(writing[c]) = Head(pipe(c)) /\ fwd[c] = "serve"
         /\ writing[c] # << >> /\ now >= Head(pipe(c)).due
         /\ got' = [got EXCEPT ![c] = [req |-> Head(pipe(c)).req,
                                      ready |-> Head(pipe(c)).at + Head(pipe(c)).wait, at |-> now]]
         /\ writing' = [writing EXCEPT ![c] = << >>]
         /\ UNCHANGED <<now, fwd, sent, arrived, reader, held, responses>>
<1>1. writing[c] # << >>
  BY Zenon DEF writeResponse
<1>2. pipe(c) # << >> /\ Head(writing[c]) = Head(pipe(c))
  <2>1. writing[c] \in Responses /\ responses[c] \in Responses /\ held[c] \in Responses
    BY PathOf, Zenon
  <2> QED
    BY <1>1, <2>1, JoinHead, Zenon DEF pipe
<1> QED
  BY <1>1, <1>2, Zenon DEF writeResponse, netVars, streamVars

\* The head of the queue is written to the client.
LEMMA PathWrite ==
  ASSUME PathInv, NEW c \in Conns, writeResponse(c)
  PROVE  PathInv'
<1> DEFINE h == Head(pipe(c))
           less == Tail(pipe(c))
           g == [req |-> h.req, ready |-> h.at + h.wait, at |-> now]
<1>1. /\ pipe(c) # << >> /\ fwd[c] = "serve" /\ writing[c] # << >>
      /\ got' = [got EXCEPT ![c] = g] /\ writing' = [writing EXCEPT ![c] = << >>]
      /\ UNCHANGED <<now, fwd, sent, arrived, reader, held, responses>>
  BY WriteHead, Zenon
<1>2. g \in [req : Nat, ready : Nat, at : Nat] /\ g.req = h.req /\ g.at = now
  <2>1. h \in Response
    BY <1>1, PathOf, QueueTypes, Zenon
  <2>2. h.req \in Nat /\ h.at + h.wait \in Nat /\ now \in Nat
    BY <2>1, Fields, PathOf
  <2> QED
    BY <2>2, Zenon
<1>3. << >> \in Responses /\ Short(<< >>)
  BY SmallQueues, Zenon
<1>4. join(<< >>, responses[c], held[c]) = less
  <2>1. writing[c] \in Responses /\ responses[c] \in Responses /\ held[c] \in Responses
    BY PathOf, Zenon
  <2>2. Short(writing[c])
    BY PathOf, Zenon DEF Path, Shape
  <2> QED
    BY <1>1, <2>1, <2>2, JoinWrite, Zenon DEF pipe
<1>5. InOrder(arrived[c], less, h.req, sent[c])
  BY <1>1, PathOf, OrderWrite, Zenon DEF Path
<1>6. Stamped(less, now, Waits) /\ OnTime(less, now, now, Waits)
  BY <1>1, PathOf, TimeWrite, Zenon DEF Path
<1> HIDE DEF h, less, g
<1>7. PathTypes'
  <2>1. got' \in [Conns -> [req : Nat, ready : Nat, at : Nat]]
    BY <1>1, <1>2, Zenon DEF PathInv, PathTypes
  <2>2. writing' \in [Conns -> Responses]
    BY <1>1, <1>3, Zenon DEF PathInv, PathTypes
  <2> QED
    BY <1>1, <2>1, <2>2, Zenon DEF PathInv, PathTypes
<1>8. Path(c)'
  <2>1. writing'[c] = << >> /\ got'[c] = g
    BY <1>1, Zenon DEF PathInv, PathTypes
  <2>2. pipe(c)' = less
    BY <1>1, <1>4, <2>1, Zenon DEF pipe
  <2>3. Shape(c)'
    BY <1>1, <1>3, <2>1, PathOf, Zenon DEF Path, Shape
  <2> QED
    BY <1>1, <1>2, <1>5, <1>6, <2>1, <2>2, <2>3, Zenon DEF Path
<1>9. ASSUME NEW e \in Conns, e # c PROVE Path(e)'
  BY <1>1, <1>9, PathQuiet, Zenon DEF PathInv, PathTypes
<1> QED
  BY <1>7, <1>8, <1>9, Zenon DEF PathInv

\* A forward begins, starts its goroutines or ends: the queue is empty before it
\* serves, and of no interest to the client after.
LEMMA PathForward ==
  ASSUME PathInv, NEW c \in Conns,
         (\E a \in listeners : accept(c, a)) \/ adopt(c) \/ forwardEnds(c)
  PROVE  PathInv'
<1>1. UNCHANGED <<now, sent, arrived, held, responses, writing, got>>
  BY Zenon DEF accept, adopt, forwardEnds, pathVars, streamVars
<1>2. \/ fwd[c] = "none" /\ fwd' = [fwd EXCEPT ![c] = "dial"] /\ reader' = reader
      \/ /\ fwd[c] = "dial"
         /\ \E x \in {"serve", "unwind"} : fwd' = [fwd EXCEPT ![c] = x]
         /\ \E x \in {"run", "done"} : reader' = [reader EXCEPT ![c] = x]
      \/ fwd' = [fwd EXCEPT ![c] = "unwind"] /\ reader' = reader
  BY Zenon DEF accept, adopt, forwardEnds, pathVars
<1>3. PathTypes'
  <2>1. fwd' \in [Conns -> {"none", "dial", "serve", "unwind"}]
    BY <1>2, Zenon DEF PathInv, PathTypes
  <2>2. reader' \in [Conns -> {"off", "run", "full", "done"}]
    BY <1>2, Zenon DEF PathInv, PathTypes
  <2> QED
    BY <1>1, <2>1, <2>2, Zenon DEF PathInv, PathTypes
<1>4. Path(c)'
  <2>1. \/ fwd[c] = "none" /\ fwd'[c] = "dial" /\ reader'[c] = reader[c]
        \/ fwd[c] = "dial" /\ fwd'[c] \in {"serve", "unwind"} /\ reader'[c] \in {"run", "done"}
        \/ fwd'[c] = "unwind" /\ reader'[c] = reader[c]
    BY <1>2, Zenon DEF PathInv, PathTypes
  <2>2. pipe(c)' = pipe(c)
    BY <1>1, Zenon DEF pipe
  <2>3. Shape(c)'
    BY <1>1, <2>1, PathOf, Zenon DEF Path, Shape
  <2> QED
    BY <1>1, <2>1, <2>2, <2>3, PathOf, Zenon DEF Path
<1>5. ASSUME NEW e \in Conns, e # c PROVE Path(e)'
  BY <1>1, <1>2, <1>5, PathQuiet, Zenon DEF PathInv, PathTypes
<1> QED
  BY <1>3, <1>4, <1>5, Zenon DEF PathInv

\* A forward returns and its slot is empty.
LEMMA PathReturn ==
  ASSUME PathInv, NEW c \in Conns, forwardReturns(c)
  PROVE  PathInv'
<1>1. /\ now' = now
      /\ fwd' = [fwd EXCEPT ![c] = "none"] /\ reader' = [reader EXCEPT ![c] = "off"]
      /\ sent' = [sent EXCEPT ![c] = 0] /\ arrived' = [arrived EXCEPT ![c] = << >>]
      /\ held' = [held EXCEPT ![c] = << >>] /\ responses' = [responses EXCEPT ![c] = << >>]
      /\ writing' = [writing EXCEPT ![c] = << >>] /\ got' = [got EXCEPT ![c] = NoAnswer]
  BY Zenon DEF forwardReturns
<1>2. /\ NoAnswer \in [req : Nat, ready : Nat, at : Nat] /\ NoAnswer.req = 0
      /\ << >> \in Responses /\ << >> \in RequestNos /\ Short(<< >>)
      /\ join(<< >>, << >>, << >>) = << >>
  BY SmallQueues DEF NoAnswer, RequestNos
<1>3. PathTypes'
  BY <1>1, <1>2, Zenon DEF PathInv, PathTypes
<1>4. Path(c)'
  <2>1. /\ fwd'[c] = "none" /\ reader'[c] = "off" /\ sent'[c] = 0 /\ arrived'[c] = << >>
        /\ held'[c] = << >> /\ responses'[c] = << >> /\ writing'[c] = << >> /\ got'[c] = NoAnswer
    BY <1>1, Zenon DEF PathInv, PathTypes
  <2>2. pipe(c)' = << >>
    BY <1>2, <2>1, Zenon DEF pipe
  <2>3. Shape(c)'
    BY <1>2, <2>1, Zenon DEF Shape
  <2> QED
    BY <1>1, <1>2, <2>1, <2>2, <2>3, EmptyPath DEF Path
<1>5. ASSUME NEW e \in Conns, e # c PROVE Path(e)'
  BY <1>1, <1>5, PathQuiet, ZenonT(40) DEF PathInv, PathTypes
<1> QED
  BY <1>3, <1>4, <1>5, Zenon DEF PathInv

\* While no connection has an answer to move, what forward waits for is not due,
\* and nothing waits without forward.
LEMMA NotDue ==
  ASSUME PathInv, NEW c \in Conns, ~busy(c), fwd[c] # "unwind", pipe(c) # << >>
  PROVE  now < Head(pipe(c)).due
<1>1. writing[c] \in Responses /\ responses[c] \in Responses /\ held[c] \in Responses /\ Path(c)
  BY PathOf, Zenon
<1>2. writing[c] # << >> \/ responses[c] # << >> \/ held[c] # << >>
  BY SmallQueues, Zenon DEF pipe
<1>3. held[c] # << >> => reader[c] = "full"
  BY <1>1, Zenon DEF Path, Shape
<1>4. fwd[c] = "serve"
  BY <1>1, <1>2, <1>3, ZenonT(40) DEF Path, Shape, PathInv, PathTypes
<1>5. responses[c] = << >> => Len(responses[c]) < QueueCap
  BY ProxyAssumption
<1>6. writing[c] # << >>
  BY <1>2, <1>3, <1>4, <1>5, Zenon DEF busy
<1>7. ~(now >= Head(writing[c]).due)
  BY <1>4, <1>6, Zenon DEF busy
<1>8. Head(writing[c]).due \in Nat
  BY <1>1, <1>6, QueueTypes, Fields, Zenon
<1>9. Head(pipe(c)) = Head(writing[c])
  BY <1>1, <1>6, JoinHead, Zenon DEF pipe
<1> QED
  BY <1>7, <1>8, <1>9, PathOf

\* Time passes only while no connection has an answer to move.
LEMMA PathTick ==
  ASSUME PathInv, tick
  PROVE  PathInv'
<1>1. /\ now' = now + 1
      /\ UNCHANGED <<fwd, sent, arrived, reader, held, responses, writing, got>>
  BY Zenon DEF tick, proxyVars, streamVars, pathVars
<1>2. PathTypes'
  BY <1>1 DEF PathInv, PathTypes
<1>3. ASSUME NEW c \in Conns PROVE Path(c)'
  <2>1. pipe(c)' = pipe(c) /\ Shape(c)' = Shape(c)
    BY <1>1, Zenon DEF pipe, Shape
  <2>2. fwd[c] # "unwind" /\ pipe(c) # << >> => now < Head(pipe(c)).due
    BY <1>3, NotDue, Zenon DEF tick
  <2>3. /\ Stamped(pipe(c), now + 1, Waits)
        /\ (pipe(c) # << >> => now < Head(pipe(c)).due) => \A w : OnTime(pipe(c), now + 1, w, Waits)
    BY PathOf, WaitsType, TimePasses, Zenon DEF Path
  <2> QED
    BY <1>1, <2>1, <2>2, <2>3, PathOf, Zenon DEF Path
<1> QED
  BY <1>2, <1>3, Zenon DEF PathInv

\* The steps of a run that move an answer, and those that leave the answers alone.
LEMMA PathFrame ==
  ASSUME [Next]_vars
  PROVE  \/ tick
         \/ \E c \in Conns :
              \/ \E a \in listeners : accept(c, a)
              \/ copyRequest(c) \/ adopt(c) \/ answerDropped(c) \/ readAnswer(c) \/ readerFreed(c)
              \/ readerEnds(c) \/ takeResponse(c) \/ writeResponse(c) \/ forwardEnds(c)
              \/ forwardReturns(c)
         \/ UNCHANGED <<now, fwd, sent, arrived, reader, held, responses, writing, got, recovered>>
<1> USE DEF proxyVars, streamVars, pathVars
<1>1. CASE run
  BY <1>1, Zenon DEF run, build, setupFails, startObserving, observeReturns, joinPhases, judge,
     closeClients, closeProxy, closeNetworks, closeClusters, netVars
<1>2. CASE phases
  BY <1>2, Zenon DEF phases, phaseStep, beginPhase, phasesEnd, applyOp
<1>3. CASE samplerEnds \/ cancelRun
  BY <1>3, Zenon DEF samplerEnds, cancelRun, netVars
<1>4. CASE \E e \in Events : runScenarioEvent(e) \/ callback(e)
  BY <1>4, ZenonT(40) DEF runScenarioEvent, fire, skip, record, eventReturns, callback, restOfEvents, netVars
<1>5. ASSUME NEW c \in Conns, dial(c) \/ copierEnds(c)
      PROVE  UNCHANGED <<now, fwd, sent, arrived, reader, held, responses, writing, got, recovered>>
  BY <1>5, Zenon DEF dial, copierEnds, restOfProxy
<1>6. ASSUME NEW c \in Conns, drain(c) \/ hangUp(c)
      PROVE  UNCHANGED <<now, fwd, sent, arrived, reader, held, responses, writing, got, recovered>>
  BY <1>6, Zenon DEF drain, hangUp, netVars, restOfProxy
<1>7. CASE UNCHANGED vars
  BY <1>7, Zenon DEF vars, netVars
<1> QED
  BY <1>1, <1>2, <1>3, <1>4, <1>5, <1>6, <1>7, Zenon DEF Next, progress, proxyStep, connStep, clientStep

\* PathInv is inductive.
LEMMA PathStep ==
  ASSUME PathInv, [Next]_vars
  PROVE  PathInv'
<1>1. CASE UNCHANGED <<now, fwd, sent, arrived, reader, held, responses, writing, got>>
  BY <1>1, PathQuiet, Zenon DEF PathInv, PathTypes
<1> QED
  BY <1>1, PathFrame, PathTick, PathForward, PathCopy, PathDrop, PathRead, PathReader, PathTake,
     PathWrite, PathReturn, Zenon

-----------------------------------------------------------------------------
(***************************************************************************)
(* What follows for every behaviour.                                       *)
(***************************************************************************)
\* The steps of a run by what they do to the recovery count: startObserving sets
\* its start, the phases restore brokers, and only a write adds to it.
LEMMA RecoveryFrame ==
  ASSUME [Next]_vars
  PROVE  \/ startObserving
         \/ phases
         \/ /\ UNCHANGED <<phasePc, script, phase, restored, recoveryStart>>
            /\ UNCHANGED recovered \/ \E c \in Conns : writeResponse(c)
<1> USE DEF netVars, faultVars, phaseVars, proxyVars, restOfProxy
<1>1. CASE run
  BY <1>1, Zenon DEF run, build, setupFails, observeReturns, joinPhases, judge, closeClients, closeProxy,
     closeNetworks, closeClusters
<1>2. CASE samplerEnds \/ tick \/ cancelRun
  BY <1>2, Zenon DEF samplerEnds, tick, cancelRun
<1>3. CASE \E e \in Events : runScenarioEvent(e) \/ callback(e)
  BY <1>3, ZenonT(40) DEF runScenarioEvent, fire, skip, record, eventReturns, callback, restOfEvents
<1>4. ASSUME NEW c \in Conns, connStep(c)
      PROVE  /\ UNCHANGED <<phasePc, script, phase, restored, recoveryStart>>
             /\ UNCHANGED recovered \/ writeResponse(c)
  <2>1. CASE dial(c) \/ adopt(c) \/ copierEnds(c) \/ answerDropped(c)
    BY <2>1, Zenon DEF dial, adopt, copierEnds, answerDropped
  <2>2. CASE readAnswer(c) \/ readerFreed(c) \/ readerEnds(c) \/ takeResponse(c)
    BY <2>2, Zenon DEF readAnswer, readerFreed, readerEnds, takeResponse
  <2>3. CASE writeResponse(c)
    BY <2>3, Zenon DEF writeResponse
  <2>4. CASE forwardEnds(c) \/ forwardReturns(c)
    BY <2>4, Zenon DEF forwardEnds, forwardReturns
  <2> QED
    BY <1>4, <2>1, <2>2, <2>3, <2>4, Zenon DEF connStep
<1>5. CASE \E c \in Conns : drain(c) \/ clientStep(c)
  BY <1>5, ZenonT(40) DEF drain, clientStep, accept, copyRequest, hangUp
<1>6. CASE UNCHANGED vars
  BY <1>6, Zenon DEF vars
<1> QED
  BY <1>1, <1>2, <1>3, <1>4, <1>5, <1>6, Zenon DEF Next, progress, proxyStep

\* A response written at recoveryFrom or later was read after the last phase:
\* its place in the queue bounds how long ago that was.
LEMMA WrittenIsRecent ==
  ASSUME PathInv, RecoveryInv, NEW c \in Conns, writeResponse(c), now >= RecoveryFrom,
         NEW i \in 1..Len(script)
  PROVE  Head(writing[c]).at >= script[i].at
<1>1. pipe(c) # << >> /\ Head(writing[c]) = Head(pipe(c)) /\ fwd[c] = "serve"
  BY WriteHead, Zenon
<1>2. pipe(c) \in Responses /\ now \in Nat /\ Stamped(pipe(c), now, Waits)
      /\ OnTime(pipe(c), now, got[c].at, Waits)
  BY <1>1, PathOf, Zenon DEF Path
<1>3. Head(pipe(c)) \in Response /\ \E x \in Waits : Head(pipe(c)).at + x >= now
  BY <1>1, <1>2, TimeHead, Zenon
<1>4. PICK d \in Delays : Head(pipe(c)).at + served(d) >= now
  BY <1>3, Zenon DEF Waits
<1>5. script \in Scripts /\ script \in Seq([at : Nat, node : Nodes, action : Actions])
  BY NetworkAssumption, Zenon DEF RecoveryInv
<1>6. script[i].at \in Nat
  <2> DEFINE P == [at : Nat, node : Nodes, action : Actions]
  <2>1. script[i] \in P
    <3> HIDE DEF P
    <3>1. script \in Seq(P)
      BY <1>5, Zenon DEF P
    <3> QED
      BY <3>1
  <2> QED
    BY <2>1, Zenon
<1>7. RecoveryFrom > script[i].at + served(d)
  BY <1>5, RecoveryAssumption
<1>8. served(d) \in Nat /\ RecoveryFrom \in Nat /\ Head(pipe(c)).at \in Nat
  BY <1>3, WaitsType, RecoveryAssumption, Fields, ZenonT(40) DEF Waits
<1>9. Head(pipe(c)).at >= script[i].at
  <2> DEFINE x == Head(pipe(c)).at
             y == script[i].at
             w == served(d)
  <2>1. /\ x \in Nat /\ y \in Nat /\ w \in Nat /\ now \in Nat /\ RecoveryFrom \in Nat
        /\ x + w >= now /\ RecoveryFrom > y + w /\ now >= RecoveryFrom
    BY <1>2, <1>4, <1>6, <1>7, <1>8, Zenon
  <2> HIDE DEF x, y, w
  <2>2. x >= y
    BY <2>1
  <2> QED
    BY <2>2, Zenon DEF x, y
<1> QED
  BY <1>1, <1>9, Zenon

\* RecoveryInv is inductive.
LEMMA RecoveryStep ==
  ASSUME PathInv, RecoveryInv, [Next]_vars
  PROVE  RecoveryInv'
<1>1. CASE startObserving
  BY <1>1, Zenon DEF startObserving, startPhases, RecoveryInv
<1>2. CASE phases
  <2>1. /\ phasePc = "run" /\ phasePc' \in {"run", "ok", "err"} /\ UNCHANGED script
        /\ phase' = phase \/ (phase < Len(script) /\ phase' = phase + 1)
    BY <1>2, Zenon DEF phases, phaseStep, beginPhase, phasesEnd, applyOp
  <2>3. Len(script) \in Nat
    BY NetworkAssumption DEF RecoveryInv
  <2>4. phase' \in 0..Len(script)
    BY <2>1, <2>3 DEF RecoveryInv
  <2>2. UNCHANGED <<recoveryStart, recovered>>
    BY <1>2, Zenon DEF phases, proxyVars
  <2> QED
    BY <2>1, <2>2, <2>4, Zenon DEF RecoveryInv
<1>3. CASE /\ UNCHANGED <<phasePc, script, phase, restored, recoveryStart>>
           /\ UNCHANGED recovered \/ \E c \in Conns : writeResponse(c)
  <2>1. CASE UNCHANGED recovered
    BY <1>3, <2>1, Zenon DEF RecoveryInv
  <2>2. ASSUME NEW c \in Conns, writeResponse(c), recovered' # recovered PROVE RecoveryInv'
    <3>1. /\ recovered' = recovered \cup {<<node(c), Head(writing[c]).at>>}
          /\ node(c) \in restored /\ now >= recoveryStart
      BY <2>2, Zenon DEF writeResponse, counts
    <3>2. now >= RecoveryFrom
      BY <3>1, Zenon DEF RecoveryInv
    <3>3. \A i \in 1..Len(script) : Head(writing[c]).at >= script[i].at
      BY <2>2, <3>2, WrittenIsRecent, Zenon
    <3> QED
      BY <1>3, <3>1, <3>3 DEF RecoveryInv
  <2> QED
    BY <1>3, <2>1, <2>2, Zenon
<1> QED
  BY <1>1, <1>2, <1>3, RecoveryFrame, Zenon

\* Nothing is on its way, and nothing was counted, when a run starts.
LEMMA InitPath == Init => PathInv /\ RecoveryInv
<1> SUFFICES ASSUME Init PROVE PathInv /\ RecoveryInv
  BY Zenon
<1> USE DEF Init, NetInit, ProxyInit, None1, NoAnswer
<1>1. PathTypes
  BY SmallQueues DEF PathTypes, RequestNos
<1>2. ASSUME NEW c \in Conns PROVE Path(c)
  <2>1. pipe(c) = << >>
    BY SmallQueues, Zenon DEF pipe
  <2>2. Shape(c)
    BY SmallQueues, ZenonT(40) DEF Shape
  <2> QED
    BY <2>1, <2>2, EmptyPath, Zenon DEF Path
<1>3. RecoveryInv
  BY DEF RecoveryInv
<1> QED
  BY <1>1, <1>2, <1>3, Zenon DEF PathInv

\* The queue of every connection is in order and on time in every state of every
\* run.
THEOREM PathInvariant == Spec => [](PathInv /\ RecoveryInv)
<1>1. PathInv /\ [Next]_vars => PathInv'
  BY PathStep, Zenon
<1>2. PathInv /\ RecoveryInv /\ [Next]_vars => RecoveryInv'
  BY RecoveryStep, Zenon
<1> QED
  BY <1>1, <1>2, InitPath, PTL DEF Spec

\* Clients of the proxy get their answers in the order of their requests, none
\* before its latency has passed, and none later than that except together with
\* the one before it: a latency is never added to the next one's (proxy.go,
\* forward), for any number of connections and any latencies.
THEOREM AnswersInOrderOnTimeHolds == Spec => AnswersInOrderOnTime
<1> DEFINE A == \A c \in Conns :
                  got'[c] # got[c] /\ got'[c] # NoAnswer =>
                    /\ got'[c].req > got[c].req
                    /\ got'[c].at >= got'[c].ready
                    /\ got'[c].at \in {got'[c].ready, got[c].at}
<1>1. PathInv /\ [Next]_vars => [A]_got
  <2> SUFFICES ASSUME PathInv, [Next]_vars, got' # got, NEW c \in Conns,
                      got'[c] # got[c], got'[c] # NoAnswer
               PROVE  /\ got'[c].req > got[c].req
                      /\ got'[c].at >= got'[c].ready
                      /\ got'[c].at \in {got'[c].ready, got[c].at}
    BY Zenon
  <2>1. PICK e \in Conns : writeResponse(e) \/ forwardReturns(e)
    BY PathFrame, ZenonT(40) DEF tick, proxyVars, accept, copyRequest, adopt, answerDropped, readAnswer,
       readerFreed, readerEnds, takeResponse, forwardEnds, pathVars
  <2>2. CASE forwardReturns(e)
    <3>1. got' = [got EXCEPT ![e] = NoAnswer] /\ got \in [Conns -> [req : Nat, ready : Nat, at : Nat]]
      BY <2>2, Zenon DEF forwardReturns, PathInv, PathTypes
    <3> QED
      BY <3>1, Zenon
  <2>3. CASE writeResponse(e)
    <3> DEFINE h == Head(pipe(e))
    <3>1. /\ pipe(e) # << >> /\ fwd[e] = "serve" /\ now >= h.due
          /\ got' = [got EXCEPT ![e] = [req |-> h.req, ready |-> h.at + h.wait, at |-> now]]
      BY <2>3, WriteHead, Zenon
    <3>2. pipe(e) \in Responses /\ Path(e) /\ got[e].req \in Nat /\ got[e].at \in Nat /\ now \in Nat
      BY PathOf, Zenon
    <3>3. got[e].req < h.req
      BY <3>1, <3>2, OrderWrite, PathOf, Zenon DEF Path
    <3>4. h \in Response /\ h.due = h.at + h.wait /\ (now <= h.due \/ now = got[e].at)
      BY <3>1, <3>2, TimeHead, Zenon DEF Path
    <3>5. h.req \in Nat /\ h.due \in Nat
      BY <3>4, Fields, Zenon
    <3> HIDE DEF h
    <3>6. e = c
      BY <3>1, Zenon DEF PathInv, PathTypes
    <3>7. got'[c] = [req |-> h.req, ready |-> h.due, at |-> now]
      BY <3>1, <3>4, <3>6, ZenonT(40) DEF PathInv, PathTypes
    <3>8. got'[c].req = h.req /\ got'[c].ready = h.due /\ got'[c].at = now
      BY <3>7
    <3> QED
      BY <3>1, <3>2, <3>3, <3>4, <3>5, <3>6, <3>8
  <2> QED
    BY <2>1, <2>2, <2>3, Zenon
<1> QED
  BY <1>1, PathInvariant, PTL DEF Spec, AnswersInOrderOnTime

\* What observeProduce counts as a sign of recovery was answered after the fault
\* ended, whatever was still on its way when it did.
THEOREM RecoveryIsRealHolds == Spec => []RecoveryIsReal
<1>1. RecoveryInv => RecoveryIsReal
  <2> SUFFICES ASSUME RecoveryInv, NEW x \in recovered, NEW i \in 1..phase
               PROVE  x[2] >= script[i].at
    BY Zenon DEF RecoveryIsReal
  <2>1. script \in Seq([at : Nat, node : Nodes, action : Actions]) /\ phase \in 0..Len(script)
    BY NetworkAssumption, Zenon DEF RecoveryInv
  <2>2. i \in 1..Len(script)
    BY <2>1
  <2>3. x[2] >= script[i].at
    BY <2>2, Zenon DEF RecoveryInv
  <2> QED
    BY <2>3, Zenon
<1> QED
  BY <1>1, PathInvariant, PTL

=============================================================================
