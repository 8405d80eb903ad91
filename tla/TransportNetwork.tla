-------------------------- MODULE TransportNetwork --------------------------
(***************************************************************************)
(* The faulty network between a simulated client and its brokers           *)
(* (simulation/runner: transport.go, transport_phases.go, metadata.go):    *)
(* connections that a pod kill, a healed blackhole or shutdown must cut,   *)
(* the goroutine that applies a scenario's phases, and the metadata view   *)
(* those phases republish.                                                 *)
(*                                                                         *)
(* A scenario drives two equal networks, one per client; one is modelled.  *)
(* A broker address is <<node, generation>>: a replacement pod listens on  *)
(* a new port and the old address stays registered.                        *)
(***************************************************************************)
EXTENDS Integers, Sequences, FiniteSets

CONSTANTS
  Nodes,     \* broker node IDs
  Parts,     \* partitions
  Conns,     \* calls of DialContext
  Leader0,   \* [Parts -> Nodes]: leaders of the captured metadata (template)
  ISR0,      \* [Parts -> Seq(Nodes)]: its in-sync replicas
  Scripts,   \* what sc.transportPhases may be: sequences of phases
  MaxTime,   \* bound: the clock stops here
  NoNode     \* leader -1

Actions == {"kill", "blackhole", "restore", "remove", "replace", "withdraw"}

ASSUME NetworkAssumption ==
  /\ Leader0 \in [Parts -> Nodes] /\ NoNode \notin Nodes
  /\ \A p \in Parts : Leader0[p] \in {ISR0[p][i] : i \in DOMAIN ISR0[p]}
  /\ Scripts \subseteq Seq([at : Nat, node : Nodes, action : Actions])

VARIABLES
  now,         \* the clock, from the start of the observed phase
  fault,       \* [Nodes -> {"healthy", "killed", "blackhole"}]: faults
  restored,    \* SUBSET Nodes
  netClosed,   \* closed
  brokers,     \* registered addresses
  listening,   \* addresses with a live kfake broker behind them
  conn,        \* [Conns -> {"none", "dialing", "dialed", "open", "closed"}]
  addr,        \* [Conns -> address]: what was dialed
  holed,       \* SUBSET Conns: bytes of the stream were dropped
  doomed,      \* closeConnections of setFault, connections of Close: still to close
  script,      \* sc.transportPhases
  phase,       \* phases applied or begun
  todo,        \* what is left of the current phase
  phasePc,     \* "off", "run", "ok", "err": runTransportPhases
  stopped,     \* phaseCtx canceled
  live,        \* current.Brokers
  leader,      \* [Parts -> Nodes \cup {NoNode}]: current.Topics
  epoch,       \* [Parts -> Nat]: LeaderEpoch
  published    \* history: every (partition, epoch, leader) a view carried

faultVars == <<fault, restored, brokers, listening>>
connVars == <<conn, addr, holed, doomed, netClosed>>
viewVars == <<live, leader, epoch, published>>
phaseVars == <<script, phase, todo, phasePc, stopped>>
netVars == <<now, faultVars, connVars, viewVars, phaseVars>>

Published(ld, ep) == {<<p, ep[p], ld[p]>> : p \in Parts}

NetInit ==
  /\ now = 0
  /\ fault = [n \in Nodes |-> "healthy"]
  /\ restored = {}
  /\ netClosed = FALSE
  /\ brokers = Nodes \X {0}
  /\ listening = Nodes \X {0}
  /\ conn = [c \in Conns |-> "none"]
  /\ addr = [c \in Conns |-> <<NoNode, 0>>]
  /\ holed = {}
  /\ doomed = {}
  /\ script \in Scripts
  /\ phase = 0
  /\ todo = << >>
  /\ phasePc = "off"
  /\ stopped = FALSE
  /\ live = Nodes \X {0}
  /\ leader = Leader0
  /\ epoch = [p \in Parts |-> 0]
  /\ published = Published(Leader0, [p \in Parts |-> 0])

-----------------------------------------------------------------------------
(***************************************************************************)
(* DialContext: a check under mu, the raw dial without it, a second check. *)
(***************************************************************************)
node(c) == addr[c][1]

\* A dial to a is refused: closed, unknown or killed.
refused(a) == netClosed \/ a \notin brokers \/ fault[a[1]] = "killed"

dialCheck(c, a) ==
  /\ conn[c] = "none"
  /\ addr' = [addr EXCEPT ![c] = a]
  /\ conn' = [conn EXCEPT ![c] = IF refused(a) THEN "closed" ELSE "dialing"]
  /\ UNCHANGED <<holed, doomed, netClosed>>

\* n.dial: a killed pod still accepts, a removed one does not.
rawDial(c) ==
  /\ conn[c] = "dialing"
  /\ conn' = [conn EXCEPT ![c] = IF addr[c] \in listening THEN "dialed" ELSE "closed"]
  /\ UNCHANGED <<addr, holed, doomed, netClosed>>

\* Mutant: no check after the raw dial.
admit_always(c) ==
  /\ conn[c] = "dialed"
  /\ conn' = [conn EXCEPT ![c] = "open"]
  /\ UNCHANGED <<addr, holed, doomed, netClosed>>

\* The second check, and the connection joins n.connections.
admit(c) ==
  /\ conn[c] = "dialed"
  /\ conn' = [conn EXCEPT ![c] = IF netClosed \/ fault[node(c)] = "killed"
                                 THEN "closed" ELSE "open"]
  /\ UNCHANGED <<addr, holed, doomed, netClosed>>

\* transportConnection.Close of every connection of S; once.Do makes it idempotent.
closeConns(S) ==
  /\ conn' = [c \in Conns |-> IF c \in S THEN "closed" ELSE conn[c]]
  /\ doomed' = doomed \ S

\* The loops over closeConnections and connections, one connection at a time.
closeDoomed(c) ==
  /\ c \in doomed
  /\ closeConns({c})
  /\ UNCHANGED <<addr, holed, netClosed>>

\* drop: the bytes a copy loop has read vanish when the pod is blackholed.
dropped(c) == fault[node(c)] = "blackhole"

\* The network's Close takes the connections to close.
closeNetwork ==
  /\ netClosed' = TRUE
  /\ doomed' = doomed \cup {c \in Conns : conn[c] = "open"}
  /\ UNCHANGED <<conn, addr, holed>>

-----------------------------------------------------------------------------
(***************************************************************************)
(* Faults and the metadata view.                                           *)
(***************************************************************************)
\* Mutant: a healed blackhole keeps its connections.
cut_onlyKill(n, f) == f = "killed"

\* The connections of n are cut: a kill, or a blackhole that heals.
cut(n, f) == f = "killed" \/ (fault[n] = "blackhole" /\ f = "healthy")

setFault(n, f) ==
  /\ fault' = [fault EXCEPT ![n] = f]
  /\ restored' = restored \cup (IF f = "healthy" /\ fault[n] # "healthy" THEN {n} ELSE {})
  /\ doomed' = doomed \cup {c \in Conns : conn[c] = "open" /\ node(c) = n /\ cut(n, f)}
  /\ UNCHANGED <<conn, addr, holed, netClosed>>

members(S) == {a[1] : a \in S}
without(n) == {a \in live : a[1] # n}

\* withdrawBroker: discovery drops the pod, assignments still name it.
withdrawBroker(n) ==
  /\ live' = without(n)
  /\ UNCHANGED <<leader, epoch, published>>

\* Mutant: rebuilt from the previous assignments.
leaderAmong_prev(p, L) ==
  IF leader[p] \in L THEN leader[p]
  ELSE LET isr == SelectSeq(ISR0[p], LAMBDA r : r \in L)
       IN  IF isr = << >> THEN NoNode ELSE Head(isr)

\* The captured leader when it is a member, else the first in-sync member.
leaderAmong(p, L) ==
  IF Leader0[p] \in L THEN Leader0[p]
  ELSE LET isr == SelectSeq(ISR0[p], LAMBDA r : r \in L)
       IN  IF isr = << >> THEN NoNode ELSE Head(isr)

\* Mutant: the captured epoch is not carried along.
nextEpoch_template(p, ld) == IF ld = leader[p] THEN 0 ELSE 1

\* LeaderEpoch of the previous view, one more when the leader changed.
nextEpoch(p, ld) == IF ld = leader[p] THEN epoch[p] ELSE epoch[p] + 1

\* updateBroker: node n is at the addresses A (none or one).
updateBroker(n, A) ==
  LET next == without(n) \cup A
      ld == [p \in Parts |-> leaderAmong(p, members(next))]
      ep == [p \in Parts |-> nextEpoch(p, ld[p])]
  IN  /\ live' = next
      /\ leader' = ld
      /\ epoch' = ep
      /\ published' = published \cup Published(ld, ep)

-----------------------------------------------------------------------------
(***************************************************************************)
(* runTransportPhases and applyTransportPhase.                             *)
(***************************************************************************)
opsOf(action) ==
  CASE action = "kill"      -> <<"killed", "drain">>
    [] action = "blackhole" -> <<"blackhole">>
    [] action = "restore"   -> <<"healthy", "drain">>
    [] action = "remove"    -> <<"killed", "drain", "removeNode", "dropMember">>
    [] action = "withdraw"  -> <<"killed", "drain", "removeNode", "withdrawMember">>
    [] action = "replace"   -> <<"addNode", "register", "healthy", "drain", "addMember">>

\* The port the replacement of node n gets.
newAddr(n) == <<n, Cardinality({a \in brokers : a[1] = n})>>

startPhases ==
  /\ phasePc' = "run"
  /\ UNCHANGED <<script, phase, todo, stopped>>

\* The next phase is due.  An ended ctx may go unnoticed: it is looked at before
\* the wait, and is one case of the select that waits.
beginPhase ==
  /\ phasePc = "run" /\ todo = << >> /\ phase < Len(script)
  /\ now >= script[phase + 1].at
  /\ phase' = phase + 1
  /\ todo' = opsOf(script[phase + 1].action)
  /\ UNCHANGED <<now, faultVars, connVars, viewVars, script, phasePc, stopped>>

phasesEnd ==
  /\ phasePc = "run" /\ todo = << >>
  /\ \/ phase = Len(script) /\ phasePc' = "ok"
     \/ phase < Len(script) /\ stopped /\ phasePc' = "err"
  /\ UNCHANGED <<now, faultVars, connVars, viewVars, script, phase, todo, stopped>>

\* One call of applyTransportPhase.  A broker that cannot be added or removed
\* fails the phase.
applyOp ==
  LET n == script[phase].node
      op == Head(todo)
  IN
  /\ phasePc = "run" /\ todo # << >>
  /\ todo' = Tail(todo)
  /\ \/ /\ op \in {"killed", "blackhole", "healthy"} /\ setFault(n, op)
        /\ UNCHANGED <<brokers, listening, viewVars, phasePc>>
     \/ /\ op = "drain" /\ doomed = {}
        /\ UNCHANGED <<faultVars, connVars, viewVars, phasePc>>
     \/ /\ op = "removeNode"
        /\ listening' = {a \in listening : a[1] # n}
        /\ UNCHANGED <<fault, restored, brokers, connVars, viewVars, phasePc>>
     \/ /\ op = "addNode"
        /\ listening' = listening \cup {newAddr(n)}
        /\ UNCHANGED <<fault, restored, brokers, connVars, viewVars, phasePc>>
     \/ /\ op = "register"
        /\ brokers' = brokers \cup {newAddr(n)}
        /\ UNCHANGED <<fault, restored, listening, connVars, viewVars, phasePc>>
     \/ /\ op = "withdrawMember" /\ withdrawBroker(n)
        /\ UNCHANGED <<faultVars, connVars, phasePc>>
     \/ /\ op = "dropMember" /\ updateBroker(n, {})
        /\ UNCHANGED <<faultVars, connVars, phasePc>>
     \/ /\ op = "addMember" /\ updateBroker(n, {a \in listening : a[1] = n})
        /\ UNCHANGED <<faultVars, connVars, phasePc>>
     \/ /\ op \in {"removeNode", "addNode"} /\ phasePc' = "err"
        /\ UNCHANGED <<faultVars, connVars, viewVars>>
  /\ UNCHANGED <<now, script, phase, stopped>>

phaseStep == beginPhase \/ phasesEnd \/ applyOp

-----------------------------------------------------------------------------
\* What is cut stays cut: no connection outlives the kill of its pod, the end of
\* the blackhole that swallowed some of its bytes, or the network, except while
\* the loop that closes it is still under way; a dial that began before is no
\* way around it (DialContext: "must not escape shutdown or a pod kill").
CutStaysCut ==
  \A c \in Conns :
    conn[c] = "open" /\ \/ netClosed
                        \/ fault[node(c)] = "killed"
                        \/ c \in holed /\ ~dropped(c)
    => c \in doomed

\* Whatever order brokers leave and come back in, once all are members again the
\* captured leaders lead, and on the way no epoch of a partition ever named two
\* leaders: a client may trust the higher epoch.
AssignmentsConverge ==
  /\ members(live) = Nodes => leader = Leader0
  /\ \A x, y \in published : x[1] = y[1] /\ x[2] = y[2] => x[3] = y[3]
=============================================================================
