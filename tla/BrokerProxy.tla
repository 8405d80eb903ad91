----------------------------- MODULE BrokerProxy -----------------------------
(***************************************************************************)
(* The TCP proxy between a Mimir process and the fake brokers              *)
(* (simulation/mimir/proxy.go): a listener per broker address, and per     *)
(* accepted connection three goroutines.  One copies requests to the       *)
(* broker, one reads answers and works out when each is due, and forward   *)
(* itself writes them to the client when they are.                         *)
(*                                                                         *)
(* A forward uses one connection of TransportNetwork; the slot of one that *)
(* has returned is used again.  Requests are numbered per connection in    *)
(* the order they are sent; frames are whole, and a broker answers when    *)
(* the proxy is ready to read.                                             *)
(***************************************************************************)
EXTENDS TransportNetwork

CONSTANTS
  RequestSeqs,  \* subset of Seq({"metadata", "produce"}): what a client may send
  Delays,     \* latencies cfg.ProduceLatency may draw
  Timeout,    \* the Produce requests' broker timeout, enforced
  QueueCap,   \* capacity of responses (64)
  MaxDials    \* bound: connections the client opens

ASSUME ProxyAssumption ==
  /\ Delays \subseteq Nat /\ Delays # {}
  /\ Timeout \in Nat /\ QueueCap \in Nat \ {0}

VARIABLES
  requests,       \* [Conns -> RequestSeqs]: what the client sends
  proxyClosed,    \* closed, and ctx canceled
  listeners,      \* addresses with a listener
  dials,          \* connections accepted so far
  fwd,            \* [Conns -> {"none", "dial", "serve", "unwind"}]: forward
  client,         \* [Conns -> BOOLEAN]: the client's socket is open
  sent,           \* [Conns -> Nat]: requests copied to the broker's side
  arrived,        \* [Conns -> Seq(Nat)]: requests the broker has not answered
  copier,         \* [Conns -> {"off", "run", "done"}]: the request goroutine
  reader,         \* [Conns -> {"off", "run", "full", "done"}]: the response goroutine
  held,           \* [Conns -> Seq(response)]: what a full reader wants to send
  responses,      \* [Conns -> Seq(response)]: the channel
  writing,        \* [Conns -> Seq(response)]: what forward waits to write
  got,            \* [Conns -> [req, ready, at]]: what the client was written last, and when
  recoveryStart,  \* network.recoveryStart
  recovered       \* history: <<node, time answered>> of what recoveredResponses counts

streamVars == <<sent, arrived>>
pathVars == <<reader, held, responses, writing, got>>
proxyVars == <<requests, proxyClosed, listeners, dials, fwd, client, streamVars, copier, pathVars,
               recoveryStart, recovered>>
restOfProxy == <<requests, proxyClosed, listeners, dials, recoveryStart, recovered>>

NoAnswer == [req |-> 0, ready |-> 0, at |-> 0]
None1 == [c \in Conns |-> << >>]

ProxyInit ==
  /\ requests \in [Conns -> RequestSeqs]
  /\ proxyClosed = FALSE
  /\ listeners = {}
  /\ dials = 0
  /\ fwd = [c \in Conns |-> "none"]
  /\ client = [c \in Conns |-> FALSE]
  /\ sent = [c \in Conns |-> 0]
  /\ arrived = None1
  /\ copier = [c \in Conns |-> "off"]
  /\ reader = [c \in Conns |-> "off"]
  /\ held = None1
  /\ responses = None1
  /\ writing = None1
  /\ got = [c \in Conns |-> NoAnswer]
  /\ recoveryStart = 0
  /\ recovered = {}

-----------------------------------------------------------------------------
(***************************************************************************)
(* Accepting and dialing.                                                  *)
(***************************************************************************)
\* A client connects to the listener of a and is accepted; forward begins.
accept(c, a) ==
  /\ fwd[c] = "none" /\ ~proxyClosed /\ a \in listeners /\ dials < MaxDials
  /\ dials' = dials + 1
  /\ dialCheck(c, a)
  /\ fwd' = [fwd EXCEPT ![c] = "dial"]
  /\ client' = [client EXCEPT ![c] = TRUE]
  /\ UNCHANGED <<now, faultVars, viewVars, phaseVars, streamVars, copier, pathVars, requests,
                 proxyClosed, listeners, recoveryStart, recovered>>

dial(c) ==
  /\ fwd[c] = "dial" /\ (rawDial(c) \/ admit(c))
  /\ UNCHANGED <<now, faultVars, viewVars, phaseVars, proxyVars>>

\* The dial returned a connection, and the proxy is not closed.
adopted(c) == conn[c] = "open" /\ ~proxyClosed

\* A connection that is not adopted is given up; otherwise the two goroutines
\* start.
adopt(c) ==
  /\ fwd[c] = "dial" /\ conn[c] \in {"open", "closed"}
  /\ LET ok == adopted(c)
     IN  /\ fwd' = [fwd EXCEPT ![c] = IF ok THEN "serve" ELSE "unwind"]
         /\ client' = [client EXCEPT ![c] = @ /\ ok]
         /\ copier' = [copier EXCEPT ![c] = IF ok THEN "run" ELSE "done"]
         /\ reader' = [reader EXCEPT ![c] = IF ok THEN "run" ELSE "done"]
         /\ IF ok THEN UNCHANGED <<conn, doomed>> ELSE closeConns({c})
  /\ UNCHANGED <<now, faultVars, addr, holed, netClosed, viewVars, phaseVars, streamVars, held,
                 responses, writing, got, restOfProxy>>

-----------------------------------------------------------------------------
(***************************************************************************)
(* Requests.                                                               *)
(***************************************************************************)
\* The client's next request is read, noted in requests and written on; the
\* network may swallow it.
copyRequest(c) ==
  /\ copier[c] = "run" /\ client[c] /\ conn[c] = "open"
  /\ sent[c] < Len(requests[c])
  /\ sent' = [sent EXCEPT ![c] = @ + 1]
  /\ IF dropped(c)
       THEN holed' = holed \cup {c} /\ UNCHANGED arrived
       ELSE arrived' = [arrived EXCEPT ![c] = Append(@, sent[c] + 1)] /\ UNCHANGED holed
  /\ UNCHANGED <<now, faultVars, conn, addr, doomed, netClosed, viewVars, phaseVars, fwd,
                 client, copier, pathVars, restOfProxy>>

\* The client's socket is closed, or the backend's when there is something to
\* write to it: the goroutine ends, closing both and canceling the ctx.
copierEnds(c) ==
  /\ copier[c] = "run"
  /\ ~client[c] \/ (conn[c] = "closed" /\ sent[c] < Len(requests[c]))
  /\ copier' = [copier EXCEPT ![c] = "done"]
  /\ client' = [client EXCEPT ![c] = FALSE]
  /\ closeConns({c})
  /\ UNCHANGED <<now, faultVars, addr, holed, netClosed, viewVars, phaseVars, fwd, streamVars,
                 pathVars, restOfProxy>>

\* The network swallows the broker's next answer.
answerDropped(c) ==
  /\ conn[c] = "open" /\ arrived[c] # << >> /\ dropped(c)
  /\ arrived' = [arrived EXCEPT ![c] = Tail(@)]
  /\ holed' = holed \cup {c}
  /\ UNCHANGED <<now, faultVars, conn, addr, doomed, netClosed, viewVars, phaseVars, sent, fwd,
                 client, copier, pathVars, restOfProxy>>

-----------------------------------------------------------------------------
(***************************************************************************)
(* Answers.                                                                *)
(***************************************************************************)
isProduce(c, r) == requests[c][r] = "produce"

\* What the wait of a response of delay d lasts: no longer than the timeout.
served(d) == IF d > Timeout THEN Timeout ELSE d

\* Mutant: the delay is counted from the end of the previous response's.
dueAt_queued(c, d) ==
  LET q == writing[c] \o responses[c]
  IN  (IF q = << >> THEN now ELSE q[Len(q)].due) + served(d)

\* When an answer read now with latency d is due.
dueAt(c, d) == now + served(d)

\* Put r into responses, or wait for room.
send(c, r) ==
  IF Len(responses[c]) < QueueCap
    THEN /\ responses' = [responses EXCEPT ![c] = Append(@, r)]
         /\ UNCHANGED <<reader, held>>
    ELSE /\ reader' = [reader EXCEPT ![c] = "full"]
         /\ held' = [held EXCEPT ![c] = <<r>>]
         /\ UNCHANGED responses

\* The broker answers its oldest request and the reader gets the answer.  That of
\* a Metadata request carries the view of the moment and is rewritten to the
\* proxy's own listeners, opened as needed.  That of a Produce request may be a
\* failure; it is given its latency, and an error when that exceeds the timeout.
readAnswer(c) ==
  LET r == Head(arrived[c])
      produce == isProduce(c, r)
  IN
  /\ reader[c] = "run" /\ conn[c] = "open" /\ arrived[c] # << >> /\ ~dropped(c)
  /\ arrived' = [arrived EXCEPT ![c] = Tail(@)]
  /\ \E d \in IF produce THEN Delays ELSE {0}, ok \in IF produce THEN BOOLEAN ELSE {TRUE} :
       send(c, [req |-> r, at |-> now, wait |-> served(d), due |-> dueAt(c, d), ok |-> ok /\ d <= Timeout])
  /\ listeners' = IF produce THEN listeners ELSE listeners \cup live
  /\ UNCHANGED <<netVars, dials, fwd, client, sent, copier, writing, got, requests,
                 proxyClosed, recoveryStart, recovered>>

canceled(c) == proxyClosed \/ copier[c] = "done" \/ fwd[c] = "unwind"

readerFreed(c) ==
  /\ reader[c] = "full" /\ Len(responses[c]) < QueueCap
  /\ responses' = [responses EXCEPT ![c] = @ \o held[c]]
  /\ reader' = [reader EXCEPT ![c] = "run"]
  /\ held' = [held EXCEPT ![c] = << >>]
  /\ UNCHANGED <<netVars, fwd, client, streamVars, copier, writing, got, restOfProxy>>

\* The backend is closed, or the ctx canceled while the channel is full.
readerEnds(c) ==
  /\ \/ reader[c] = "run" /\ conn[c] = "closed"
     \/ reader[c] = "full" /\ canceled(c)
  /\ reader' = [reader EXCEPT ![c] = "done"]
  /\ held' = [held EXCEPT ![c] = << >>]
  /\ UNCHANGED <<netVars, fwd, client, streamVars, copier, responses, writing, got, restOfProxy>>

\* forward takes the next response.
takeResponse(c) ==
  /\ fwd[c] = "serve" /\ writing[c] = << >> /\ responses[c] # << >>
  /\ writing' = [writing EXCEPT ![c] = <<Head(responses[c])>>]
  /\ responses' = [responses EXCEPT ![c] = Tail(@)]
  /\ UNCHANGED <<netVars, fwd, client, streamVars, copier, reader, held, got, restOfProxy>>

\* Mutant: every response of a restored broker counts.
counts_early(n) == n \in restored /\ fault[n] = "healthy"

\* observeProduce counts a response for node n.
counts(n) == n \in restored /\ fault[n] = "healthy" /\ now >= recoveryStart

\* It is due and written; a successful Produce response is observed.
writeResponse(c) ==
  /\ fwd[c] = "serve" /\ writing[c] # << >>
  /\ LET r == Head(writing[c]) IN
     /\ now >= r.due /\ client[c]
     /\ got' = [got EXCEPT ![c] = [req |-> r.req, ready |-> r.at + r.wait, at |-> now]]
     /\ recovered' = IF isProduce(c, r.req) /\ r.ok /\ counts(node(c))
                     THEN recovered \cup {<<node(c), r.at>>} ELSE recovered
  /\ writing' = [writing EXCEPT ![c] = << >>]
  /\ UNCHANGED <<netVars, dials, fwd, client, streamVars, copier, reader, held, responses,
                 requests, proxyClosed, listeners, recoveryStart>>

\* The loop ends: the ctx is canceled while a response is not due, the client is
\* gone, or responses is closed and drained.  The deferred calls close both
\* sockets.
forwardEnds(c) ==
  /\ fwd[c] = "serve"
  /\ \/ writing[c] # << >> /\ (IF now < Head(writing[c]).due THEN canceled(c) ELSE ~client[c])
     \/ writing[c] = << >> /\ responses[c] = << >> /\ reader[c] = "done"
  /\ fwd' = [fwd EXCEPT ![c] = "unwind"]
  /\ client' = [client EXCEPT ![c] = FALSE]
  /\ closeConns({c})
  /\ UNCHANGED <<now, faultVars, addr, holed, netClosed, viewVars, phaseVars, streamVars, copier,
                 pathVars, restOfProxy>>

\* <-done, <-readDone, wg.Done: the slot is free again.
forwardReturns(c) ==
  LET reset(f, v) == [f EXCEPT ![c] = v] IN
  /\ fwd[c] = "unwind" /\ copier[c] = "done" /\ reader[c] = "done"
  /\ fwd' = reset(fwd, "none")
  /\ conn' = reset(conn, "none") /\ addr' = reset(addr, <<NoNode, 0>>) /\ holed' = holed \ {c}
  /\ sent' = reset(sent, 0) /\ arrived' = reset(arrived, << >>)
  /\ copier' = reset(copier, "off") /\ reader' = reset(reader, "off")
  /\ held' = reset(held, << >>) /\ responses' = reset(responses, << >>)
  /\ writing' = reset(writing, << >>) /\ got' = reset(got, NoAnswer)
  /\ UNCHANGED <<now, faultVars, doomed, netClosed, viewVars, phaseVars, client, restOfProxy>>

\* The client drops the connection: its own timeout, or its process ends.
hangUp(c) ==
  /\ client[c]
  /\ client' = [client EXCEPT ![c] = FALSE]
  /\ UNCHANGED <<netVars, fwd, streamVars, copier, pathVars, restOfProxy>>

\* Close, up to its wait: every registered connection is closed under mu.
closeProxy ==
  /\ proxyClosed' = TRUE
  /\ client' = [c \in Conns |-> FALSE]
  /\ closeConns({c \in Conns : fwd[c] \in {"serve", "unwind"}})
  /\ UNCHANGED <<now, faultVars, addr, holed, netClosed, viewVars, phaseVars, listeners, dials, fwd,
                 streamVars, copier, pathVars, requests, recoveryStart, recovered>>

proxyDrained == \A c \in Conns : fwd[c] = "none"

connStep(c) ==
  \/ dial(c) \/ adopt(c) \/ copierEnds(c) \/ answerDropped(c) \/ readAnswer(c)
  \/ readerFreed(c) \/ readerEnds(c) \/ takeResponse(c) \/ writeResponse(c)
  \/ forwardEnds(c) \/ forwardReturns(c)

\* A step of the answer path that takes no time is possible.
busy(c) ==
  \/ reader[c] = "full" /\ Len(responses[c]) < QueueCap
  \/ fwd[c] = "serve" /\ writing[c] = << >> /\ responses[c] # << >>
  \/ fwd[c] = "serve" /\ writing[c] # << >> /\ now >= Head(writing[c]).due

-----------------------------------------------------------------------------
\* The client gets answers in the order of its requests, none before its latency
\* has passed, and none later than that except together with the one before it:
\* it waits for the slowest of the earlier ones, not for their sum ("without adding
\* each delay to the next request's service time").
AnswersInOrderOnTime ==
  [][\A c \in Conns :
       got'[c] # got[c] /\ got'[c] # NoAnswer =>
         /\ got'[c].req > got[c].req
         /\ got'[c].at >= got'[c].ready
         /\ got'[c].at \in {got'[c].ready, got[c].at}]_got

\* A response counted as a sign of recovery was given by its broker after the
\* fault ended: one that was answered before and delayed past the fault, or
\* drained from the channel of a connection already cut, is not counted.
RecoveryIsReal ==
  \A x \in recovered :
    \A i \in 1..phase : script[i].node = x[1] => x[2] >= script[i].at
=============================================================================
