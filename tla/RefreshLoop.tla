---------------------------- MODULE RefreshLoop ----------------------------
(***************************************************************************)
(* The background metadata refresh of WarpstreamClient (client.go): one    *)
(* goroutine that fetches on a ticker and on demand, the size-one nudge    *)
(* channel the produce path writes to, the backoff between on-demand       *)
(* fetches, and the part of Close that stops and awaits the goroutine.     *)
(*                                                                         *)
(* Time is discrete and kept as countdowns.  Any step may be delayed: the  *)
(* clock may advance before a runnable goroutine runs.                     *)
(***************************************************************************)
EXTENDS Integers

CONSTANTS
  MetadataRefreshInterval,
  OnDemandMetadataRefreshInterval,
  MaxDuration,       \* the largest time.Duration (math.MaxInt64)
  MaxFetch           \* bound: how long one fetch may take

ASSUME RefreshAssumption ==
  /\ MetadataRefreshInterval \in Nat
  /\ OnDemandMetadataRefreshInterval \in 1..MetadataRefreshInterval
  /\ MaxDuration \in Nat /\ MetadataRefreshInterval <= MaxDuration
  /\ MaxFetch \in Nat

VARIABLES
  loop,       \* the goroutine: "select", "periodic", "onDemand", "cooldown", "exited"
  nudge,      \* refreshNowCh holds a nudge
  tick,       \* ticker.C holds a tick
  tickIn,     \* time to the next tick
  delay,      \* backoff.delay
  elapsed,    \* time since the current fetch started
  remaining,  \* rest of the cooldown
  closed,     \* Close: "no", "canceled" (refreshWG.Wait), "done"
  owed,       \* history: a refresh was asked for and none has started since
  asked,      \* history: the current fetch was owed when it started
  gap,        \* history: time since the last on-demand fetch started (capped)
  minGap,     \* history: the delay in force when it started
  busy,       \* history: Close came while a fetch or its cooldown was on
  late        \* history: fetches started after Close canceled refreshCtx

loopVars == <<loop, tick, tickIn, delay, elapsed, remaining>>
histVars == <<owed, asked, gap, minGap, busy, late>>
rvars == <<loopVars, nudge, closed, histVars>>

Fetching == {"periodic", "onDemand"}

\* int64 arithmetic of time.Duration: what does not fit wraps around.
Duration(d) == ((d + MaxDuration + 1) % (2 * (MaxDuration + 1))) - (MaxDuration + 1)

RInit ==
  /\ loop = "select"
  /\ nudge = FALSE
  /\ tick = FALSE /\ tickIn = MetadataRefreshInterval
  /\ delay = OnDemandMetadataRefreshInterval
  /\ elapsed = 0 /\ remaining = 0
  /\ closed = "no"
  /\ owed = FALSE /\ asked = FALSE /\ gap = MetadataRefreshInterval /\ minGap = 0
  /\ busy = FALSE /\ late = 0

-----------------------------------------------------------------------------
\* Mutant: the doubled delay is compared with the ceiling.
advance_doublesFirst(d) ==
  IF Duration(d * 2) > MetadataRefreshInterval THEN MetadataRefreshInterval
  ELSE Duration(d * 2)

\* refreshBackoff.advance
advance(d) ==
  IF d > MetadataRefreshInterval \div 2 THEN MetadataRefreshInterval ELSE Duration(d * 2)

\* triggerRefresh: a routing miss on the produce path.
triggerRefresh ==
  /\ nudge' = TRUE
  /\ owed' = TRUE
  /\ UNCHANGED <<loopVars, closed, asked, gap, minGap, busy, late>>

\* A fetch starts.
StartFetch ==
  /\ elapsed' = 0
  /\ owed' = FALSE /\ asked' = owed
  /\ late' = IF closed = "no" THEN late ELSE late + 1

\* select: refreshCtx.Done().
selectDone ==
  /\ loop = "select" /\ closed # "no"
  /\ loop' = "exited"
  /\ UNCHANGED <<nudge, tick, tickIn, delay, elapsed, remaining, closed, histVars>>

\* Mutant: the pending nudge is left in the channel for a tick.
selectPeriodic_overNudge ==
  /\ loop = "select" /\ tick
  /\ loop' = "periodic" /\ tick' = FALSE
  /\ StartFetch
  /\ UNCHANGED <<nudge, tickIn, delay, remaining, closed, gap, minGap, busy>>

\* select: a tick, and no nudge queued at the same instant.
selectPeriodic ==
  /\ loop = "select" /\ tick /\ ~nudge
  /\ loop' = "periodic" /\ tick' = FALSE
  /\ StartFetch
  /\ UNCHANGED <<nudge, tickIn, delay, remaining, closed, gap, minGap, busy>>

\* select: a nudge, alone or queued when a tick was taken.  ticker.Reset drops a
\* tick not yet received.
selectNudge ==
  /\ loop = "select" /\ nudge
  /\ loop' = "onDemand" /\ nudge' = FALSE
  /\ tick' = FALSE /\ tickIn' = MetadataRefreshInterval
  /\ StartFetch
  /\ gap' = 0 /\ minGap' = delay
  /\ UNCHANGED <<delay, remaining, closed, busy>>

\* What a finished fetch does to the channel: it may find leaders excluded and
\* ask for another (noteLeaderDrops), unless it failed.
FetchNudges ==
  \/ UNCHANGED <<nudge, owed>>
  \/ nudge' = TRUE /\ owed' = TRUE

\* Mutant: the loop goes on without looking at refreshCtx.
periodicDone_noCheck ==
  /\ loop = "periodic"
  /\ FetchNudges
  /\ loop' = "select"
  /\ delay' = OnDemandMetadataRefreshInterval
  /\ UNCHANGED <<tick, tickIn, elapsed, remaining, closed, asked, gap, minGap, busy, late>>

\* A periodic fetch returns: exit after Close, else reset the backoff.
periodicDone ==
  /\ loop = "periodic"
  /\ FetchNudges
  /\ IF closed = "no"
       THEN loop' = "select" /\ delay' = OnDemandMetadataRefreshInterval
       ELSE loop' = "exited" /\ UNCHANGED delay
  /\ UNCHANGED <<tick, tickIn, elapsed, remaining, closed, asked, gap, minGap, busy, late>>

\* Mutant: no wait after a fetch.
onDemandDone_noWait ==
  /\ loop = "onDemand"
  /\ FetchNudges
  /\ loop' = "cooldown"
  /\ remaining' = 0
  /\ UNCHANGED <<tick, tickIn, delay, elapsed, closed, asked, gap, minGap, busy, late>>

\* An on-demand fetch returns: sleep out the rest of the delay.
onDemandDone ==
  /\ loop = "onDemand"
  /\ FetchNudges
  /\ loop' = "cooldown"
  /\ remaining' = IF elapsed < delay THEN delay - elapsed ELSE 0
  /\ UNCHANGED <<tick, tickIn, delay, elapsed, closed, asked, gap, minGap, busy, late>>

\* Mutant: only the timer ends the wait.
cooldownDone_deaf ==
  /\ loop = "cooldown"
  /\ remaining = 0 /\ closed = "no"
  /\ loop' = "select" /\ delay' = advance(delay)
  /\ remaining' = 0
  /\ UNCHANGED <<nudge, tick, tickIn, elapsed, closed, histVars>>

\* Mutant: only refreshCtx ends the wait.
cooldownDone_onlyCtx ==
  /\ loop = "cooldown" /\ closed # "no"
  /\ loop' = "exited" /\ remaining' = 0
  /\ UNCHANGED <<nudge, tick, tickIn, delay, elapsed, closed, histVars>>

\* waitRefreshCooldown returns: the time is up or refreshCtx is done.
cooldownDone ==
  /\ loop = "cooldown"
  /\ remaining = 0 \/ closed # "no"
  /\ IF closed = "no" THEN loop' = "select" /\ delay' = advance(delay)
                      ELSE loop' = "exited" /\ UNCHANGED delay
  /\ remaining' = 0
  /\ UNCHANGED <<nudge, tick, tickIn, elapsed, closed, histVars>>

-----------------------------------------------------------------------------
\* Close cancels refreshCtx.
refreshCancel ==
  /\ closed = "no"
  /\ closed' = "canceled"
  /\ busy' = (loop # "select")
  /\ UNCHANGED <<loopVars, nudge, owed, asked, gap, minGap, late>>

\* refreshWG.Wait returns; the buffers and the kgo client are closed next.
refreshWait ==
  /\ closed = "canceled" /\ loop = "exited"
  /\ closed' = "done"
  /\ UNCHANGED <<loopVars, nudge, histVars>>

\* One unit of time.  A fetch is bounded by kgo's request timeout and retry
\* policy, here by MaxFetch.
clock ==
  /\ loop # "exited"
  /\ loop \in Fetching => elapsed < MaxFetch
  /\ elapsed' = IF loop \in Fetching THEN elapsed + 1 ELSE elapsed
  /\ remaining' = IF remaining > 0 THEN remaining - 1 ELSE 0
  /\ tick' = (tick \/ tickIn = 1)
  /\ tickIn' = IF tickIn = 1 THEN MetadataRefreshInterval ELSE tickIn - 1
  /\ gap' = IF gap < MetadataRefreshInterval THEN gap + 1 ELSE gap
  /\ UNCHANGED <<loop, delay, nudge, closed, owed, asked, minGap, busy, late>>

Loop ==
  \/ selectDone \/ selectPeriodic \/ selectNudge
  \/ periodicDone \/ onDemandDone \/ cooldownDone

RNext == triggerRefresh \/ Loop \/ refreshCancel \/ refreshWait \/ clock

RSpec == RInit /\ [][RNext]_rvars

\* The goroutine runs, time passes and Close runs on once called.
RFairSpec == RSpec /\ WF_rvars(Loop) /\ WF_rvars(clock) /\ WF_rvars(refreshWait)

-----------------------------------------------------------------------------
\* Misses, however many and whenever they come, do not speed fetching up.  An
\* on-demand fetch starts no sooner after the previous one than the delay that was
\* in force then, whether or not a periodic fetch ran in between and with the
\* fetching time counted in; and the delay shrinks only after a fetch nobody had
\* asked for (at the ceiling a nudge and a tick become due together, and a tick
\* served for such a nudge would reset it; doubling must not wrap around).
OnDemandPaced ==
  [][/\ loop = "select" /\ loop' = "onDemand" => gap >= minGap
     /\ delay' < delay => ~asked]_rvars

\* A refresh that is owed is in the channel, also when its nudge was dropped
\* because another was queued, or came during a fetch.
OwedIsQueued == owed => nudge

\* It stays queued until it is started, and is started unless the client is
\* closed.
OwedIsServed == []OwedIsQueued /\ (owed ~> ~owed \/ closed # "no")

\* When Close is called during a fetch or its cooldown no other fetch follows, and
\* otherwise at most one (select picks at random between a done context and a
\* nudge).
FewLateFetches == late <= (IF busy THEN 0 ELSE 1)

\* Close is not held up by the goroutine, not by its ticker, its cooldown, or
\* nudges that keep coming, and hardly any fetch follows it.
CloseTerminates ==
  /\ closed = "canceled" ~> closed = "done"
  /\ []FewLateFetches
=============================================================================
