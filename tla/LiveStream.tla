----------------------------- MODULE LiveStream -----------------------------
(***************************************************************************)
(* The live feed of the console: the channel of one topic                  *)
(* (apps/web/lib/websocket/manager.ts) and the check of the connection it  *)
(* relies on (lib/network/connectivity.ts). Every handler, timer and       *)
(* awaited answer of the page is a step; between them the components of    *)
(* the page come and go, the user asks for a reconnect, the browser loses  *)
(* its network and the server its service. Delays and the spacing of       *)
(* connects are left out: a timer fires some time.                         *)
(***************************************************************************)
EXTENDS Naturals

CONSTANTS
  MaxAttempts,  \* MAX_ATTEMPTS
  MaxRefs,      \* bound on the components that listen at once
  MaxTimers,    \* bound on the reconnect timers that will fire, and on the probes of diagnose
  MaxFaults     \* bound on what goes wrong

LiveStreamAssumption == {MaxAttempts, MaxRefs, MaxTimers, MaxFaults} \subseteq Nat

VARIABLES
  refs,         \* refcount
  channel,      \* socket, status, attempt, timer and watchdog of the channel
  alarms,       \* reconnect timers that will fire, also those the channel has lost sight of
  diagnosing,   \* probes of diagnose that have not been answered
  network,      \* state, probing and timer of connectivity.ts
  stranded,     \* history: diagnose parked the channel with the network there, or the server
                \* closed it in order, and nothing has been tried since
  world,        \* whether the browser has a network, and the server answers
  faults        \* how much has gone wrong

vars == <<refs, channel, alarms, diagnosing, network, stranded, world, faults>>

Status == {"idle", "connecting", "open", "waiting", "offline", "stopped"}

Init ==
  /\ refs = 0
  /\ channel = [socket |-> "none", status |-> "idle", attempt |-> 0, timer |-> FALSE,
                watchdog |-> FALSE]
  /\ alarms = 0 /\ diagnosing = 0
  /\ network = [reach |-> "online", probing |-> FALSE, recheck |-> FALSE]
  /\ stranded = FALSE
  /\ world = [net |-> TRUE, up |-> TRUE]
  /\ faults = 0

TypeOK ==
  /\ refs \in 0 .. MaxRefs
  /\ channel \in [socket : {"none", "connecting", "open"}, status : Status,
                  attempt : 0 .. MaxAttempts, timer : BOOLEAN, watchdog : BOOLEAN]
  /\ channel.watchdog => channel.socket = "open"
  /\ alarms \in 0 .. MaxTimers /\ (channel.timer => alarms > 0)
  /\ diagnosing \in 0 .. MaxTimers
  /\ network \in [reach : {"online", "offline"}, probing : BOOLEAN, recheck : BOOLEAN]
  /\ stranded \in BOOLEAN
  /\ world \in [net : BOOLEAN, up : BOOLEAN]
  /\ faults \in 0 .. MaxFaults

Offline   == network.reach = "offline"
Reachable == world.net /\ world.up

-----------------------------------------------------------------------------
(* The functions of manager.ts on a page: the channel with its timers and probes. *)

Page == [ch |-> channel, alarms |-> alarms, diagnosing |-> diagnosing]

Turns(p) ==
  /\ p.alarms =< MaxTimers /\ p.diagnosing =< MaxTimers
  /\ channel' = p.ch
  /\ alarms' = p.alarms
  /\ diagnosing' = p.diagnosing
  /\ stranded' = (stranded /\ p.ch.status \in {"offline", "idle"})

Show(p, status) == [p EXCEPT !.ch.status = status]

\* A timer that was set over another is cleared alone: the other still fires.
ClearTimers(p) ==
  [p EXCEPT !.alarms = IF p.ch.timer THEN @ - 1 ELSE @, !.ch.timer = FALSE, !.ch.watchdog = FALSE]

Teardown(p) == [ClearTimers(p) EXCEPT !.ch.socket = "none"]

Park(p) == Show(ClearTimers(p), "offline")

ScheduleReconnect(p, n, offline) ==
  IF n = 0 THEN Show(p, "idle")
  ELSE IF offline THEN Park(p)
  ELSE IF p.ch.attempt >= MaxAttempts THEN Show(p, "stopped")
  ELSE [Show(p, "waiting") EXCEPT !.ch.attempt = @ + 1, !.ch.timer = TRUE, !.alarms = @ + 1]

Connect(p, n, offline) ==
  IF n = 0 \/ p.ch.socket # "none" THEN p
  ELSE IF offline THEN Park(p)
  ELSE Show([p EXCEPT !.ch.socket = "connecting"], "connecting")

\* Bug: a parked channel is not connected again.
ReachabilityStaysParked(p, offline) ==
  IF refs = 0 THEN p
  ELSE IF offline THEN Park(Teardown(p))
  ELSE IF p.ch.socket # "none" \/ p.ch.status \in {"stopped", "offline"} THEN p
  ELSE Connect([ClearTimers(p) EXCEPT !.ch.attempt = 0], refs, FALSE)

\* handleReachabilityChange: called when reach changes.
ReachabilityChanged(p, offline) ==
  IF refs = 0 THEN p
  ELSE IF offline THEN Park(Teardown(p))
  ELSE IF p.ch.socket # "none" \/ p.ch.status = "stopped" THEN p
  ELSE Connect([ClearTimers(p) EXCEPT !.ch.attempt = 0], refs, FALSE)

-----------------------------------------------------------------------------
(* connectivity.ts *)

\* publish: listeners hear only of a change.
Published(p, reach) ==
  IF reach = network.reach THEN p ELSE ReachabilityChanged(p, reach = "offline")

\* probe, up to its request: without a network it is settled at once.
ProbeStarted ==
  IF ~ world.net THEN [network EXCEPT !.reach = "offline", !.recheck = FALSE]
  ELSE [network EXCEPT !.probing = TRUE]

ProbeStartedPage(p) == IF world.net THEN p ELSE Published(p, "offline")

\* probe: /healthz has answered, or not in time.
ProbeEnds ==
  /\ network.probing
  /\ \E ok \in {TRUE, FALSE} :
       /\ ok => world.net
       /\ ~ ok => ~ Reachable
       /\ LET reach == IF ok THEN "online" ELSE "offline"
          IN  /\ Turns(Published(Page, reach))
              /\ network' = [reach |-> reach, probing |-> FALSE, recheck |-> ~ ok]
  /\ UNCHANGED <<refs, world, faults>>

RecheckFires ==
  /\ network.recheck
  /\ network' = [ProbeStarted EXCEPT !.recheck = FALSE]
  /\ Turns(ProbeStartedPage(Page))
  /\ UNCHANGED <<refs, world, faults>>

\* The network goes, and the browser may notice (handleOffline); it always notices that it
\* is back (handleOnline).
NetworkGoes ==
  /\ world.net /\ faults < MaxFaults
  /\ faults' = faults + 1
  /\ world' = [world EXCEPT !.net = FALSE]
  /\ network' = [network EXCEPT !.reach = "offline", !.recheck = FALSE]
  /\ Turns(Published(Page, "offline"))
  /\ UNCHANGED refs

NetworkReturns ==
  /\ ~ world.net
  /\ world' = [world EXCEPT !.net = TRUE]
  /\ network' = [network EXCEPT !.probing = TRUE]
  /\ UNCHANGED <<refs, channel, alarms, diagnosing, stranded, faults>>

\* The server, or the way to it, stops answering and answers again; the browser is not told.
ServerGoes ==
  /\ world.up /\ faults < MaxFaults
  /\ faults' = faults + 1
  /\ world' = [world EXCEPT !.up = FALSE]
  /\ UNCHANGED <<refs, channel, alarms, diagnosing, network, stranded>>

ServerReturns ==
  /\ ~ world.up
  /\ world' = [world EXCEPT !.up = TRUE]
  /\ UNCHANGED <<refs, channel, alarms, diagnosing, network, stranded, faults>>

-----------------------------------------------------------------------------
(* The socket. *)

Opens ==
  /\ channel.socket = "connecting" /\ Reachable
  /\ Turns([Show(Page, "open") EXCEPT !.ch.socket = "open", !.ch.attempt = 0, !.ch.watchdog = TRUE])
  /\ UNCHANGED <<refs, network, world, faults>>

\* onmessage: an event or a ping arms the watchdog again.
Hears ==
  /\ channel.socket = "open" /\ Reachable /\ ~ channel.watchdog
  /\ Turns([Page EXCEPT !.ch.watchdog = TRUE])
  /\ UNCHANGED <<refs, network, world, faults>>

Closed == [ClearTimers(Page) EXCEPT !.ch.socket = "none"]

\* onclose with 1006: the connect was refused or the connection broke.
Breaks ==
  /\ channel.socket # "none" /\ ~ Reachable
  /\ Turns([Show(Closed, "waiting") EXCEPT !.diagnosing = @ + 1])
  /\ UNCHANGED <<refs, network, world, faults>>

\* onclose with 1006 while the server is there: it refuses the upgrade before it accepts the
\* socket, or the connection is cut on its way.
Severed ==
  /\ channel.socket # "none" /\ Reachable /\ faults < MaxFaults
  /\ faults' = faults + 1
  /\ Turns([Show(Closed, "waiting") EXCEPT !.diagnosing = @ + 1])
  /\ UNCHANGED <<refs, network, world>>

\* onclose with 1000: the server is done with the channel, whoever listens to it.
ClosedInOrder ==
  /\ channel.socket = "open" /\ faults < MaxFaults
  /\ faults' = faults + 1
  /\ LET p == Show(Closed, "idle")
     IN  channel' = p.ch /\ alarms' = p.alarms /\ diagnosing' = p.diagnosing
  /\ stranded' = TRUE
  /\ UNCHANGED <<refs, network, world>>

\* onclose with another code: the session or the topic is refused for good, or the service
\* restarts, or it is full.
Refused ==
  /\ channel.socket = "open" /\ faults < MaxFaults
  /\ faults' = faults + 1
  /\ \/ Turns(Show(Closed, "stopped"))
     \/ Turns(ScheduleReconnect(Closed, refs, Offline))
  /\ UNCHANGED <<refs, network, world>>

\* armWatchdog: nothing has been heard, not even a ping.
WatchdogFires ==
  /\ channel.watchdog /\ ~ Reachable
  /\ network' = ProbeStarted
  /\ Turns(ScheduleReconnect(ProbeStartedPage(Teardown(Page)), refs, network'.reach = "offline"))
  /\ UNCHANGED <<refs, world, faults>>

\* A timer set in scheduleReconnect fires, the channel's own or one it has lost.
TimerFires ==
  /\ alarms > 0
  /\ Turns(Connect([Page EXCEPT !.alarms = @ - 1, !.ch.timer = FALSE], refs, Offline))
  /\ UNCHANGED <<refs, network, world, faults>>

\* diagnose: the request to /api/v1/stats has been answered, in whatever state the channel
\* is by then: with an answer or another error, that the user must log in, or not at all.
DiagnoseAnswered ==
  /\ diagnosing > 0 /\ world.net
  /\ Turns(ScheduleReconnect([Page EXCEPT !.diagnosing = @ - 1], refs, Offline))
  /\ UNCHANGED <<refs, network, world, faults>>

DiagnoseNeedsLogin ==
  /\ diagnosing > 0 /\ Reachable /\ faults < MaxFaults
  /\ faults' = faults + 1
  /\ Turns(Show([Page EXCEPT !.diagnosing = @ - 1], "stopped"))
  /\ UNCHANGED <<refs, network, world>>

DiagnoseUnanswered ==
  /\ diagnosing > 0 /\ ~ Reachable
  /\ network' = ProbeStarted
  /\ LET p == Park(ProbeStartedPage([Page EXCEPT !.diagnosing = @ - 1]))
     IN  channel' = p.ch /\ alarms' = p.alarms /\ diagnosing' = p.diagnosing
  /\ stranded' = (network'.reach = "online")
  /\ UNCHANGED <<refs, world, faults>>

-----------------------------------------------------------------------------
(* The page and its user. *)

\* subscribe: a component that listens is shown.
Subscribe ==
  /\ refs < MaxRefs
  /\ refs' = refs + 1
  /\ IF channel.socket = "none" /\ ~ channel.timer /\ channel.status # "stopped"
     THEN Turns(Connect(Page, refs + 1, Offline))
     ELSE UNCHANGED <<channel, alarms, diagnosing, stranded>>
  /\ UNCHANGED <<network, world, faults>>

\* The component goes; the last takes the channel with it.
Unsubscribe ==
  /\ refs > 0
  /\ refs' = refs - 1
  /\ IF refs = 1 THEN Turns(Show(Teardown(Page), "idle"))
     ELSE UNCHANGED <<channel, alarms, diagnosing, stranded>>
  /\ UNCHANGED <<network, world, faults>>

\* retry: the banner offers it once the channel has stopped.
Retry ==
  /\ refs > 0 /\ channel.status = "stopped" /\ ~ Offline
  /\ Turns(Connect(Show([Teardown(Page) EXCEPT !.ch.attempt = 0], "idle"), refs, FALSE))
  /\ UNCHANGED <<refs, network, world, faults>>

Socket   == Opens \/ Hears \/ Breaks \/ Severed \/ ClosedInOrder \/ Refused \/ WatchdogFires
Timers   == TimerFires \/ DiagnoseAnswered \/ DiagnoseNeedsLogin \/ DiagnoseUnanswered
Checks   == ProbeEnds \/ RecheckFires
Outside  == NetworkGoes \/ NetworkReturns \/ ServerGoes \/ ServerReturns
User     == Subscribe \/ Unsubscribe \/ Retry

Next == Socket \/ Timers \/ Checks \/ Outside \/ User

Spec == Init /\ [][Next]_vars

\* The browser runs its timers and delivers its events; outages end.
Fairness ==
  /\ WF_vars(Opens) /\ WF_vars(Breaks) /\ WF_vars(WatchdogFires)
  /\ WF_vars(TimerFires) /\ WF_vars(Timers) /\ WF_vars(ProbeEnds) /\ WF_vars(RecheckFires)
  /\ WF_vars(NetworkReturns) /\ WF_vars(ServerReturns)

FairSpec == Spec /\ Fairness

-----------------------------------------------------------------------------
(* Properties. *)

\* manager.ts and connectivity.ts: a channel somebody listens to has a socket, or a timer or
\* a request under way that will give it one, unless it has been stopped; or it waits for the
\* network, which a check under way or planned will find there, or the browser will. What
\* diagnose parks with the network there, and what the server has closed in order, is left
\* out: no timer is set for either (see FeedComesBack).
FeedIsDriven ==
  /\ refs > 0 /\ channel.socket = "none" /\ channel.status # "stopped" =>
       \/ alarms > 0 \/ diagnosing > 0
       \/ channel.status \in {"offline", "idle"} /\ (Offline \/ stranded)
  /\ Offline /\ world.net => network.probing \/ network.recheck

\* The README's live alert feed: once the network, the server and the page stay as they are,
\* the channel is connected, or says that it has been stopped, or was closed by the server.
FeedComesBack ==
  <>[](refs > 0 /\ Reachable) =>
    <>[](channel.socket = "open" \/ channel.status \in {"stopped", "idle"})
=============================================================================
