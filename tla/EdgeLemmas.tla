----------------------------- MODULE EdgeLemmas -----------------------------
(***************************************************************************)
(* A camera from its device to a page: the capture loop, the statistics,   *)
(* the view and the channel of the page, as instances of their modules     *)
(* with any constants that keep their assumptions, and what is proved of   *)
(* each by itself.                                                         *)
(***************************************************************************)
EXTENDS Integers, Sequences, SequenceTheorems, TLAPS

CONSTANTS
  None,
  MaxFaults,                         \* of the channel, among others
  MaxAttempts, MaxRefs, MaxTimers,   \* of the channel
  MaxViewers, MaxFailures, MaxWire, MaxStrays, ViewFaults,   \* of the view
  Rest, Active, Period, Second, Backoff, BackoffMax,         \* of the capture loop
  JoinTimeout, LensTime, MaxPlugs,
  Interval, Ttl, Samples, StatsTime, StatsFrames             \* of the statistics

VARIABLES
  refs, channel, alarms, diagnosing, network, stranded, world, lfaults,
  source, redis, pump, others, ghosts, towards, page, strays, vfaults,
  moment, plugged, plugs, ready, device, interval, deadline, index, thread, told, main,
  stamp, beat, slipped, pushed, last, late,
  second, alive, died, published, answered, latencies, looked, writing, measured, statsKey

Feed == INSTANCE LiveStream WITH faults <- lfaults

View == INSTANCE FrameView WITH MaxFaults <- ViewFaults, wire <- towards, faults <- vfaults

Lens == INSTANCE Capture
  WITH Idle <- Rest, MaxTime <- LensTime, now <- moment, running <- told

Stats == INSTANCE EdgeStats
  WITH MaxTime <- StatsTime, MaxFrames <- StatsFrames, now <- second, key <- statsKey

feed    == <<refs, channel, alarms, diagnosing, network, stranded, world, lfaults>>
view    == <<source, redis, pump, others, ghosts, towards, page, strays, vfaults>>
capture == <<moment, plugged, plugs, ready, device, interval, deadline, index, thread, told, main,
             stamp, beat, slipped, pushed, last, late>>
stats   == <<second, alive, died, published, answered, latencies, looked, writing, measured,
             statsKey>>

ASSUME CameraAssumption ==
  /\ Feed!LiveStreamAssumption /\ View!FrameViewAssumption
  /\ Lens!CaptureAssumption /\ Stats!EdgeStatsAssumption

-----------------------------------------------------------------------------
(* The channel of a page *)

ChannelState == [socket : {"none", "connecting", "open"}, status : Feed!Status,
                 attempt : 0 .. MaxAttempts, timer : BOOLEAN, watchdog : BOOLEAN]

\* A page that the functions of manager.ts keep as it should be.
SoundChannel(p) ==
  /\ p \in [ch : ChannelState, alarms : Nat, diagnosing : Nat]
  /\ p.ch.watchdog => p.ch.socket = "open"
  /\ p.ch.timer => p.alarms > 0

\* What FeedIsDriven says of a page with n listeners, while the network is offline, or the page
\* was left alone as if it were.
DrivenBy(p, n, offline) ==
  n > 0 /\ p.ch.socket = "none" /\ p.ch.status # "stopped" =>
    p.alarms > 0 \/ p.diagnosing > 0 \/ (p.ch.status \in {"offline", "idle"} /\ offline)

\* What is not the channel's: the listeners, and the check of the network, which goes on while
\* the network that it missed is there.
CheckInv ==
  /\ refs \in 0 .. MaxRefs /\ lfaults \in 0 .. MaxFaults
  /\ world \in [net : BOOLEAN, up : BOOLEAN]
  /\ network \in [reach : {"online", "offline"}, probing : BOOLEAN, recheck : BOOLEAN]
  /\ Feed!Offline /\ world.net => network.probing \/ network.recheck

\* What the components of the page see: a channel that is driven.
ChannelInv ==
  /\ SoundChannel(Feed!Page) /\ DrivenBy(Feed!Page, refs, Feed!Offline \/ stranded)
  /\ alarms <= MaxTimers /\ diagnosing <= MaxTimers /\ stranded \in BOOLEAN

FeedInv == CheckInv /\ ChannelInv

\* Each function of manager.ts keeps the page sound.
LEMMA FeedShown ==
  ASSUME NEW p, SoundChannel(p), NEW s \in Feed!Status
  PROVE  /\ SoundChannel(Feed!Show(p, s)) /\ Feed!Show(p, s).ch.status = s
         /\ Feed!Show(p, s).alarms = p.alarms /\ Feed!Show(p, s).diagnosing = p.diagnosing
         /\ Feed!Show(p, s).ch.socket = p.ch.socket /\ Feed!Show(p, s).ch.attempt = p.ch.attempt
BY DEF SoundChannel, ChannelState, Feed!Show

\* The numbers of a channel that is sound.
LEMMA FeedFaults ==
  ASSUME NEW p, SoundChannel(p)
  PROVE  p.alarms \in Nat /\ p.diagnosing \in Nat
BY DEF SoundChannel, ChannelState

\* clearTimers leaves a sound channel without a timer, and its socket alone.
LEMMA TimersCleared ==
  ASSUME NEW p, SoundChannel(p)
  PROVE  /\ SoundChannel(Feed!ClearTimers(p)) /\ ~ Feed!ClearTimers(p).ch.timer
         /\ ~ Feed!ClearTimers(p).ch.watchdog
         /\ Feed!ClearTimers(p).alarms <= p.alarms /\ Feed!ClearTimers(p).diagnosing = p.diagnosing
         /\ Feed!ClearTimers(p).ch.status = p.ch.status
         /\ Feed!ClearTimers(p).ch.socket = p.ch.socket
<1> DEFINE c == [p.ch EXCEPT !.timer = FALSE, !.watchdog = FALSE]
           a == IF p.ch.timer THEN p.alarms - 1 ELSE p.alarms
<1>1. Feed!ClearTimers(p) = [p EXCEPT !.ch = c, !.alarms = a]
  BY DEF SoundChannel, ChannelState, Feed!ClearTimers
<1>2. /\ c \in ChannelState
      /\ ~ c.timer /\ ~ c.watchdog /\ c.status = p.ch.status /\ c.socket = p.ch.socket
  BY DEF SoundChannel, ChannelState
<1>3. a \in Nat /\ a <= p.alarms
  BY DEF SoundChannel, ChannelState
<1> HIDE DEF c, a
<1> QED BY <1>1, <1>2, <1>3 DEF SoundChannel, ChannelState

\* teardown leaves a sound channel without a socket.
LEMMA SocketTornDown ==
  ASSUME NEW p, SoundChannel(p)
  PROVE  /\ SoundChannel(Feed!Teardown(p)) /\ ~ Feed!Teardown(p).ch.timer
         /\ Feed!Teardown(p).ch.socket = "none"
         /\ Feed!Teardown(p).alarms <= p.alarms /\ Feed!Teardown(p).diagnosing = p.diagnosing
<1>1. /\ SoundChannel(Feed!ClearTimers(p)) /\ ~ Feed!ClearTimers(p).ch.timer
      /\ ~ Feed!ClearTimers(p).ch.watchdog
      /\ Feed!ClearTimers(p).alarms <= p.alarms /\ Feed!ClearTimers(p).diagnosing = p.diagnosing
  BY TimersCleared
<1> QED BY <1>1 DEF SoundChannel, ChannelState, Feed!Teardown

\* park leaves a sound channel that is offline.
LEMMA ChannelParked ==
  ASSUME NEW p, SoundChannel(p)
  PROVE  /\ SoundChannel(Feed!Park(p)) /\ Feed!Park(p).ch.status = "offline"
         /\ Feed!Park(p).alarms <= p.alarms /\ Feed!Park(p).diagnosing = p.diagnosing
<1>1. SoundChannel(Feed!ClearTimers(p)) /\ "offline" \in Feed!Status
      /\ Feed!ClearTimers(p).alarms <= p.alarms /\ Feed!ClearTimers(p).diagnosing = p.diagnosing
  BY TimersCleared DEF Feed!Status
<1> QED BY <1>1, FeedShown DEF Feed!Park

\* A channel that is connected has a socket, or waits for the network.
LEMMA ChannelConnected ==
  ASSUME NEW p, SoundChannel(p), NEW n \in Nat, NEW offline \in BOOLEAN
  PROVE  /\ SoundChannel(Feed!Connect(p, n, offline))
         /\ DrivenBy(Feed!Connect(p, n, offline), n, offline)
         /\ Feed!Connect(p, n, offline).alarms <= p.alarms
         /\ Feed!Connect(p, n, offline).diagnosing = p.diagnosing
<1>1. CASE n = 0 \/ p.ch.socket # "none"
  BY <1>1 DEF Feed!Connect, DrivenBy, SoundChannel
<1>2. CASE ~ (n = 0 \/ p.ch.socket # "none") /\ offline
  BY <1>2, ChannelParked DEF Feed!Connect, DrivenBy
<1>3. CASE ~ (n = 0 \/ p.ch.socket # "none") /\ ~ offline
  <2> DEFINE q == [p EXCEPT !.ch.socket = "connecting"]
  <2>1. SoundChannel(q) /\ q.ch.socket = "connecting" /\ q.alarms = p.alarms
          /\ q.diagnosing = p.diagnosing
    BY <1>3 DEF SoundChannel, ChannelState
  <2>2. Feed!Connect(p, n, offline) = Feed!Show(q, "connecting") /\ "connecting" \in Feed!Status
    BY <1>3 DEF Feed!Connect, Feed!Status
  <2> HIDE DEF q
  <2>3. p.alarms \in Nat
    BY DEF SoundChannel, ChannelState
  <2> QED BY <2>1, <2>2, <2>3, FeedShown DEF DrivenBy
<1> QED BY <1>1, <1>2, <1>3

\* A reconnect that is scheduled sets a timer, parks or stops.
LEMMA ReconnectScheduled ==
  ASSUME Feed!LiveStreamAssumption, NEW p, SoundChannel(p), NEW n \in Nat, NEW offline \in BOOLEAN
  PROVE  /\ SoundChannel(Feed!ScheduleReconnect(p, n, offline))
         /\ DrivenBy(Feed!ScheduleReconnect(p, n, offline), n, offline)
<1>1. CASE n = 0
  BY <1>1, FeedShown DEF Feed!ScheduleReconnect, DrivenBy, Feed!Status
<1>2. CASE n # 0 /\ offline
  BY <1>2, ChannelParked DEF Feed!ScheduleReconnect, DrivenBy
<1>3. CASE n # 0 /\ ~ offline /\ p.ch.attempt >= MaxAttempts
  BY <1>3, FeedShown DEF Feed!ScheduleReconnect, DrivenBy, Feed!Status
<1>4. CASE n # 0 /\ ~ offline /\ ~ (p.ch.attempt >= MaxAttempts)
  <2> DEFINE q == Feed!Show(p, "waiting")
             r == [q EXCEPT !.ch.attempt = @ + 1, !.ch.timer = TRUE, !.alarms = @ + 1]
  <2>1. SoundChannel(q) /\ q.ch.attempt = p.ch.attempt
    BY FeedShown DEF Feed!Status
  <2>2. Feed!ScheduleReconnect(p, n, offline) = r
    BY <1>4 DEF Feed!ScheduleReconnect
  <2>3. MaxAttempts \in Nat
    BY DEF Feed!LiveStreamAssumption
  <2> HIDE DEF q
  <2>4. SoundChannel(r) /\ r.alarms > 0
    <3> DEFINE c == [q.ch EXCEPT !.attempt = @ + 1, !.timer = TRUE]
    <3>1. r = [q EXCEPT !.ch = c, !.alarms = q.alarms + 1]
      BY <2>1 DEF SoundChannel, ChannelState
    <3>2. /\ c \in ChannelState
          /\ c.watchdog = q.ch.watchdog /\ c.socket = q.ch.socket
      <4>1. q.ch \in ChannelState /\ q.ch.attempt \in 0 .. MaxAttempts /\ q.ch.attempt < MaxAttempts
        BY <1>4, <2>1, <2>3 DEF SoundChannel, ChannelState
      <4>2. q.ch.attempt + 1 \in 0 .. MaxAttempts
        BY <4>1, <2>3
      <4> QED BY <4>1, <4>2 DEF ChannelState
    <3>3. q.alarms + 1 \in Nat /\ q.alarms + 1 > 0
      BY <2>1, FeedFaults
    <3> HIDE DEF c
    <3> QED BY <2>1, <3>1, <3>2, <3>3 DEF SoundChannel, ChannelState
  <2> HIDE DEF r
  <2> QED BY <2>2, <2>4 DEF DrivenBy
<1> QED BY <1>1, <1>2, <1>3, <1>4

\* A page that was driven is so when it hears that the network has changed.
LEMMA NetworkHeard ==
  ASSUME Feed!LiveStreamAssumption, NEW p, SoundChannel(p), NEW offline \in BOOLEAN, refs \in Nat
  PROVE  /\ SoundChannel(Feed!ReachabilityChanged(p, offline))
         /\ DrivenBy(Feed!ReachabilityChanged(p, offline), refs, offline)
         /\ Feed!ReachabilityChanged(p, offline).alarms <= p.alarms
         /\ Feed!ReachabilityChanged(p, offline).diagnosing = p.diagnosing
<1>1. CASE refs = 0
  <2>1. Feed!ReachabilityChanged(p, offline) = p
    BY <1>1 DEF Feed!ReachabilityChanged
  <2>2. DrivenBy(p, refs, offline) /\ p.alarms <= p.alarms
    BY <1>1, FeedFaults DEF DrivenBy
  <2> QED BY <2>1, <2>2
<1>2. CASE refs # 0 /\ offline
  <2>1. SoundChannel(Feed!Teardown(p)) /\ Feed!Teardown(p).alarms <= p.alarms
          /\ Feed!Teardown(p).diagnosing = p.diagnosing
    BY SocketTornDown
  <2>2. /\ SoundChannel(Feed!Park(Feed!Teardown(p)))
        /\ Feed!Park(Feed!Teardown(p)).ch.status = "offline"
        /\ Feed!Park(Feed!Teardown(p)).alarms <= Feed!Teardown(p).alarms
        /\ Feed!Park(Feed!Teardown(p)).diagnosing = Feed!Teardown(p).diagnosing
    BY <2>1, ChannelParked
  <2>3. Feed!ReachabilityChanged(p, offline) = Feed!Park(Feed!Teardown(p))
    BY <1>2 DEF Feed!ReachabilityChanged
  <2>4. p.alarms \in Nat /\ Feed!Teardown(p).alarms \in Nat
          /\ Feed!Park(Feed!Teardown(p)).alarms \in Nat
    BY <2>1, <2>2, FeedFaults
  <2>5. DrivenBy(Feed!Park(Feed!Teardown(p)), refs, offline)
    BY <1>2, <2>2 DEF DrivenBy
  <2>6. Feed!Park(Feed!Teardown(p)).alarms <= p.alarms
          /\ Feed!Park(Feed!Teardown(p)).diagnosing = p.diagnosing
    BY <2>1, <2>2, <2>4
  <2> QED BY <2>2, <2>3, <2>5, <2>6, Zenon
<1>3. CASE refs # 0 /\ ~ offline /\ (p.ch.socket # "none" \/ p.ch.status = "stopped")
  <2>1. Feed!ReachabilityChanged(p, offline) = p
    BY <1>3 DEF Feed!ReachabilityChanged
  <2>2. DrivenBy(p, refs, offline) /\ p.alarms <= p.alarms
    BY <1>3, FeedFaults DEF DrivenBy
  <2> QED BY <2>1, <2>2
<1>4. CASE refs # 0 /\ ~ offline /\ ~ (p.ch.socket # "none" \/ p.ch.status = "stopped")
  <2> DEFINE q == Feed!ClearTimers(p)
             r == [q EXCEPT !.ch.attempt = 0]
             t == Feed!Connect(r, refs, FALSE)
  <2>1. SoundChannel(q) /\ q.alarms <= p.alarms /\ q.diagnosing = p.diagnosing
    BY TimersCleared
  <2>2. Feed!ReachabilityChanged(p, offline) = t
    BY <1>4 DEF Feed!ReachabilityChanged
  <2> HIDE DEF q
  <2>3. SoundChannel(r) /\ r.alarms = q.alarms /\ r.diagnosing = q.diagnosing
    <3> DEFINE c == [q.ch EXCEPT !.attempt = 0]
    <3>1. r = [q EXCEPT !.ch = c]
      BY <2>1 DEF SoundChannel, ChannelState
    <3>2. /\ c \in ChannelState
          /\ c.timer = q.ch.timer /\ c.watchdog = q.ch.watchdog /\ c.socket = q.ch.socket
      BY <2>1 DEF SoundChannel, ChannelState, Feed!LiveStreamAssumption
    <3> HIDE DEF c
    <3> QED BY <2>1, <3>1, <3>2 DEF SoundChannel, ChannelState
  <2> HIDE DEF r
  <2>4. /\ SoundChannel(t) /\ DrivenBy(t, refs, FALSE)
        /\ t.alarms <= r.alarms /\ t.diagnosing = r.diagnosing
    BY <2>3, ChannelConnected
  <2> HIDE DEF t
  <2>5. p.alarms \in Nat /\ q.alarms \in Nat /\ t.alarms \in Nat
    BY <2>1, <2>4, FeedFaults
  <2>6. t.alarms <= p.alarms /\ t.diagnosing = p.diagnosing
    BY <2>1, <2>3, <2>4, <2>5
  <2>7. offline = FALSE
    BY <1>4
  <2> QED BY <2>2, <2>4, <2>6, <2>7, Zenon
<1> QED BY <1>1, <1>2, <1>3, <1>4

\* The invariant says no more than the property and the types do, in parts.
LEMMA FeedShape ==
  ASSUME Feed!LiveStreamAssumption
  PROVE  FeedInv <=> Feed!TypeOK /\ Feed!FeedIsDriven
<1> USE DEF Feed!LiveStreamAssumption, FeedInv, Feed!TypeOK, Feed!FeedIsDriven
<1>1. FeedInv => Feed!TypeOK /\ Feed!FeedIsDriven
  BY DEF CheckInv, ChannelInv, SoundChannel, ChannelState, DrivenBy, Feed!Page
<1>2. Feed!TypeOK /\ Feed!FeedIsDriven => FeedInv
  BY DEF CheckInv, ChannelInv, SoundChannel, ChannelState, DrivenBy, Feed!Page
<1> QED BY <1>1, <1>2

\* The channel turns to a page that is sound and driven.
LEMMA NetworkTurned ==
  ASSUME Feed!LiveStreamAssumption, stranded \in BOOLEAN, NEW p, SoundChannel(p), Feed!Turns(p),
         DrivenBy(p, refs', Feed!Offline' \/ stranded)
  PROVE  ChannelInv'
<1>1. Feed!Page' = [ch |-> p.ch, alarms |-> p.alarms, diagnosing |-> p.diagnosing]
  BY DEF Feed!Turns, Feed!Page
<1>2. p = [ch |-> p.ch, alarms |-> p.alarms, diagnosing |-> p.diagnosing]
  BY DEF SoundChannel
<1>3. Feed!Page' = p
  BY <1>1, <1>2
<1>4. stranded' = (stranded /\ p.ch.status \in {"offline", "idle"})
  BY DEF Feed!Turns
<1>5. DrivenBy(p, refs', Feed!Offline' \/ stranded')
  BY <1>4 DEF DrivenBy
<1>6. SoundChannel(Feed!Page)' /\ DrivenBy(Feed!Page, refs, Feed!Offline \/ stranded)'
  BY <1>3, <1>5 DEF SoundChannel, DrivenBy
<1> QED BY <1>4, <1>6 DEF ChannelInv, Feed!Turns

\* A page that hears of the network as it is.
LEMMA ChannelTold ==
  ASSUME Feed!LiveStreamAssumption, CheckInv, NEW p, SoundChannel(p),
         NEW reach \in {"online", "offline"},
         reach = network.reach => DrivenBy(p, refs, Feed!Offline \/ stranded), stranded \in BOOLEAN
  PROVE  /\ SoundChannel(Feed!Published(p, reach))
         /\ DrivenBy(Feed!Published(p, reach), refs, reach = "offline" \/ stranded)
         /\ Feed!Published(p, reach).diagnosing = p.diagnosing
         /\ Feed!Published(p, reach).alarms <= p.alarms
<1>1. CASE reach = network.reach
  BY <1>1, FeedFaults DEF Feed!Published, Feed!Offline, DrivenBy
<1>2. CASE reach # network.reach
  <2>1. refs \in Nat
    BY DEF CheckInv, Feed!LiveStreamAssumption
  <2> DEFINE o == reach = "offline"
  <2>2. o \in BOOLEAN
    OBVIOUS
  <2>3. Feed!Published(p, reach) = Feed!ReachabilityChanged(p, o)
    BY <1>2 DEF Feed!Published
  <2> HIDE DEF o
  <2>4. /\ SoundChannel(Feed!ReachabilityChanged(p, o))
        /\ DrivenBy(Feed!ReachabilityChanged(p, o), refs, o)
        /\ Feed!ReachabilityChanged(p, o).alarms <= p.alarms
        /\ Feed!ReachabilityChanged(p, o).diagnosing = p.diagnosing
    BY <2>1, <2>2, NetworkHeard
  <2>5. DrivenBy(Feed!ReachabilityChanged(p, o), refs, o \/ stranded)
    BY <2>4 DEF DrivenBy
  <2> QED BY <2>3, <2>4, <2>5 DEF o
<1> QED BY <1>1, <1>2

\* Every step keeps the check of the network going while it is owed.
LEMMA CheckStep ==
  ASSUME Feed!LiveStreamAssumption, FeedInv, [Feed!Next]_(Feed!vars)
  PROVE  CheckInv'
<1> USE DEF Feed!LiveStreamAssumption, FeedInv, CheckInv, Feed!Offline
<1>1. CASE Feed!ProbeEnds
  BY <1>1 DEF Feed!ProbeEnds
<1>2. CASE Feed!RecheckFires
  <2>1. CASE world.net
    <3>1. network' = [network EXCEPT !.probing = TRUE, !.recheck = FALSE]
      BY <1>2, <2>1 DEF Feed!RecheckFires, Feed!ProbeStarted
    <3>2. UNCHANGED <<refs, world, lfaults>>
      BY <1>2 DEF Feed!RecheckFires
    <3> QED BY <3>1, <3>2
  <2>2. CASE ~ world.net
    BY <1>2, <2>2 DEF Feed!RecheckFires, Feed!ProbeStarted
  <2> QED BY <2>1, <2>2
<1>3. CASE Feed!NetworkGoes
  <2>1. /\ network' = [network EXCEPT !.reach = "offline", !.recheck = FALSE]
        /\ world' = [world EXCEPT !.net = FALSE] /\ refs' = refs
        /\ lfaults < MaxFaults /\ lfaults' = lfaults + 1
    BY <1>3 DEF Feed!NetworkGoes
  <2>2. lfaults' \in 0 .. MaxFaults
    BY <2>1
  <2>3. /\ network' \in [reach : {"online", "offline"}, probing : BOOLEAN, recheck : BOOLEAN]
        /\ world' \in [net : BOOLEAN, up : BOOLEAN] /\ ~ world'.net
    BY <2>1
  <2> QED BY <2>1, <2>2, <2>3
<1>4. CASE Feed!NetworkReturns
  <2>1. /\ network' = [network EXCEPT !.probing = TRUE] /\ UNCHANGED <<refs, lfaults>>
        /\ world' = [world EXCEPT !.net = TRUE]
    BY <1>4 DEF Feed!NetworkReturns
  <2> QED BY <2>1
<1>5. CASE Feed!ServerGoes
  <2>1. /\ UNCHANGED <<network, refs>> /\ world' = [world EXCEPT !.up = FALSE]
        /\ lfaults < MaxFaults /\ lfaults' = lfaults + 1
    BY <1>5 DEF Feed!ServerGoes
  <2>2. lfaults' \in 0 .. MaxFaults
    BY <2>1
  <2>3. world' \in [net : BOOLEAN, up : BOOLEAN] /\ world'.net = world.net
    BY <2>1
  <2> QED BY <2>1, <2>2, <2>3
<1>6. CASE Feed!ServerReturns
  BY <1>6 DEF Feed!ServerReturns
<1>7. CASE Feed!Opens
  BY <1>7 DEF Feed!Opens, Feed!Reachable
<1>8. CASE Feed!Hears
  BY <1>8 DEF Feed!Hears
<1>9. CASE Feed!Breaks
  BY <1>9 DEF Feed!Breaks
<1>10. CASE Feed!Refused
  BY <1>10 DEF Feed!Refused
<1>11. CASE Feed!WatchdogFires
  BY <1>11 DEF Feed!WatchdogFires, Feed!ProbeStarted
<1>12. CASE Feed!TimerFires
  BY <1>12 DEF Feed!TimerFires
<1>13. CASE Feed!DiagnoseAnswered
  BY <1>13 DEF Feed!DiagnoseAnswered
<1>14. CASE Feed!DiagnoseNeedsLogin
  BY <1>14 DEF Feed!DiagnoseNeedsLogin
<1>15. CASE Feed!DiagnoseUnanswered
  BY <1>15 DEF Feed!DiagnoseUnanswered, Feed!ProbeStarted
<1>16. CASE Feed!Subscribe
  BY <1>16 DEF Feed!Subscribe
<1>17. CASE Feed!Unsubscribe
  BY <1>17 DEF Feed!Unsubscribe
<1>18. CASE Feed!Retry
  BY <1>18 DEF Feed!Retry
<1>19. CASE UNCHANGED Feed!vars
  BY <1>19 DEF Feed!vars
<1>20. CASE Feed!Severed
  BY <1>20 DEF Feed!Severed
<1>21. CASE Feed!ClosedInOrder
  BY <1>21 DEF Feed!ClosedInOrder
<1> QED BY <1>1, <1>2, <1>3, <1>4, <1>5, <1>6, <1>7, <1>8, <1>9, <1>10, <1>11, <1>12, <1>13, <1>14,
           <1>15, <1>16, <1>17, <1>18, <1>19, <1>20, <1>21
        DEF Feed!Next, Feed!Socket, Feed!Timers, Feed!Checks, Feed!Outside, Feed!User

\* Every step leaves a channel that is driven.
LEMMA ChannelStep ==
  ASSUME Feed!LiveStreamAssumption, FeedInv, [Feed!Next]_(Feed!vars)
  PROVE  ChannelInv'
<1> DEFINE doubt == Feed!Offline \/ stranded
<1>0. /\ CheckInv /\ CheckInv' /\ SoundChannel(Feed!Page) /\ DrivenBy(Feed!Page, refs, doubt)
      /\ stranded \in BOOLEAN /\ refs \in Nat /\ refs' \in Nat
      /\ Feed!Offline \in BOOLEAN /\ Feed!Offline' \in BOOLEAN
      /\ alarms <= MaxTimers /\ diagnosing <= MaxTimers
  BY CheckStep DEF FeedInv, ChannelInv, CheckInv, Feed!LiveStreamAssumption, Feed!Offline
<1>p. /\ Feed!Page.ch = channel /\ Feed!Page.alarms = alarms /\ Feed!Page.diagnosing = diagnosing
      /\ channel \in ChannelState /\ alarms \in Nat /\ diagnosing \in Nat
  BY <1>0 DEF Feed!Page, SoundChannel
<1> HIDE DEF doubt
\* The channel turns to a page that is driven with the network as it is known now.
<1>t. ASSUME NEW p, SoundChannel(p), Feed!Turns(p), DrivenBy(p, refs', Feed!Offline')
      PROVE  ChannelInv'
  <2>1. DrivenBy(p, refs', Feed!Offline' \/ stranded)
    BY <1>t DEF DrivenBy
  <2> QED BY <1>0, <1>t, <2>1, NetworkTurned
\* What a page hears when the network is taken to be in a state.
<1>h. ASSUME NEW reach \in {"online", "offline"}, network'.reach = reach, UNCHANGED refs,
             NEW p, SoundChannel(p), DrivenBy(p, refs, doubt) \/ reach # network.reach
      PROVE  /\ SoundChannel(Feed!Published(p, reach))
             /\ DrivenBy(Feed!Published(p, reach), refs', Feed!Offline' \/ stranded)
             /\ Feed!Published(p, reach).diagnosing = p.diagnosing
             /\ Feed!Published(p, reach).alarms <= p.alarms
  <2>1. Feed!Offline' = (reach = "offline") /\ refs' = refs
    BY <1>h DEF Feed!Offline
  <2>2. /\ SoundChannel(Feed!Published(p, reach))
        /\ DrivenBy(Feed!Published(p, reach), refs, reach = "offline" \/ stranded)
        /\ Feed!Published(p, reach).diagnosing = p.diagnosing
        /\ Feed!Published(p, reach).alarms <= p.alarms
    BY <1>0, <1>h, ChannelTold DEF doubt
  <2> QED BY <2>1, <2>2
<1>1. CASE Feed!ProbeEnds
  <2>1. PICK reach \in {"online", "offline"} :
          /\ Feed!Turns(Feed!Published(Feed!Page, reach)) /\ network'.reach = reach
          /\ UNCHANGED refs
    BY <1>1 DEF Feed!ProbeEnds
  <2> QED BY <1>0, <1>h, <2>1, NetworkTurned
<1>2. CASE Feed!RecheckFires
  <2>1. Feed!Turns(Feed!ProbeStartedPage(Feed!Page)) /\ UNCHANGED refs
    BY <1>2 DEF Feed!RecheckFires
  <2>2. CASE world.net
    <3>1. Feed!Turns(Feed!Page) /\ Feed!Offline' = Feed!Offline
      BY <1>0, <1>2, <2>1, <2>2 DEF Feed!RecheckFires, Feed!ProbeStarted, Feed!ProbeStartedPage,
                                    Feed!Offline, CheckInv
    <3> QED BY <1>0, <2>1, <3>1, NetworkTurned DEF doubt
  <2>3. CASE ~ world.net
    <3>1. Feed!Turns(Feed!Published(Feed!Page, "offline")) /\ network'.reach = "offline"
      BY <1>0, <1>2, <2>1, <2>3 DEF Feed!RecheckFires, Feed!ProbeStarted, Feed!ProbeStartedPage,
                                    CheckInv
    <3> QED BY <1>0, <1>h, <2>1, <3>1, NetworkTurned
  <2> QED BY <2>2, <2>3
<1>3. CASE Feed!NetworkGoes
  <2>1. /\ Feed!Turns(Feed!Published(Feed!Page, "offline")) /\ UNCHANGED refs
        /\ network'.reach = "offline"
    BY <1>0, <1>3 DEF Feed!NetworkGoes, CheckInv
  <2> QED BY <1>0, <1>h, <2>1, NetworkTurned
<1>4. CASE \/ Feed!NetworkReturns
           \/ Feed!ServerGoes
           \/ Feed!ServerReturns
           \/ UNCHANGED Feed!vars
  <2>1. UNCHANGED <<refs, channel, alarms, diagnosing, stranded>> /\ Feed!Offline' = Feed!Offline
    BY <1>0, <1>4 DEF Feed!NetworkReturns, Feed!ServerGoes, Feed!ServerReturns, Feed!vars,
                      Feed!Offline, CheckInv
  <2> QED BY <2>1 DEF FeedInv, ChannelInv, Feed!Page, SoundChannel, DrivenBy
<1>5. CASE Feed!Opens
  <2> DEFINE s == Feed!Show(Feed!Page, "open")
             q == [s EXCEPT !.ch.socket = "open", !.ch.attempt = 0, !.ch.watchdog = TRUE]
  <2>1. /\ SoundChannel(s) /\ s.ch.status = "open" /\ s.alarms = alarms
        /\ s.ch.socket = channel.socket
    BY <1>0, <1>p, FeedShown DEF Feed!Status
  <2>2. Feed!Turns(q)
    BY <1>5 DEF Feed!Opens
  <2> HIDE DEF s
  <2> DEFINE d == [s.ch EXCEPT !.socket = "open", !.attempt = 0, !.watchdog = TRUE]
  <2>3. q = [s EXCEPT !.ch = d]
    BY <2>1 DEF SoundChannel, ChannelState
  <2>4. d \in ChannelState /\ d.socket = "open" /\ d.timer = s.ch.timer
    <3>1. 0 \in 0 .. MaxAttempts
      BY DEF Feed!LiveStreamAssumption
    <3> QED BY <2>1, <3>1 DEF ChannelState, SoundChannel
  <2> HIDE DEF d
  <2>5. SoundChannel(q) /\ q.ch.socket = "open"
    BY <2>1, <2>3, <2>4 DEF SoundChannel
  <2> HIDE DEF q
  <2>6. DrivenBy(q, refs', Feed!Offline')
    BY <2>5 DEF DrivenBy
  <2> QED BY <1>t, <2>2, <2>5, <2>6
<1>6. CASE Feed!Hears
  <2> DEFINE s == Feed!Page
             q == [s EXCEPT !.ch.watchdog = TRUE]
  <2>1. SoundChannel(s) /\ s.ch = channel
    BY <1>0, <1>p
  <2>2. Feed!Turns(q) /\ channel.socket = "open"
    BY <1>6 DEF Feed!Hears
  <2> HIDE DEF s
  <2> DEFINE d == [s.ch EXCEPT !.watchdog = TRUE]
  <2>3. q = [s EXCEPT !.ch = d]
    BY <2>1 DEF SoundChannel, ChannelState
  <2>4. d \in ChannelState /\ d.socket = "open" /\ d.timer = s.ch.timer
    BY <2>1, <2>2 DEF ChannelState, SoundChannel
  <2> HIDE DEF d
  <2>5. SoundChannel(q) /\ q.ch.socket = "open"
    BY <2>1, <2>3, <2>4 DEF SoundChannel
  <2> HIDE DEF q
  <2>6. DrivenBy(q, refs', Feed!Offline')
    BY <2>5 DEF DrivenBy
  <2> QED BY <1>t, <2>2, <2>5, <2>6
\* A closed socket leaves a sound page.
<1>c. SoundChannel(Feed!Closed) /\ Feed!Closed.diagnosing = diagnosing
        /\ Feed!Closed.alarms <= alarms
  <2>1. /\ SoundChannel(Feed!ClearTimers(Feed!Page)) /\ ~ Feed!ClearTimers(Feed!Page).ch.watchdog
        /\ Feed!ClearTimers(Feed!Page).diagnosing = diagnosing
        /\ Feed!ClearTimers(Feed!Page).alarms <= alarms
    BY <1>0, <1>p, TimersCleared
  <2> DEFINE q == Feed!ClearTimers(Feed!Page)
  <2> HIDE DEF q
  <2>2. SoundChannel([q EXCEPT !.ch.socket = "none"])
          /\ [q EXCEPT !.ch.socket = "none"].diagnosing = diagnosing
          /\ [q EXCEPT !.ch.socket = "none"].alarms <= alarms
    BY <2>1 DEF q, SoundChannel, ChannelState
  <2> QED BY <2>2 DEF q, Feed!Closed
<1>7. CASE Feed!Breaks \/ Feed!Severed
  <2> DEFINE q == Feed!Show(Feed!Closed, "waiting")
             r == [q EXCEPT !.diagnosing = @ + 1]
  <2>1. SoundChannel(q)
    BY <1>c, FeedShown DEF Feed!Status
  <2>2. Feed!Turns(r)
    BY <1>7 DEF Feed!Breaks, Feed!Severed
  <2> HIDE DEF q
  <2>3. SoundChannel(r) /\ r.diagnosing > 0
    BY <2>1 DEF SoundChannel
  <2> HIDE DEF r
  <2>4. DrivenBy(r, refs', Feed!Offline')
    BY <2>3 DEF DrivenBy
  <2> QED BY <1>t, <2>2, <2>3, <2>4
<1>8. CASE Feed!Refused
  <2>1. CASE Feed!Turns(Feed!Show(Feed!Closed, "stopped"))
    <3>1. SoundChannel(Feed!Show(Feed!Closed, "stopped"))
            /\ Feed!Show(Feed!Closed, "stopped").ch.status = "stopped"
      BY <1>c, FeedShown DEF Feed!Status
    <3>2. DrivenBy(Feed!Show(Feed!Closed, "stopped"), refs', Feed!Offline')
      BY <3>1 DEF DrivenBy
    <3> QED BY <1>t, <2>1, <3>1, <3>2
  <2>2. CASE Feed!Turns(Feed!ScheduleReconnect(Feed!Closed, refs, Feed!Offline))
    <3>1. refs' = refs /\ Feed!Offline' = Feed!Offline
      BY <1>8 DEF Feed!Refused, Feed!Offline
    <3> QED BY <1>0, <1>c, <1>t, <2>2, <3>1, ReconnectScheduled
  <2> QED BY <1>8, <2>1, <2>2 DEF Feed!Refused
<1>17. CASE Feed!ClosedInOrder
  <2> DEFINE p == Feed!Show(Feed!Closed, "idle")
  <2>1. SoundChannel(p) /\ p.ch.status = "idle" /\ p.alarms = Feed!Closed.alarms
          /\ p.diagnosing = diagnosing
    BY <1>c, FeedShown DEF Feed!Status
  <2>2. /\ channel' = p.ch /\ alarms' = p.alarms /\ diagnosing' = p.diagnosing /\ refs' = refs
        /\ stranded' = TRUE
    BY <1>17 DEF Feed!ClosedInOrder
  <2> HIDE DEF p
  <2>3. Feed!Page' = p
    BY <2>1, <2>2 DEF Feed!Page, SoundChannel
  <2>4. DrivenBy(p, refs', Feed!Offline' \/ stranded')
    BY <2>1, <2>2 DEF DrivenBy
  <2>5. p.alarms <= MaxTimers /\ p.diagnosing <= MaxTimers
    <3>1. p.alarms <= alarms /\ p.alarms \in Nat /\ MaxTimers \in Nat
      BY <1>c, <2>1, FeedFaults DEF Feed!LiveStreamAssumption
    <3> QED BY <1>0, <1>p, <2>1, <3>1
  <2> QED BY <2>1, <2>2, <2>3, <2>4, <2>5 DEF ChannelInv, SoundChannel, DrivenBy
<1>9. CASE Feed!WatchdogFires
  <2> DEFINE q == Feed!ProbeStartedPage(Feed!Teardown(Feed!Page))
  <2>1. SoundChannel(Feed!Teardown(Feed!Page))
    BY <1>0, SocketTornDown
  <2>2. Feed!Turns(Feed!ScheduleReconnect(q, refs, Feed!Offline')) /\ refs' = refs
    BY <1>9 DEF Feed!WatchdogFires, Feed!Offline
  <2>3. SoundChannel(q)
    <3>1. CASE world.net
      BY <2>1, <3>1 DEF Feed!ProbeStartedPage
    <3>2. CASE ~ world.net
      <4>1. q = Feed!Published(Feed!Teardown(Feed!Page), "offline") /\ network'.reach = "offline"
        BY <1>0, <1>9, <3>2 DEF Feed!WatchdogFires, Feed!ProbeStartedPage, Feed!ProbeStarted,
                                CheckInv
      <4>2. CASE network.reach = "offline"
        BY <2>1, <4>1, <4>2 DEF Feed!Published
      <4>3. CASE network.reach # "offline"
        BY <1>h, <2>1, <2>2, <4>1, <4>3
      <4> QED BY <4>2, <4>3
    <3> QED BY <3>1, <3>2
  <2> HIDE DEF q
  <2> QED BY <1>0, <1>t, <2>2, <2>3, ReconnectScheduled
<1>10. CASE Feed!TimerFires
  <2> DEFINE s == Feed!Page
             q == [s EXCEPT !.alarms = @ - 1, !.ch.timer = FALSE]
  <2>1. SoundChannel(s) /\ s.alarms > 0
    BY <1>0, <1>p, <1>10 DEF Feed!TimerFires
  <2>2. Feed!Turns(Feed!Connect(q, refs, Feed!Offline)) /\ refs' = refs
          /\ Feed!Offline' = Feed!Offline
    BY <1>10 DEF Feed!TimerFires, Feed!Offline
  <2> HIDE DEF s
  <2> DEFINE d == [s.ch EXCEPT !.timer = FALSE]
  <2>3. q = [s EXCEPT !.alarms = s.alarms - 1, !.ch = d]
    BY <2>1 DEF SoundChannel, ChannelState
  <2>4. d \in ChannelState /\ ~ d.timer /\ d.watchdog = s.ch.watchdog /\ d.socket = s.ch.socket
    BY <2>1 DEF ChannelState, SoundChannel
  <2>5. s.alarms - 1 \in Nat
    BY <2>1, FeedFaults
  <2> HIDE DEF d
  <2>6. SoundChannel(q)
    BY <2>1, <2>3, <2>4, <2>5 DEF SoundChannel
  <2> HIDE DEF q
  <2> QED BY <1>0, <1>t, <2>2, <2>6, ChannelConnected
\* An answer to diagnose.
<1>d. ASSUME diagnosing > 0
      PROVE  /\ SoundChannel([Feed!Page EXCEPT !.diagnosing = @ - 1])
             /\ [Feed!Page EXCEPT !.diagnosing = @ - 1].alarms = alarms
             /\ [Feed!Page EXCEPT !.diagnosing = @ - 1].diagnosing = diagnosing - 1
  <2>1. [Feed!Page EXCEPT !.diagnosing = @ - 1]
          = [ch |-> channel, alarms |-> alarms, diagnosing |-> diagnosing - 1]
    BY DEF Feed!Page
  <2>2. diagnosing - 1 \in Nat
    BY <1>d, <1>p
  <2> QED BY <1>0, <1>p, <2>1, <2>2 DEF SoundChannel
<1>11. CASE Feed!DiagnoseAnswered
  <2> DEFINE q == [Feed!Page EXCEPT !.diagnosing = @ - 1]
  <2>1. Feed!Turns(Feed!ScheduleReconnect(q, refs, Feed!Offline)) /\ refs' = refs
          /\ Feed!Offline' = Feed!Offline
    BY <1>11 DEF Feed!DiagnoseAnswered, Feed!Offline
  <2>2. SoundChannel(q)
    BY <1>d, <1>11 DEF Feed!DiagnoseAnswered
  <2> HIDE DEF q
  <2> QED BY <1>0, <1>t, <2>1, <2>2, ReconnectScheduled
<1>12. CASE Feed!DiagnoseNeedsLogin
  <2> DEFINE q == [Feed!Page EXCEPT !.diagnosing = @ - 1]
  <2>1. Feed!Turns(Feed!Show(q, "stopped"))
    BY <1>12 DEF Feed!DiagnoseNeedsLogin
  <2>2. SoundChannel(q)
    BY <1>d, <1>12 DEF Feed!DiagnoseNeedsLogin
  <2> HIDE DEF q
  <2>3. SoundChannel(Feed!Show(q, "stopped")) /\ Feed!Show(q, "stopped").ch.status = "stopped"
    BY <2>2, FeedShown DEF Feed!Status
  <2>4. DrivenBy(Feed!Show(q, "stopped"), refs', Feed!Offline')
    BY <2>3 DEF DrivenBy
  <2> QED BY <1>t, <2>1, <2>3, <2>4
<1>13. CASE Feed!DiagnoseUnanswered
  <2> DEFINE q == [Feed!Page EXCEPT !.diagnosing = @ - 1]
             r == Feed!ProbeStartedPage(q)
             p == Feed!Park(r)
  <2>1. SoundChannel(q) /\ q.alarms = alarms /\ q.diagnosing = diagnosing - 1
    BY <1>d, <1>13 DEF Feed!DiagnoseUnanswered
  <2>2. /\ channel' = p.ch /\ alarms' = p.alarms /\ diagnosing' = p.diagnosing /\ refs' = refs
        /\ stranded' = (network'.reach = "online")
    BY <1>13 DEF Feed!DiagnoseUnanswered
  <2> HIDE DEF q
  <2>3. SoundChannel(r) /\ r.alarms <= alarms /\ r.diagnosing = diagnosing - 1
    <3>1. CASE world.net
      BY <1>p, <2>1, <3>1 DEF Feed!ProbeStartedPage
    <3>2. CASE ~ world.net
      <4>1. r = Feed!Published(q, "offline") /\ network'.reach = "offline"
        BY <1>0, <1>13, <3>2 DEF Feed!DiagnoseUnanswered, Feed!ProbeStartedPage, Feed!ProbeStarted,
                                 CheckInv
      <4>2. CASE network.reach = "offline"
        BY <1>p, <2>1, <4>1, <4>2 DEF Feed!Published
      <4>3. CASE network.reach # "offline"
        BY <1>h, <2>1, <2>2, <4>1, <4>3
      <4> QED BY <4>2, <4>3
    <3> QED BY <3>1, <3>2
  <2> HIDE DEF r
  <2>4. /\ SoundChannel(p) /\ p.ch.status = "offline"
        /\ p.alarms <= r.alarms /\ p.diagnosing = r.diagnosing
    BY <2>3, ChannelParked
  <2> HIDE DEF p
  <2>5. p = [ch |-> p.ch, alarms |-> p.alarms, diagnosing |-> p.diagnosing]
    BY <2>4 DEF SoundChannel
  <2>6. Feed!Page' = p
    BY <2>2, <2>5 DEF Feed!Page
  <2>7. stranded' \in BOOLEAN /\ (Feed!Offline' \/ stranded')
    BY <1>0, <2>2 DEF Feed!Offline, CheckInv
  <2>8. DrivenBy(p, refs', Feed!Offline' \/ stranded')
    BY <2>4, <2>7 DEF DrivenBy
  <2>9. p.alarms <= MaxTimers /\ p.diagnosing <= MaxTimers
    <3>1. /\ p.alarms \in Nat /\ r.alarms \in Nat /\ MaxTimers \in Nat
      BY <2>3, <2>4, FeedFaults DEF Feed!LiveStreamAssumption
    <3> QED BY <1>0, <1>p, <2>3, <2>4, <3>1
  <2> QED BY <2>2, <2>4, <2>6, <2>7, <2>8, <2>9 DEF ChannelInv, SoundChannel, DrivenBy
<1>14. CASE Feed!Subscribe
  <2>1. CASE channel.socket = "none" /\ ~ channel.timer /\ channel.status # "stopped"
    <3>1. Feed!Turns(Feed!Connect(Feed!Page, refs', Feed!Offline)) /\ Feed!Offline' = Feed!Offline
      BY <1>14, <2>1 DEF Feed!Subscribe, Feed!Offline
    <3> QED BY <1>0, <1>t, <3>1, ChannelConnected
  <2>2. CASE ~ (channel.socket = "none" /\ ~ channel.timer /\ channel.status # "stopped")
    <3>1. /\ UNCHANGED <<channel, alarms, diagnosing, stranded>> /\ Feed!Offline' = Feed!Offline
      BY <1>14, <2>2 DEF Feed!Subscribe, Feed!Offline
    <3>2. channel.timer => alarms > 0
      BY <1>0, <1>p DEF SoundChannel
    <3>3. DrivenBy(Feed!Page, refs', Feed!Offline \/ stranded)
      BY <1>p, <2>2, <3>2 DEF DrivenBy
    <3>4. Feed!Page' = Feed!Page
      BY <3>1 DEF Feed!Page
    <3> QED BY <1>0, <3>1, <3>3, <3>4 DEF ChannelInv, SoundChannel, DrivenBy
  <2> QED BY <2>1, <2>2
<1>15. CASE Feed!Unsubscribe
  <2>1. CASE refs = 1
    <3>1. Feed!Turns(Feed!Show(Feed!Teardown(Feed!Page), "idle")) /\ refs' = 0
      BY <1>15, <2>1 DEF Feed!Unsubscribe
    <3>2. SoundChannel(Feed!Show(Feed!Teardown(Feed!Page), "idle"))
      BY <1>0, SocketTornDown, FeedShown DEF Feed!Status
    <3>3. DrivenBy(Feed!Show(Feed!Teardown(Feed!Page), "idle"), refs', Feed!Offline')
      BY <3>1 DEF DrivenBy
    <3> QED BY <1>t, <3>1, <3>2, <3>3
  <2>2. CASE refs # 1
    <3>1. /\ UNCHANGED <<channel, alarms, diagnosing, stranded>> /\ Feed!Offline' = Feed!Offline
          /\ refs > 0
      BY <1>15, <2>2 DEF Feed!Unsubscribe, Feed!Offline
    <3>3. DrivenBy(Feed!Page, refs', Feed!Offline \/ stranded)
      BY <1>0, <3>1 DEF DrivenBy, doubt
    <3>4. Feed!Page' = Feed!Page
      BY <3>1 DEF Feed!Page
    <3> QED BY <1>0, <3>1, <3>3, <3>4 DEF ChannelInv, SoundChannel, DrivenBy
  <2> QED BY <2>1, <2>2
<1>16. CASE Feed!Retry
  <2> DEFINE q == Feed!Teardown(Feed!Page)
             r == [q EXCEPT !.ch.attempt = 0]
             t == Feed!Show(r, "idle")
  <2>1. SoundChannel(q)
    BY <1>0, SocketTornDown
  <2>2. Feed!Turns(Feed!Connect(t, refs, FALSE)) /\ refs' = refs /\ Feed!Offline' = FALSE
    BY <1>0, <1>16 DEF Feed!Retry, Feed!Offline
  <2> HIDE DEF q
  <2>3. SoundChannel(r)
    <3> DEFINE c == [q.ch EXCEPT !.attempt = 0]
    <3>1. r = [q EXCEPT !.ch = c]
      BY <2>1 DEF SoundChannel, ChannelState
    <3>2. c \in ChannelState /\ c.timer = q.ch.timer /\ c.watchdog = q.ch.watchdog
            /\ c.socket = q.ch.socket
      BY <2>1 DEF SoundChannel, ChannelState, Feed!LiveStreamAssumption
    <3> HIDE DEF c
    <3> QED BY <2>1, <3>1, <3>2 DEF SoundChannel, ChannelState
  <2> HIDE DEF r
  <2>4. SoundChannel(t)
    BY <2>3, FeedShown DEF Feed!Status
  <2> HIDE DEF t
  <2>5. SoundChannel(Feed!Connect(t, refs, FALSE))
          /\ DrivenBy(Feed!Connect(t, refs, FALSE), refs, FALSE)
    BY <1>0, <2>4, ChannelConnected
  <2> QED BY <1>t, <2>2, <2>5
<1> QED BY <1>1, <1>2, <1>3, <1>4, <1>5, <1>6, <1>7, <1>8, <1>9, <1>10, <1>11, <1>12, <1>13,
           <1>14, <1>15, <1>16, <1>17
        DEF Feed!Next, Feed!Socket, Feed!Timers, Feed!Checks, Feed!Outside, Feed!User

\* Whatever is lost or closed and in whatever order timers fire, a channel with listeners is
\* driven.
LEMMA FeedHolds ==
  ASSUME Feed!LiveStreamAssumption
  PROVE  Feed!Spec => [](Feed!TypeOK /\ Feed!FeedIsDriven)
<1>1. Feed!Init => FeedInv
  <2> SUFFICES ASSUME Feed!Init PROVE FeedInv
    OBVIOUS
  <2>1. CheckInv
    BY DEF Feed!Init, Feed!LiveStreamAssumption, CheckInv, Feed!Offline
  <2>2. channel \in ChannelState /\ ~ channel.watchdog /\ ~ channel.timer
    BY DEF Feed!Init, Feed!LiveStreamAssumption, ChannelState, Feed!Status
  <2>3. SoundChannel(Feed!Page) /\ DrivenBy(Feed!Page, refs, Feed!Offline \/ stranded)
    BY <2>2 DEF Feed!Init, SoundChannel, DrivenBy, Feed!Page
  <2>4. alarms = 0 /\ diagnosing = 0 /\ MaxTimers \in Nat
    BY DEF Feed!Init, Feed!LiveStreamAssumption
  <2>5. alarms <= MaxTimers /\ diagnosing <= MaxTimers
    BY <2>4
  <2>6. stranded \in BOOLEAN
    BY DEF Feed!Init
  <2> QED BY <2>1, <2>3, <2>5, <2>6 DEF FeedInv, ChannelInv
<1>2. FeedInv /\ [Feed!Next]_(Feed!vars) => FeedInv'
  BY CheckStep, ChannelStep DEF FeedInv
<1>3. FeedInv => Feed!TypeOK /\ Feed!FeedIsDriven
  BY FeedShape
<1> QED BY <1>1, <1>2, <1>3, PTL DEF Feed!Spec

-----------------------------------------------------------------------------
(* The view of a camera *)

\* What is on its way to a page.
PageSignal == View!Health \cup {"frame"} \cup View!Closing

PageState == [mounted : BOOLEAN, socket : {"none", "connecting", "open"},
              status : {"connecting", "open", "waiting", "stopped"}, attempt : 0 .. MaxAttempts,
              timer : BOOLEAN, health : View!Health \cup {"nothing"}, decoding : BOOLEAN,
              held : BOOLEAN, dropped : BOOLEAN]

\* A page that shows h shows l once everything on its way, w, has arrived.
WillArrive(w, h, l) ==
  \/ h = l /\ \A k \in 1 .. Len(w) : w[k] \notin View!Health
  \/ \E k \in 1 .. Len(w) : w[k] = l /\ \A j \in (k + 1) .. Len(w) : w[j] \notin View!Health

\* A pump writes to an open socket, and only what has been ended is closed: so a page that
\* connects finds nothing of the socket before.
SocketInv ==
  /\ pump.on => /\ page.socket = "open" /\ Len(towards) <= MaxWire + 1
                /\ \A k \in 1 .. Len(towards) : towards[k] \notin View!Closing
  /\ towards # <<>> => page.socket = "open"

\* A page that is not shown has nothing left to do, and one that waits has no socket.
PageInv ==
  /\ page.timer => page.socket = "none"
  /\ ~ page.mounted => /\ page.socket = "none" /\ ~ page.timer
                       /\ ~ page.decoding /\ ~ page.held
  /\ View!ViewIsDriven

\* The page will show the state that the pump has told last.
ToldInv == pump.on /\ pump.last # "nothing" => WillArrive(towards, page.health, pump.last)

ViewInv == View!TypeOK /\ SocketInv /\ PageInv /\ ToldInv /\ View!ViewersAreBounded

\* A sequence that grows by a signal.
LEMMA SignalSent ==
  ASSUME NEW w \in Seq(PageSignal), NEW x \in PageSignal
  PROVE  /\ Append(w, x) \in Seq(PageSignal) /\ Len(Append(w, x)) = Len(w) + 1 /\ Len(w) \in Nat
         /\ \A k \in 1 .. Len(w) : Append(w, x)[k] = w[k]
         /\ Append(w, x)[Len(w) + 1] = x
         /\ w \o <<x>> = Append(w, x)
BY AppendProperties, AppendIsConcat, LenProperties

\* What will arrive still does when something that is no state follows it.
LEMMA ArrivesAfterMore ==
  ASSUME NEW w \in Seq(PageSignal), NEW x \in PageSignal \ View!Health, NEW h, NEW l,
         WillArrive(w, h, l)
  PROVE  WillArrive(Append(w, x), h, l)
<1> DEFINE v == Append(w, x)
<1>1. /\ v \in Seq(PageSignal) /\ Len(v) = Len(w) + 1 /\ Len(w) \in Nat
      /\ \A k \in 1 .. Len(w) : v[k] = w[k]
      /\ v[Len(w) + 1] = x
  BY SignalSent
<1> HIDE DEF v
<1>2. CASE h = l /\ \A k \in 1 .. Len(w) : w[k] \notin View!Health
  <2>1. \A k \in 1 .. Len(v) : v[k] \notin View!Health
    BY <1>1, <1>2
  <2> QED BY <1>2, <2>1 DEF WillArrive, v
<1>3. CASE \E k \in 1 .. Len(w) : w[k] = l /\ \A j \in (k + 1) .. Len(w) : w[j] \notin View!Health
  <2>1. PICK k \in 1 .. Len(w) : w[k] = l /\ \A j \in (k + 1) .. Len(w) : w[j] \notin View!Health
    BY <1>3
  <2>2. k \in 1 .. Len(v) /\ v[k] = l
    BY <1>1, <2>1
  <2>3. \A j \in (k + 1) .. Len(v) : v[j] \notin View!Health
    BY <1>1, <2>1
  <2> QED BY <2>2, <2>3 DEF WillArrive, v
<1> QED BY <1>2, <1>3 DEF WillArrive

\* A state that is sent last will arrive.
LEMMA ArrivesWhenTold ==
  ASSUME NEW w \in Seq(PageSignal), NEW x \in PageSignal, NEW h
  PROVE  WillArrive(Append(w, x), h, x)
<1> DEFINE v == Append(w, x)
<1>1. /\ v \in Seq(PageSignal) /\ Len(v) = Len(w) + 1 /\ Len(w) \in Nat
      /\ v[Len(w) + 1] = x
  BY SignalSent
<1> HIDE DEF v
<1>2. Len(v) \in 1 .. Len(v) /\ v[Len(v)] = x
        /\ \A j \in (Len(v) + 1) .. Len(v) : v[j] \notin View!Health
  BY <1>1
<1> QED BY <1>2 DEF WillArrive, v

\* What will arrive still does when the page has heard what came first.
LEMMA ArrivesWhenHeard ==
  ASSUME NEW w \in Seq(PageSignal), w # <<>>, NEW h, NEW l \in View!Health, WillArrive(w, h, l)
  PROVE  WillArrive(Tail(w), IF Head(w) \in View!Health THEN Head(w) ELSE h, l)
<1> DEFINE v == Tail(w)
           g == IF Head(w) \in View!Health THEN Head(w) ELSE h
<1>1. /\ v \in Seq(PageSignal) /\ Len(v) = Len(w) - 1 /\ Len(w) \in Nat \ {0} /\ Len(v) \in Nat
      /\ \A k \in 1 .. Len(v) : v[k] = w[k + 1]
  BY HeadTailProperties, LenProperties, EmptySeq
<1>2. Head(w) = w[1]
  BY HeadTailProperties
<1>3. CASE h = l /\ \A k \in 1 .. Len(w) : w[k] \notin View!Health
  <2> HIDE DEF v
  <2>1. \A k \in 1 .. Len(v) : v[k] \notin View!Health
    BY <1>1, <1>3
  <2>2. g = h
    BY <1>1, <1>2, <1>3
  <2> HIDE DEF g
  <2> QED BY <1>3, <2>1, <2>2 DEF WillArrive, v, g
<1>4. CASE \E k \in 1 .. Len(w) : w[k] = l /\ \A j \in (k + 1) .. Len(w) : w[j] \notin View!Health
  <2>1. PICK k \in 1 .. Len(w) : w[k] = l /\ \A j \in (k + 1) .. Len(w) : w[j] \notin View!Health
    BY <1>4
  <2> HIDE DEF v
  <2>2. CASE k = 1
    <3>1. \A j \in 1 .. Len(v) : v[j] \notin View!Health
      BY <1>1, <2>1, <2>2
    <3>2. Head(w) = l
      BY <1>2, <2>1, <2>2
    <3> QED BY <3>1, <3>2 DEF WillArrive, v
  <2>3. CASE k # 1
    <3>1. k - 1 \in 1 .. Len(v) /\ v[k - 1] = l
      BY <1>1, <2>1, <2>3
    <3>2. \A j \in ((k - 1) + 1) .. Len(v) : v[j] \notin View!Health
      BY <1>1, <2>1, <2>3
    <3> HIDE DEF g
    <3> QED BY <3>1, <3>2 DEF WillArrive, v, g
  <2> QED BY <2>2, <2>3
<1> QED BY <1>3, <1>4 DEF WillArrive

\* run_frame_pump: an iteration tells the state when it has changed, and then sends the frame.
LEMMA PumpTells ==
  ASSUME View!FrameViewAssumption, View!TypeOK, SocketInv, ToldInv, pump.on,
         NEW state \in View!Health,
         NEW frame \in {<<>>, <<"frame">>}
  PROVE  /\ towards \o View!Told(state) \o frame \in Seq(PageSignal)
         /\ Len(towards \o View!Told(state) \o frame) <= Len(towards) + 2
         /\ \A k \in 1 .. Len(towards \o View!Told(state) \o frame) :
              (towards \o View!Told(state) \o frame)[k] \notin View!Closing
         /\ WillArrive(towards \o View!Told(state) \o frame, page.health, state)
<1> DEFINE u == towards \o View!Told(state)
           w == u \o frame
<1>1. /\ towards \in Seq(PageSignal) /\ Len(towards) \in Nat
      /\ \A k \in 1 .. Len(towards) : towards[k] \notin View!Closing
      /\ pump.last # "nothing" => WillArrive(towards, page.health, pump.last)
  BY LenProperties DEF View!TypeOK, PageSignal, SocketInv, ToldInv
<1>2. state \in PageSignal /\ state \notin View!Closing /\ state # "nothing"
      /\ "frame" \in PageSignal \ View!Health /\ "frame" \notin View!Closing
  BY DEF PageSignal, View!Health, View!Closing
<1>3. /\ u \in Seq(PageSignal) /\ Len(u) <= Len(towards) + 1 /\ Len(u) \in Nat
      /\ \A k \in 1 .. Len(u) : u[k] \notin View!Closing
      /\ WillArrive(u, page.health, state)
  <2>1. CASE pump.last = state
    <3>1. u = towards
      BY <1>1, <2>1, ConcatEmptySeq DEF View!Told
    <3> QED BY <1>1, <1>2, <2>1, <3>1
  <2>2. CASE pump.last # state
    <3>1. u = Append(towards, state)
      BY <1>1, <1>2, <2>2, SignalSent DEF View!Told
    <3>2. /\ u \in Seq(PageSignal) /\ Len(u) = Len(towards) + 1
          /\ \A k \in 1 .. Len(towards) : u[k] = towards[k]
          /\ u[Len(towards) + 1] = state
      BY <1>1, <1>2, <3>1, SignalSent
    <3>3. WillArrive(u, page.health, state)
      BY <1>1, <1>2, <3>1, ArrivesWhenTold
    <3> HIDE DEF u
    <3> QED BY <1>1, <1>2, <3>2, <3>3
  <2> QED BY <2>1, <2>2
<1> HIDE DEF u
<1>4. CASE frame = <<>>
  <2>1. w = u
    BY <1>3, <1>4, ConcatEmptySeq
  <2> HIDE DEF w
  <2>2. /\ w \in Seq(PageSignal) /\ Len(w) <= Len(towards) + 2
        /\ \A k \in 1 .. Len(w) : w[k] \notin View!Closing
        /\ WillArrive(w, page.health, state)
    BY <1>1, <1>3, <2>1
  <2> QED BY <2>2 DEF w, u
<1>5. CASE frame = <<"frame">>
  <2>1. w = Append(u, "frame")
    BY <1>2, <1>3, <1>5, SignalSent
  <2>2. /\ w \in Seq(PageSignal) /\ Len(w) = Len(u) + 1
        /\ \A k \in 1 .. Len(u) : w[k] = u[k]
        /\ w[Len(u) + 1] = "frame"
    BY <1>2, <1>3, <2>1, SignalSent
  <2>3. WillArrive(w, page.health, state)
    BY <1>2, <1>3, <2>1, ArrivesAfterMore
  <2> HIDE DEF w
  <2>4. Len(w) <= Len(towards) + 2 /\ \A k \in 1 .. Len(w) : w[k] \notin View!Closing
    BY <1>1, <1>2, <1>3, <2>2
  <2> QED BY <2>2, <2>3, <2>4 DEF w, u
<1> QED BY <1>4, <1>5

\* frame-socket.ts: a page whose socket has gone tries again or stops.
LEMMA SocketTriesAgain ==
  ASSUME View!FrameViewAssumption, View!TypeOK
  PROVE  /\ View!Scheduled(View!Gone(page)) \in PageState
         /\ View!Scheduled(View!Gone(page)).socket = "none"
         /\ View!Scheduled(View!Gone(page)).mounted = page.mounted
         /\ View!Scheduled(View!Gone(page)).decoding = page.decoding
         /\ View!Scheduled(View!Gone(page)).held = page.held
         /\ View!Scheduled(View!Gone(page)).health = page.health
         /\ View!Scheduled(View!Gone(page)).status = "stopped"
              \/ View!Scheduled(View!Gone(page)).timer
<1> DEFINE p == View!Gone(page)
<1>1. /\ p \in PageState
      /\ p.socket = "none" /\ p.mounted = page.mounted /\ p.decoding = page.decoding
      /\ p.held = page.held /\ p.health = page.health
  BY DEF View!TypeOK, View!Gone, PageState
<1> HIDE DEF p
<1>2. p.attempt \in 0 .. MaxAttempts /\ MaxAttempts \in Nat
  BY <1>1 DEF View!FrameViewAssumption, PageState
<1>3. CASE p.attempt >= MaxAttempts
  BY <1>1, <1>3 DEF View!Scheduled, p, PageState
<1>4. CASE ~ (p.attempt >= MaxAttempts)
  <2>1. p.attempt + 1 \in 0 .. MaxAttempts
    BY <1>2, <1>4
  <2>2. View!Scheduled(p)
          = [p EXCEPT !.attempt = p.attempt + 1, !.status = "waiting", !.timer = TRUE]
    BY <1>1, <1>4 DEF View!Scheduled, PageState
  <2> QED BY <1>1, <2>1, <2>2 DEF p, PageState
<1> QED BY <1>3, <1>4

\* The camera, the stream and the other viewers leave the page and its pump alone.
LEMMA OthersStep ==
  ASSUME View!FrameViewAssumption, ViewInv, UNCHANGED <<pump, towards, page>>,
         \/ View!GhostLeaves
         \/ View!Elsewhere
         \/ View!Captured
         \/ View!Ages
         \/ View!StreamFails
         \/ View!StreamReturns
         \/ View!StrayDecoded
         \/ UNCHANGED View!vars
  PROVE  ViewInv'
<1>1. SocketInv' /\ PageInv' /\ ToldInv'
  BY DEF ViewInv, SocketInv, PageInv, View!ViewIsDriven, ToldInv, WillArrive
<1>2. /\ others \in 0 .. MaxViewers /\ ghosts \in 0 .. MaxViewers /\ MaxViewers \in Nat
      /\ strays \in 0 .. MaxStrays /\ MaxStrays \in Nat
      /\ vfaults \in 0 .. ViewFaults /\ ViewFaults \in Nat
      /\ redis \in BOOLEAN
      /\ source \in [age : {"none", "online", "degraded", "offline"}, new : BOOLEAN]
      /\ others + ghosts + (IF pump.on THEN 1 ELSE 0) <= MaxViewers
  BY DEF ViewInv, View!TypeOK, View!FrameViewAssumption, View!ViewersAreBounded, View!Viewers
<1>3. /\ others' \in 0 .. MaxViewers /\ ghosts' \in 0 .. MaxViewers
      /\ strays' \in 0 .. MaxStrays
      /\ others' + ghosts' + (IF pump.on THEN 1 ELSE 0) <= MaxViewers
  <2>1. CASE View!GhostLeaves
    BY <1>2, <2>1 DEF View!GhostLeaves
  <2>2. CASE View!Elsewhere
    BY <1>2, <2>2 DEF View!Elsewhere, View!Viewers
  <2>3. CASE View!StrayDecoded
    BY <1>2, <2>3 DEF View!StrayDecoded
  <2>4. CASE UNCHANGED <<others, ghosts, strays>>
    BY <1>2, <2>4
  <2> QED BY <2>1, <2>2, <2>3, <2>4
          DEF View!Captured, View!Ages, View!StreamFails, View!StreamReturns, View!vars
<1>4. vfaults' \in 0 .. ViewFaults
  BY <1>2 DEF View!GhostLeaves, View!Elsewhere, View!Captured, View!Ages, View!StreamFails,
              View!StreamReturns, View!StrayDecoded,
              View!vars, View!Fault
<1>5. redis' \in BOOLEAN
  BY <1>2 DEF View!GhostLeaves, View!Elsewhere, View!Captured, View!Ages, View!StreamFails,
              View!StreamReturns, View!StrayDecoded,
              View!vars
<1>6. source' \in [age : {"none", "online", "degraded", "offline"}, new : BOOLEAN]
  <2>1. CASE View!Captured
    BY <2>1 DEF View!Captured
  <2>2. CASE View!Ages
    BY <1>2, <2>2 DEF View!Ages
  <2>3. CASE source' = source
    BY <1>2, <2>3
  <2> QED BY <2>1, <2>2, <2>3
          DEF View!GhostLeaves, View!Elsewhere, View!StreamFails, View!StreamReturns,
          View!StrayDecoded, View!vars
<1>7. View!TypeOK'
  BY <1>3, <1>4, <1>5, <1>6 DEF ViewInv, View!TypeOK
<1>8. View!ViewersAreBounded'
  BY <1>3 DEF View!ViewersAreBounded, View!Viewers
<1> QED BY <1>1, <1>7, <1>8 DEF ViewInv

\* The pump tells a page what it finds, or ends with a reason.
LEMMA PumpStep ==
  ASSUME View!FrameViewAssumption, ViewInv,
         \/ View!PumpReads
         \/ View!PumpFails
         \/ View!DropsViewer
         \/ View!Revokes
  PROVE  ViewInv'
<1>0. /\ View!TypeOK /\ SocketInv /\ PageInv /\ ToldInv /\ View!ViewersAreBounded
      /\ towards \in Seq(PageSignal) /\ Len(towards) \in Nat /\ MaxWire \in Nat /\ MaxWire > 0
      /\ page.socket = "open" /\ pump.on /\ Len(towards) <= MaxWire + 1
  BY LenProperties
     DEF ViewInv, View!TypeOK, PageSignal, SocketInv, View!FrameViewAssumption, View!PumpReads,
     View!PumpFails,
         View!DropsViewer, View!Revokes
<1>1. UNCHANGED <<page, others, ghosts, strays>>
  BY DEF View!PumpReads, View!PumpFails, View!DropsViewer, View!Revokes
<1>2. PageInv'
  BY <1>0, <1>1 DEF PageInv, View!ViewIsDriven
<1>3. /\ redis' \in BOOLEAN
      /\ source' \in [age : {"none", "online", "degraded", "offline"}, new : BOOLEAN]
  <2>1. redis' = redis /\ (source' = source \/ source' = [source EXCEPT !.new = @ /\ ~ View!Shows])
    BY DEF View!PumpReads, View!PumpFails, View!DropsViewer, View!Revokes
  <2> QED BY <1>0, <2>1 DEF View!TypeOK, View!Shows
<1>4. vfaults' \in 0 .. ViewFaults
  <2>1. vfaults \in 0 .. ViewFaults /\ ViewFaults \in Nat
    BY <1>0 DEF View!TypeOK, View!FrameViewAssumption
  <2>2. vfaults' = vfaults \/ (vfaults < ViewFaults /\ vfaults' = vfaults + 1)
    BY DEF View!PumpReads, View!PumpFails, View!DropsViewer, View!Revokes, View!Fault
  <2> QED BY <2>1, <2>2
\* It is enough to know what is on its way, and the pump.
<1>5. ASSUME towards' \in Seq(PageSignal), Len(towards') <= MaxWire + 2,
             pump' \in [on : BOOLEAN, last : View!Health \cup {"nothing"},
             failures : 0 .. MaxFailures],
             SocketInv', ToldInv'
      PROVE  ViewInv'
  <2>1. View!TypeOK'
    BY <1>0, <1>1, <1>3, <1>4, <1>5 DEF View!TypeOK, PageSignal
  <2>2. View!ViewersAreBounded'
    <3>1. /\ others \in Nat /\ ghosts \in Nat /\ MaxViewers \in Nat
          /\ others + ghosts + 1 <= MaxViewers
      BY <1>0 DEF View!TypeOK, View!FrameViewAssumption, View!ViewersAreBounded, View!Viewers
    <3> QED BY <1>1, <3>1 DEF View!ViewersAreBounded, View!Viewers
  <2> QED BY <1>2, <1>5, <2>1, <2>2 DEF ViewInv
<1>6. 0 \in 0 .. MaxFailures /\ MaxFailures \in Nat /\ MaxFailures > 0
  BY DEF View!FrameViewAssumption
<1>7. CASE View!PumpReads
  <2> DEFINE frame == IF View!Shows THEN <<"frame">> ELSE <<>>
             w == towards \o View!Told(View!State) \o frame
  <2>1. View!State \in View!Health
    BY <1>0 DEF View!TypeOK, View!State, View!Health
  <2>2. frame \in {<<>>, <<"frame">>}
    OBVIOUS
  <2>3. /\ towards' = w /\ pump' = [pump EXCEPT !.last = View!State, !.failures = 0]
        /\ Len(towards) < MaxWire
    BY <1>7 DEF View!PumpReads
  <2> HIDE DEF frame
  <2>4. /\ w \in Seq(PageSignal) /\ Len(w) <= Len(towards) + 2
        /\ \A k \in 1 .. Len(w) : w[k] \notin View!Closing
        /\ WillArrive(w, page.health, View!State)
    BY <1>0, <2>1, <2>2, PumpTells
  <2> HIDE DEF w
  <2>5. Len(w) \in Nat
    BY <2>4, LenProperties
  <2>6. Len(w) <= MaxWire + 1
    BY <1>0, <2>3, <2>4, <2>5
  <2>7. /\ pump' \in [on : BOOLEAN, last : View!Health \cup {"nothing"}, failures :
             0 .. MaxFailures]
        /\ pump'.last = View!State
    BY <1>0, <1>6, <2>1, <2>3 DEF View!TypeOK
  <2>8. SocketInv' /\ ToldInv'
    BY <1>0, <1>1, <2>3, <2>4, <2>6, <2>7 DEF SocketInv, ToldInv, WillArrive
  <2>9. Len(w) <= MaxWire + 2
    BY <1>0, <2>5, <2>6
  <2> QED BY <1>5, <2>3, <2>4, <2>7, <2>8, <2>9
<1>8. CASE View!PumpFails
  <2> DEFINE failures == IF pump.failures < MaxFailures THEN pump.failures + 1 ELSE MaxFailures
             tells == failures = MaxFailures
  <2>1. /\ towards' = towards \o (IF tells THEN View!Told("unknown") ELSE <<>>)
        /\ pump' = [pump EXCEPT !.failures = failures, !.last = IF tells THEN "unknown" ELSE @]
        /\ Len(towards) < MaxWire
    BY <1>8 DEF View!PumpFails
  <2>2. failures \in 0 .. MaxFailures
    BY <1>0, <1>6 DEF View!TypeOK
  <2> HIDE DEF failures
  <2>3. /\ pump' \in [on : BOOLEAN, last : View!Health \cup {"nothing"}, failures :
             0 .. MaxFailures]
        /\ pump'.last = (IF tells THEN "unknown" ELSE pump.last)
    BY <1>0, <2>1, <2>2 DEF View!TypeOK, View!Health
  <2>4. CASE tells
    <3> DEFINE u == towards \o View!Told("unknown")
               w == u \o <<>>
    <3>1. /\ "unknown" \in View!Health /\ <<>> \in {<<>>, <<"frame">>}
      BY DEF View!Health
    <3>2. /\ w \in Seq(PageSignal) /\ Len(w) <= Len(towards) + 2
          /\ \A k \in 1 .. Len(w) : w[k] \notin View!Closing
          /\ WillArrive(w, page.health, "unknown")
      BY <1>0, <3>1, PumpTells
    <3>3. w = u
      <4>1. u = towards \/ u = Append(towards, "unknown")
        <5>1. "unknown" \in PageSignal
          BY DEF PageSignal, View!Health
        <5> QED BY <1>0, <5>1, SignalSent, ConcatEmptySeq DEF View!Told
      <4>2. u \in Seq(PageSignal)
        <5>1. "unknown" \in PageSignal
          BY DEF PageSignal, View!Health
        <5> HIDE DEF u
        <5> QED BY <1>0, <4>1, <5>1, SignalSent
      <4> HIDE DEF u
      <4> QED BY <4>2, ConcatEmptySeq
    <3>4. towards' = w
      BY <2>1, <2>4, <3>3
    <3> HIDE DEF w
    <3>5. Len(w) \in Nat
      BY <3>2, LenProperties
    <3>6. Len(w) <= MaxWire + 1 /\ Len(w) <= MaxWire + 2
      BY <1>0, <2>1, <3>2, <3>5
    <3>7. SocketInv' /\ ToldInv'
      BY <1>0, <1>1, <2>3, <2>4, <3>2, <3>4, <3>6 DEF SocketInv, ToldInv, WillArrive
    <3> QED BY <1>5, <2>3, <3>2, <3>4, <3>6, <3>7
  <2>5. CASE ~ tells
    <3>1. towards' = towards /\ pump'.last = pump.last
      BY <1>0, <2>1, <2>3, <2>5, ConcatEmptySeq
    <3>2. SocketInv' /\ ToldInv'
      BY <1>0, <1>1, <3>1 DEF SocketInv, ToldInv, WillArrive
    <3>3. Len(towards) <= MaxWire + 2
      BY <1>0
    <3> QED BY <1>0, <1>5, <2>3, <3>1, <3>2, <3>3
  <2> QED BY <2>4, <2>5
<1>9. CASE View!DropsViewer \/ View!Revokes
  <2>1. PICK end \in View!Closing : pump' = View!NoPump /\ towards' = Append(towards, end)
    BY <1>9 DEF View!DropsViewer, View!Revokes, View!Closing
  <2>2. end \in PageSignal
    BY <2>1 DEF PageSignal, View!Closing
  <2>3. Append(towards, end) \in Seq(PageSignal) /\ Len(Append(towards, end)) = Len(towards) + 1
    BY <1>0, <2>2, SignalSent
  <2>4. Len(towards') <= MaxWire + 2
    BY <1>0, <2>1, <2>3
  <2>5. /\ pump' \in [on : BOOLEAN, last : View!Health \cup {"nothing"}, failures :
             0 .. MaxFailures]
        /\ ~ pump'.on
    BY <1>6, <2>1 DEF View!NoPump
  <2>6. SocketInv' /\ ToldInv'
    BY <1>0, <1>1, <2>5 DEF SocketInv, ToldInv
  <2> QED BY <1>5, <2>1, <2>3, <2>4, <2>5, <2>6
<1> QED BY <1>7, <1>8, <1>9

\* The page connects, hears, shows and closes.
LEMMA PageStep ==
  ASSUME View!FrameViewAssumption, ViewInv,
         \/ View!TimerFires
         \/ View!Opens
         \/ View!Refused
         \/ View!Hears
         \/ View!HearsClose
         \/ View!Breaks
         \/ View!WatchdogFires
         \/ View!Decoded
         \/ View!Mount
         \/ View!Unmount
  PROVE  ViewInv'
<1>0. /\ View!TypeOK /\ SocketInv /\ PageInv /\ ToldInv /\ View!ViewersAreBounded
      /\ towards \in Seq(PageSignal) /\ Len(towards) \in Nat /\ MaxWire \in Nat
      /\ page \in PageState /\ Len(towards) <= MaxWire + 2
  BY LenProperties
     DEF ViewInv, View!TypeOK, PageSignal, SocketInv, View!FrameViewAssumption, PageState
<1>1. UNCHANGED <<source, redis, others>>
  BY DEF View!TimerFires, View!Opens, View!Refused, View!Hears, View!HearsClose, View!Breaks,
         View!WatchdogFires, View!Decoded, View!Mount,
         View!Unmount, View!Hangs
<1>2. vfaults' \in 0 .. ViewFaults
  <2>1. vfaults \in 0 .. ViewFaults /\ ViewFaults \in Nat
    BY <1>0 DEF View!TypeOK, View!FrameViewAssumption
  <2>2. vfaults' = vfaults \/ (vfaults < ViewFaults /\ vfaults' = vfaults + 1)
    BY DEF View!TimerFires, View!Opens, View!Refused, View!Hears, View!HearsClose, View!Breaks,
           View!WatchdogFires, View!Decoded, View!Mount,
           View!Unmount, View!Fault
  <2> QED BY <2>1, <2>2
<1>3. strays' \in 0 .. MaxStrays
  <2>1. strays \in 0 .. MaxStrays /\ MaxStrays \in Nat
    BY <1>0 DEF View!TypeOK, View!FrameViewAssumption
  <2>2. strays' = strays \/ (strays' \in {strays, strays + 1} /\ strays' <= MaxStrays)
    BY DEF View!TimerFires, View!Opens, View!Refused, View!Hears, View!HearsClose, View!Breaks,
           View!WatchdogFires, View!Decoded, View!Mount,
           View!Unmount
  <2> QED BY <2>1, <2>2
<1>4. /\ others \in 0 .. MaxViewers /\ ghosts \in 0 .. MaxViewers /\ MaxViewers \in Nat
      /\ others + ghosts + (IF pump.on THEN 1 ELSE 0) <= MaxViewers
      /\ pump \in [on : BOOLEAN, last : View!Health \cup {"nothing"}, failures : 0 .. MaxFailures]
      /\ View!NoPump
           \in [on : BOOLEAN, last : View!Health \cup {"nothing"}, failures : 0 .. MaxFailures]
      /\ ~ View!NoPump.on /\ View!NoPump.last = "nothing"
  BY <1>0 DEF View!TypeOK, View!FrameViewAssumption, View!ViewersAreBounded, View!Viewers,
              View!NoPump
\* It is enough to know the page, its pump and what is on its way.
<1>5. ASSUME towards' \in Seq(PageSignal), Len(towards') <= MaxWire + 2, page' \in PageState,
             pump' \in [on : BOOLEAN, last : View!Health \cup {"nothing"},
             failures : 0 .. MaxFailures],
             ghosts' \in 0 .. MaxViewers,
             others + ghosts' + (IF pump'.on THEN 1 ELSE 0) <= MaxViewers,
             SocketInv', PageInv', ToldInv'
      PROVE  ViewInv'
  <2>1. View!TypeOK'
    BY <1>0, <1>1, <1>2, <1>3, <1>5 DEF View!TypeOK, PageSignal, PageState
  <2>2. View!ViewersAreBounded'
    BY <1>1, <1>5 DEF View!ViewersAreBounded, View!Viewers
  <2> QED BY <1>5, <2>1, <2>2 DEF ViewInv
\* The socket goes, and its pump is one of a page that has gone.
<1>6. ASSUME View!Hangs, page' \in PageState, page'.socket = "none", PageInv' PROVE ViewInv'
  <2>1. /\ towards' = <<>> /\ ~ pump'.on /\ pump' = View!NoPump
        /\ ghosts' = IF pump.on THEN ghosts + 1 ELSE ghosts
    BY <1>4, <1>6 DEF View!Hangs
  <2>2. /\ ghosts' \in 0 .. MaxViewers
        /\ others + ghosts' + (IF pump'.on THEN 1 ELSE 0) <= MaxViewers
    BY <1>4, <2>1
  <2>3. towards' \in Seq(PageSignal) /\ Len(towards') <= MaxWire + 2
    BY <1>0, <2>1
  <2>4. SocketInv' /\ ToldInv'
    BY <2>1 DEF SocketInv, ToldInv
  <2> QED BY <1>4, <1>5, <1>6, <2>1, <2>2, <2>3, <2>4
\* The socket, the pump and what is on its way stay as they are.
<1>7. ASSUME UNCHANGED <<pump, towards, ghosts>>, page' \in PageState, page'.health = page.health,
             page'.socket = page.socket, PageInv'
      PROVE  ViewInv'
  <2>1. SocketInv' /\ ToldInv'
    BY <1>0, <1>7 DEF SocketInv, ToldInv, WillArrive
  <2> QED BY <1>0, <1>4, <1>5, <1>7, <2>1
\* There is no socket, and so no pump either.
<1>8. ASSUME page.socket # "open" PROVE ~ pump.on /\ towards = <<>>
  BY <1>0, <1>8 DEF SocketInv
\* A page that had no socket gets none that a pump writes to, and nothing is on its way.
<1>s. ASSUME UNCHANGED <<pump, towards, ghosts>>, page.socket # "open", page' \in PageState,
             PageInv'
      PROVE  ViewInv'
  <2>1. ~ pump'.on /\ towards' = <<>>
    BY <1>8, <1>s
  <2>2. SocketInv' /\ ToldInv'
    BY <2>1 DEF SocketInv, ToldInv
  <2> QED BY <1>0, <1>4, <1>5, <1>s, <2>2
\* A page tries again, or stops.
<1>g. /\ View!Scheduled(View!Gone(page)) \in PageState
      /\ View!Scheduled(View!Gone(page)).socket = "none"
      /\ page' = View!Scheduled(View!Gone(page)) /\ page.mounted => PageInv'
  <2> DEFINE p == View!Scheduled(View!Gone(page))
  <2>1. /\ p \in PageState /\ p.socket = "none" /\ p.mounted = page.mounted
        /\ p.status = "stopped" \/ p.timer
    BY <1>0, SocketTriesAgain
  <2> HIDE DEF p
  <2>2. page' = p /\ page.mounted => PageInv'
    BY <2>1 DEF PageInv, View!ViewIsDriven
  <2> QED BY <2>1, <2>2 DEF p
\* Who has a socket is shown.
<1>m. page.socket # "none" => page.mounted /\ ~ page.timer
  BY <1>0 DEF PageInv
<1>9. CASE View!TimerFires
  <2> DEFINE p == [page EXCEPT !.timer = FALSE]
  <2>1. page' = View!Connecting(p) /\ page.timer /\ UNCHANGED <<pump, towards, ghosts>>
    BY <1>9 DEF View!TimerFires
  <2>2. /\ page' \in PageState /\ page'.socket = "connecting" /\ ~ page'.timer
        /\ page'.mounted = page.mounted
    BY <1>0, <2>1 DEF View!Connecting, PageState
  <2>3. page.socket = "none" /\ page.mounted
    BY <1>0, <2>1 DEF PageInv
  <2>4. PageInv'
    BY <2>2, <2>3 DEF PageInv, View!ViewIsDriven
  <2> QED BY <1>s, <2>1, <2>2, <2>3, <2>4
<1>10. CASE View!Opens
  <2>1. /\ page.socket = "connecting" /\ others + ghosts + (IF pump.on THEN 1 ELSE 0) < MaxViewers
        /\ page' = [page EXCEPT !.socket = "open", !.status = "open", !.attempt = 0]
        /\ pump' = [View!NoPump EXCEPT !.on = TRUE] /\ UNCHANGED <<ghosts, towards>>
    BY <1>10 DEF View!Opens, View!Viewers
  <2>2. ~ pump.on /\ towards = <<>> /\ page.mounted /\ ~ page.timer
    BY <1>8, <1>m, <2>1
  <2>3. 0 \in 0 .. MaxAttempts
    BY DEF View!FrameViewAssumption
  <2>4. /\ page' \in PageState /\ page'.socket = "open" /\ page'.mounted = page.mounted
        /\ page'.timer = page.timer
    BY <1>0, <2>1, <2>3 DEF PageState
  <2>5. /\ pump' \in [on : BOOLEAN, last : View!Health \cup {"nothing"}, failures :
             0 .. MaxFailures]
        /\ pump'.last = "nothing" /\ pump'.on
    BY <1>4, <2>1 DEF View!NoPump
  <2>6. PageInv'
    BY <2>2, <2>4 DEF PageInv, View!ViewIsDriven
  <2>7. towards' = <<>> /\ Len(towards') = 0 /\ towards' \in Seq(PageSignal)
    BY <1>0, <2>1, <2>2
  <2>8. SocketInv' /\ ToldInv'
    BY <1>0, <2>4, <2>5, <2>7 DEF SocketInv, ToldInv
  <2>9. others + ghosts + 1 <= MaxViewers
    BY <1>4, <2>1, <2>2
  <2> QED BY <1>0, <1>4, <1>5, <2>1, <2>4, <2>5, <2>6, <2>7, <2>8, <2>9
<1>11. CASE View!Refused
  <2>1. /\ page.socket = "connecting" /\ page' = View!Scheduled(View!Gone(page))
        /\ UNCHANGED <<pump, towards, ghosts>>
    BY <1>11 DEF View!Refused
  <2> QED BY <1>g, <1>m, <1>s, <2>1
<1>12. CASE View!Hears
  <2>1. /\ page.socket = "open" /\ towards # <<>> /\ Head(towards) \notin View!Closing
        /\ towards' = Tail(towards) /\ UNCHANGED <<pump, ghosts>>
        /\ page' = IF Head(towards) = "frame" THEN [page EXCEPT !.decoding = TRUE]
                   ELSE [page EXCEPT !.health = Head(towards)]
    BY <1>12 DEF View!Hears
  <2>2. /\ Head(towards) \in PageSignal /\ Tail(towards) \in Seq(PageSignal)
        /\ Len(Tail(towards)) = Len(towards) - 1
        /\ \A k \in 1 .. Len(Tail(towards)) : Tail(towards)[k] = towards[k + 1]
    BY <1>0, <2>1, HeadTailProperties
  <2>3. (Head(towards) \in View!Health <=> Head(towards) # "frame")
    BY <2>1, <2>2 DEF PageSignal, View!Health
  <2>4. /\ page' \in PageState /\ page'.socket = page.socket /\ page'.mounted = page.mounted
        /\ page'.timer = page.timer /\ page'.status = page.status /\ page'.dropped = page.dropped
        /\ page'.held = page.held
        /\ page'.health = (IF Head(towards) \in View!Health THEN Head(towards) ELSE page.health)
    <3>1. CASE Head(towards) = "frame"
      BY <1>0, <2>1, <2>3, <3>1 DEF PageState
    <3>2. CASE Head(towards) # "frame"
      BY <1>0, <2>1, <2>3, <3>2 DEF PageState
    <3> QED BY <3>1, <3>2
  <2>5. PageInv'
    BY <1>0, <1>m, <2>1, <2>4 DEF PageInv, View!ViewIsDriven
  <2>6. ToldInv'
    <3> SUFFICES ASSUME pump.on, pump.last # "nothing"
                 PROVE  WillArrive(towards', page'.health, pump.last)
      BY <2>1 DEF ToldInv, WillArrive
    <3>1. pump.last \in View!Health /\ WillArrive(towards, page.health, pump.last)
      BY <1>0, <1>4 DEF ToldInv
    <3> QED BY <1>0, <2>1, <2>4, <3>1, ArrivesWhenHeard
  <2>7. Len(towards') = Len(towards) - 1 /\ Len(towards') <= MaxWire + 2
    BY <1>0, <2>1, <2>2
  <2>8. SocketInv'
    <3>1. pump.on => Len(towards') <= MaxWire + 1
      BY <1>0, <2>7 DEF SocketInv
    <3>2. pump.on => \A k \in 1 .. Len(towards') : towards'[k] \notin View!Closing
      BY <1>0, <2>1, <2>2, <2>7 DEF SocketInv
    <3> QED BY <2>1, <2>4, <3>1, <3>2 DEF SocketInv
  <2> QED BY <1>0, <1>4, <1>5, <2>1, <2>2, <2>4, <2>5, <2>6, <2>7, <2>8
<1>13. CASE View!HearsClose
  <2>1. /\ page.socket = "open" /\ towards # <<>> /\ Head(towards) \in View!Closing
        /\ towards' = <<>> /\ UNCHANGED <<pump, ghosts>>
        /\ page' = IF Head(towards) = "done" THEN [View!Gone(page) EXCEPT !.dropped = TRUE]
                   ELSE [View!Gone(page) EXCEPT !.status = "stopped"]
    BY <1>13 DEF View!HearsClose
  <2>2. ~ pump.on
    <3>1. Head(towards) = towards[1] /\ 1 \in 1 .. Len(towards)
      BY <1>0, <2>1, HeadTailProperties, EmptySeq
    <3> QED BY <1>0, <2>1, <3>1 DEF SocketInv
  <2>3. /\ page' \in PageState /\ page'.socket = "none" /\ page'.mounted = page.mounted
        /\ page'.dropped \/ page'.status = "stopped"
    BY <1>0, <2>1 DEF View!Gone, PageState
  <2>4. PageInv'
    BY <1>m, <2>1, <2>3 DEF PageInv, View!ViewIsDriven
  <2>5. SocketInv' /\ ToldInv'
    BY <2>1, <2>2 DEF SocketInv, ToldInv
  <2>6. towards' \in Seq(PageSignal) /\ Len(towards') <= MaxWire + 2
    BY <1>0, <2>1
  <2> QED BY <1>4, <1>5, <2>1, <2>3, <2>4, <2>5, <2>6
<1>14. CASE View!Breaks \/ View!WatchdogFires
  <2>1. page.socket = "open" /\ page' = View!Scheduled(View!Gone(page)) /\ View!Hangs
    BY <1>14 DEF View!Breaks, View!WatchdogFires
  <2> QED BY <1>6, <1>g, <1>m, <2>1
<1>15. CASE View!Decoded
  <2>1. PICK ok \in BOOLEAN : page' = [page EXCEPT !.decoding = FALSE, !.held = @ \/ ok]
    BY <1>15 DEF View!Decoded
  <2>2. page.decoding /\ UNCHANGED <<pump, towards, ghosts>>
    BY <1>15 DEF View!Decoded
  <2>3. /\ page' \in PageState /\ page'.socket = page.socket /\ page'.mounted = page.mounted
        /\ page'.timer = page.timer /\ page'.status = page.status /\ page'.dropped = page.dropped
        /\ page'.health = page.health
    BY <1>0, <2>1 DEF PageState
  <2>4. PageInv'
    BY <1>0, <2>2, <2>3 DEF PageInv, View!ViewIsDriven
  <2> QED BY <1>7, <2>2, <2>3, <2>4
<1>16. CASE View!Mount
  <2>1. /\ ~ page.mounted /\ page' = View!Connecting([View!Closed EXCEPT !.mounted = TRUE])
        /\ UNCHANGED <<pump, towards, ghosts>>
    BY <1>16 DEF View!Mount
  <2>2. 0 \in 0 .. MaxAttempts
    BY DEF View!FrameViewAssumption
  <2>3. page' \in PageState /\ page'.socket = "connecting" /\ page'.mounted /\ ~ page'.timer
    BY <2>1, <2>2 DEF View!Connecting, View!Closed, PageState
  <2>4. page.socket = "none" /\ PageInv'
    BY <1>0, <2>1, <2>3 DEF PageInv, View!ViewIsDriven
  <2> QED BY <1>s, <2>1, <2>3, <2>4
<1>17. CASE View!Unmount
  <2>1. page' = View!Closed /\ View!Hangs
    BY <1>17 DEF View!Unmount
  <2>2. 0 \in 0 .. MaxAttempts
    BY DEF View!FrameViewAssumption
  <2>3. /\ page' \in PageState /\ page'.socket = "none" /\ ~ page'.mounted /\ ~ page'.timer
        /\ ~ page'.decoding /\ ~ page'.held
    BY <2>1, <2>2 DEF View!Closed, PageState
  <2>4. PageInv'
    BY <2>3 DEF PageInv, View!ViewIsDriven
  <2> QED BY <1>6, <2>1, <2>3, <2>4
<1> QED BY <1>9, <1>10, <1>11, <1>12, <1>13, <1>14, <1>15, <1>16, <1>17

\* The picture of a camera keeps its invariant.
LEMMA ViewStep ==
  ASSUME View!FrameViewAssumption, ViewInv, [View!Next]_(View!vars)
  PROVE  ViewInv'
<1>1. CASE View!PumpReads \/ View!PumpFails \/ View!DropsViewer \/ View!Revokes
  BY <1>1, PumpStep
<1>2. CASE \/ View!GhostLeaves
           \/ View!Elsewhere
           \/ View!Captured
           \/ View!Ages
           \/ View!StreamFails
           \/ View!StreamReturns
           \/ View!StrayDecoded
           \/ UNCHANGED View!vars
  <2>1. UNCHANGED <<pump, towards, page>>
    BY <1>2 DEF View!GhostLeaves, View!Elsewhere, View!Captured, View!Ages, View!StreamFails,
                View!StreamReturns,
                View!StrayDecoded, View!vars
  <2> QED BY <1>2, <2>1, OthersStep
<1>3. CASE \/ View!TimerFires
           \/ View!Opens
           \/ View!Refused
           \/ View!Hears
           \/ View!HearsClose
           \/ View!Breaks
           \/ View!WatchdogFires
           \/ View!Decoded
           \/ View!Mount
           \/ View!Unmount
  BY <1>3, PageStep
<1> QED BY <1>1, <1>2, <1>3 DEF View!Next, View!Server, View!Camera, View!Socket, View!View

\* What an invariant of the picture says once nothing is on its way.
LEMMA ViewSays ==
  ASSUME ViewInv
  PROVE  /\ View!TypeOK /\ View!ViewIsDriven /\ View!HealthIsTrue /\ View!PicturesAreReleased
         /\ View!ViewersAreBounded
<1>1. ASSUME towards = <<>>, pump.on, pump.last # "nothing" PROVE page.health = pump.last
  <2>1. WillArrive(towards, page.health, pump.last) /\ Len(towards) = 0
    BY <1>1 DEF ViewInv, ToldInv
  <2> QED BY <2>1 DEF WillArrive
<1>2. View!HealthIsTrue
  BY <1>1 DEF View!HealthIsTrue
<1> QED BY <1>2 DEF ViewInv, PageInv, View!PicturesAreReleased

\* However socket, pump and page end and start again, the page shows what the pump found last.
LEMMA ViewHolds ==
  ASSUME View!FrameViewAssumption
  PROVE  View!Spec => [](/\ View!TypeOK /\ View!ViewIsDriven /\ View!HealthIsTrue
                         /\ View!PicturesAreReleased /\ View!ViewersAreBounded)
<1>1. View!Init => ViewInv
  <2> SUFFICES ASSUME View!Init PROVE ViewInv
    OBVIOUS
  <2>1. /\ MaxAttempts \in Nat /\ MaxStrays \in Nat /\ ViewFaults \in Nat /\ MaxViewers \in Nat
        /\ MaxFailures \in Nat /\ MaxWire \in Nat
    BY DEF View!FrameViewAssumption
  <2>2. /\ ~ pump.on /\ towards = <<>> /\ Len(towards) = 0 /\ page = View!Closed
        /\ pump \in [on : BOOLEAN, last : View!Health \cup {"nothing"}, failures : 0 .. MaxFailures]
    BY <2>1 DEF View!Init, View!NoPump
  <2>3. page \in PageState
    BY <2>1, <2>2 DEF View!Closed, PageState
  <2>4. /\ others = 0 /\ ghosts = 0 /\ strays = 0 /\ vfaults = 0 /\ redis = TRUE
        /\ source = [age |-> "none", new |-> FALSE]
    BY DEF View!Init
  <2>5. redis \in BOOLEAN
    BY DEF View!Init
  <2>6. View!TypeOK
    BY <2>1, <2>2, <2>3, <2>4, <2>5 DEF View!TypeOK, PageState
  <2>7. SocketInv /\ ToldInv /\ PageInv
    BY <2>2 DEF SocketInv, ToldInv, PageInv, View!ViewIsDriven, View!Closed
  <2>8. View!ViewersAreBounded
    BY <2>1, <2>2, <2>4 DEF View!ViewersAreBounded, View!Viewers
  <2> QED BY <2>6, <2>7, <2>8 DEF ViewInv
<1>2. ViewInv /\ [View!Next]_(View!vars) => ViewInv'
  BY ViewStep
<1>3. ViewInv => /\ View!TypeOK /\ View!ViewIsDriven /\ View!HealthIsTrue
        /\ View!PicturesAreReleased
                 /\ View!ViewersAreBounded
  BY ViewSays
<1> QED BY <1>1, <1>2, <1>3, PTL DEF View!Spec

-----------------------------------------------------------------------------
(* The capture loop *)

\* A frame of the device is read once: each comes with a tick of the clock.
NumberInv ==
  LET there == (IF ready THEN 1 ELSE 0) + (IF thread.at = "holding" THEN 1 ELSE 0)
  IN  index + there < moment /\ Len(pushed) + there < moment

\* A session begins when the device is opened, which takes time to try again.
SessionInv ==
  /\ device.session <= moment
  /\ thread.at = "reopening" => device.session < thread.until
  /\ main.at = "opening" => /\ device.session = 0 /\ thread.at = "none" /\ last.at = 0
                            /\ pushed = <<>> /\ late = 0
  /\ main.at # "opening" => thread.at # "none"
  /\ last.at > 0 => IF device.session = last.session THEN index = last.index + 1
                                                     ELSE device.session > last.session /\ index = 0

\* The deadline is no earlier than a frame and the intervals paced since the one after it; it is
\* over when the thread reads, and what a sleep waits for.
DeadlineInv ==
  /\ thread.at \in {"none", "reading", "holding", "pacing"} => deadline <= moment
  /\ thread.at = "sleeping" => thread.until = deadline
  /\ thread.at = "none" => deadline = 0
  /\ \A i \in 1 .. Len(pushed) :
       \/ thread.at \in {"reading", "holding", "sleeping"}
       \/ thread.at = "pacing" /\ i < Len(pushed)
       => deadline >= pushed[i].at + (pushed[Len(pushed)].paced - pushed[i].paced)
  /\ Lens!PaceIsKept

\* A thread that has pushed a frame too many reads no other.
LateInv ==
  /\ Lens!OneFrameLate
  /\ late > 0 => ~told /\ thread.at \in {"pacing", "sleeping", "ended"}

CaptureInv == Lens!TypeOK /\ NumberInv /\ SessionInv /\ DeadlineInv /\ Lens!BeatIsAFrame /\ LateInv

\* What the steps need to know of the values.
LEMMA CaptureValues ==
  ASSUME Lens!CaptureAssumption, Lens!TypeOK
  PROVE  /\ Rest \in Nat /\ Active \in Nat /\ Period \in Nat /\ Second \in Nat /\ Second > 0
         /\ Backoff \in Nat /\ Backoff > 0 /\ BackoffMax \in Nat /\ Backoff <= BackoffMax
         /\ JoinTimeout \in Nat /\ LensTime \in Nat /\ MaxPlugs \in Nat
         /\ Active > 0 /\ Active <= Rest
         /\ moment \in Nat /\ 1 <= moment /\ moment <= LensTime /\ beat \in Nat /\ beat <= moment
         /\ stamp \in Nat /\ stamp <= moment
         /\ device.session \in Nat /\ interval \in {Rest, Active}
         /\ interval \in Nat /\ 0 < interval /\ interval <= Rest
         /\ index \in Nat /\ plugs \in Nat /\ deadline \in Nat /\ thread.until \in Nat
         /\ thread.delay \in Nat /\ thread.delay <= BackoffMax
         /\ main.until \in Nat /\ main.delay \in Nat /\ main.delay <= BackoffMax
         /\ last.at \in Nat /\ last.session \in Nat /\ last.index \in Nat /\ late \in Nat
         /\ pushed \in Seq([at : Nat, paced : Nat]) /\ Len(pushed) \in Nat
         /\ DOMAIN pushed = 1 .. Len(pushed)
         /\ \A k \in 1 .. Len(pushed) : /\ pushed[k].at \in Nat /\ 1 <= pushed[k].at
                                       /\ pushed[k].at <= moment /\ pushed[k].paced \in Nat
         /\ device = [open |-> device.open, session |-> device.session]
         /\ thread = [at |-> thread.at, until |-> thread.until, delay |-> thread.delay]
         /\ main = [at |-> main.at, until |-> main.until, delay |-> main.delay]
<1>1. /\ Rest \in Nat /\ Active \in Nat /\ Period \in Nat /\ Second \in Nat /\ Second > 0
      /\ Backoff \in Nat /\ Backoff > 0 /\ BackoffMax \in Nat /\ Backoff <= BackoffMax
      /\ JoinTimeout \in Nat /\ LensTime \in Nat /\ MaxPlugs \in Nat
      /\ Active > 0 /\ Active <= Rest
  BY DEF Lens!CaptureAssumption
<1>2. moment \in 1 .. LensTime /\ beat \in 0 .. moment /\ stamp \in 0 .. moment
  BY DEF Lens!TypeOK
<1>3. /\ moment \in Nat /\ 1 <= moment /\ moment <= LensTime /\ beat \in Nat /\ beat <= moment
      /\ stamp \in Nat /\ stamp <= moment
  BY <1>1, <1>2
<1>4. /\ device \in [open : BOOLEAN, session : 0..LensTime] /\ interval \in {Rest, Active}
      /\ index \in 0..LensTime /\ plugs \in 0..MaxPlugs /\ deadline \in 0..(LensTime + Rest)
  BY DEF Lens!TypeOK
<1>5. /\ device.session \in Nat /\ interval \in {Rest, Active}
      /\ interval \in Nat /\ 0 < interval /\ interval <= Rest
      /\ index \in Nat /\ plugs \in Nat /\ deadline \in Nat
      /\ device = [open |-> device.open, session |-> device.session]
  BY <1>1, <1>4
<1>6. /\ thread \in [at : Lens!Places, until : 0..(LensTime + Rest + BackoffMax), delay :
           0..BackoffMax]
      /\ main \in [at : {"opening", "up", "joining", "stopped"},
                   until : 0..(LensTime + BackoffMax + JoinTimeout), delay : 0..BackoffMax]
      /\ last \in [at : 0..moment, session : 0..LensTime, index : 0..LensTime]
      /\ late \in 0..LensTime
  BY DEF Lens!TypeOK
<1>7. /\ thread.until \in Nat /\ thread.delay \in Nat /\ thread.delay <= BackoffMax
      /\ thread = [at |-> thread.at, until |-> thread.until, delay |-> thread.delay]
  BY <1>1, <1>6
<1>8. /\ main.until \in Nat /\ main.delay \in Nat /\ main.delay <= BackoffMax
      /\ main = [at |-> main.at, until |-> main.until, delay |-> main.delay]
  BY <1>1, <1>6
<1>9. last.at \in Nat /\ last.session \in Nat /\ last.index \in Nat /\ late \in Nat
  BY <1>1, <1>6
<1>10. pushed \in Seq([at : 1..moment, paced : Nat])
  BY DEF Lens!TypeOK
<1>11. Len(pushed) \in Nat /\ DOMAIN pushed = 1 .. Len(pushed)
       /\ \A k \in 1 .. Len(pushed) : pushed[k] \in [at : 1..moment, paced : Nat]
  BY <1>10, LenProperties
<1>12. \A k \in 1 .. Len(pushed) : /\ pushed[k] \in [at : Nat, paced : Nat]
                                 /\ pushed[k].at \in Nat /\ 1 <= pushed[k].at
                                 /\ pushed[k].at <= moment /\ pushed[k].paced \in Nat
  BY <1>3, <1>11
<1>13. pushed \in Seq([at : Nat, paced : Nat])
  <2>1. pushed \in [1 .. Len(pushed) -> [at : 1..moment, paced : Nat]]
    BY <1>10, LenProperties
  <2>2. pushed \in [1 .. Len(pushed) -> [at : Nat, paced : Nat]]
    BY <1>12, <2>1
  <2> QED BY <1>11, <2>2, SeqDef
<1> QED BY <1>1, <1>3, <1>5, <1>7, <1>8, <1>9, <1>11, <1>12, <1>13

\* The frames pushed since the deadline was unset.
LEMMA PushedFrames ==
  ASSUME Lens!CaptureAssumption, Lens!TypeOK, Lens!Push
  PROVE  /\ Len(pushed') = Len(pushed) + 1 /\ DOMAIN pushed' = 1 .. Len(pushed')
         /\ pushed' \in Seq([at : Nat, paced : Nat])
         /\ \A k \in 1 .. Len(pushed) : pushed'[k] = pushed[k]
         /\ pushed'[Len(pushed')].at = moment
         /\ pushed'[Len(pushed')].paced =
              (IF Len(pushed) = 0 THEN 0 ELSE pushed[Len(pushed)].paced)
<1> DEFINE f == [at |-> moment, paced |-> Lens!Paced]
<1>1. /\ pushed \in Seq([at : Nat, paced : Nat]) /\ Len(pushed) \in Nat /\ moment \in Nat
      /\ \A k \in 1 .. Len(pushed) : pushed[k].paced \in Nat
  BY CaptureValues
<1>2. Lens!Paced = (IF Len(pushed) = 0 THEN 0 ELSE pushed[Len(pushed)].paced)
  BY <1>1, EmptySeq DEF Lens!Paced
<1>3. Lens!Paced \in Nat
  <2>1. CASE Len(pushed) = 0
    BY <1>2, <2>1
  <2>2. CASE Len(pushed) # 0
    <3>1. Len(pushed) \in 1 .. Len(pushed)
      BY <1>1, <2>2
    <3> QED BY <1>1, <1>2, <2>2, <3>1
  <2> QED BY <2>1, <2>2
<1>4. f \in [at : Nat, paced : Nat] /\ f.at = moment /\ f.paced = Lens!Paced
  BY <1>1, <1>3
<1>5. pushed' = Append(pushed, f)
  BY DEF Lens!Push
<1> HIDE DEF f
<1>6. /\ pushed' \in Seq([at : Nat, paced : Nat]) /\ Len(pushed') = Len(pushed) + 1
      /\ \A k \in 1 .. Len(pushed) : pushed'[k] = pushed[k]
      /\ pushed'[Len(pushed) + 1] = f
  BY <1>1, <1>4, <1>5, AppendProperties
<1>7. DOMAIN pushed' = 1 .. Len(pushed')
  BY <1>6, LenProperties
<1> QED BY <1>2, <1>4, <1>6, <1>7

\* The interval that is paced is counted with the frame that was pushed last.
LEMMA PacedFrames ==
  ASSUME Lens!CaptureAssumption, Lens!TypeOK, Lens!Pace, ~(interval <= Period)
  PROVE  /\ Len(pushed') = Len(pushed) /\ DOMAIN pushed' = 1 .. Len(pushed')
         /\ pushed' \in Seq([at : Nat, paced : Nat])
         /\ \A k \in 1 .. Len(pushed) : pushed'[k].at = pushed[k].at
         /\ \A k \in 1 .. (Len(pushed) - 1) : pushed'[k] = pushed[k]
         /\ Len(pushed) > 0 => pushed'[Len(pushed)].paced = pushed[Len(pushed)].paced + interval
<1>1. /\ pushed \in Seq([at : Nat, paced : Nat]) /\ Len(pushed) \in Nat /\ interval \in Nat
      /\ DOMAIN pushed = 1 .. Len(pushed)
      /\ \A k \in 1 .. Len(pushed) : pushed[k].at \in Nat /\ pushed[k].paced \in Nat
      /\ \A k \in 1 .. Len(pushed) : pushed[k] \in [at : Nat, paced : Nat]
  BY CaptureValues, LenProperties
<1>2. pushed' = IF pushed = <<>> THEN pushed
                ELSE [pushed EXCEPT ![Len(pushed)].paced = @ + interval]
  BY DEF Lens!Pace
<1>3. CASE pushed = <<>>
  <2>1. pushed' = pushed /\ Len(pushed) = 0
    BY <1>2, <1>3
  <2> QED BY <1>1, <2>1
<1>4. CASE pushed # <<>>
  <2> DEFINE n == Len(pushed)
             f == [pushed[n] EXCEPT !.paced = pushed[n].paced + interval]
  <2>1. n \in 1 .. n /\ n \in Nat
    BY <1>1, <1>4, EmptySeq
  <2>2. f \in [at : Nat, paced : Nat] /\ f.at = pushed[n].at /\ f.paced = pushed[n].paced + interval
    BY <1>1, <2>1
  <2>3. pushed' = [pushed EXCEPT ![n] = f]
    BY <1>2, <1>4
  <2> HIDE DEF f
  <2>4. pushed' \in Seq([at : Nat, paced : Nat]) /\ Len(pushed') = n
    BY <1>1, <2>1, <2>2, <2>3, ExceptSeq
  <2>5. /\ pushed'[n] = f
        /\ \A k \in 1 .. n : k # n => pushed'[k] = pushed[k]
    BY <1>1, <2>1, <2>3
  <2>6. \A k \in 1 .. (n - 1) : k \in 1 .. n /\ k # n
    BY <2>1
  <2> HIDE DEF n
  <2>7. DOMAIN pushed' = 1 .. Len(pushed')
    BY <2>4, LenProperties
  <2>8. \A k \in 1 .. n : pushed'[k].at = pushed[k].at
    BY <2>2, <2>5
  <2> QED BY <2>1, <2>2, <2>4, <2>5, <2>6, <2>7, <2>8 DEF n
<1> QED BY <1>3, <1>4

\* What the loop does after a frame.
LEMMA ThreadAgain ==
  /\ Lens!Again = [at |-> IF told THEN "reading" ELSE "ended", until |-> 0, delay |-> 0]
  /\ Lens!Again.at \in {"reading", "ended"} /\ (Lens!Again.at = "reading" <=> told)
       /\ Lens!Again.until = 0
BY DEF Lens!Again

\* Where a step leaves the thread, and when it is that it moves.
LEMMA ThreadMoves ==
  ASSUME Lens!CaptureAssumption, Lens!TypeOK, Lens!Next
  PROVE  /\ Lens!Start => thread'.at = "reading" \/ thread' = thread
         /\ Lens!ReadFails => thread'.at = "reopening" /\ thread'.until = moment + Backoff
         /\ Lens!Read => thread'.at = "holding"
         /\ Lens!Push \/ Lens!Empty => thread'.at = "pacing"
         /\ Lens!Pace => thread' = Lens!Again \/ thread'.at = "sleeping"
         /\ Lens!Wake => thread' = Lens!Again
         /\ Lens!Reopen => thread' = Lens!Again \/ thread'.at = "reopening"
         /\ Lens!Stop \/ Lens!Close \/ Lens!SetPace \/ Lens!Tick \/ Lens!Plug => thread' = thread
<1>1. thread = [at |-> thread.at, until |-> thread.until, delay |-> thread.delay]
  BY CaptureValues
<1>2. \A p : thread' = [thread EXCEPT !.at = p] => thread'.at = p
  BY <1>1
<1>3. \A d, e : thread' = [thread EXCEPT !.until = d, !.delay = e] => thread'.at = thread.at
  BY <1>1
<1>4. Lens!Start => thread'.at = "reading" \/ thread' = thread
  BY <1>2 DEF Lens!Start, Lens!GoTo
<1>5. Lens!ReadFails => thread'.at = "reopening" /\ thread'.until = moment + Backoff
  BY DEF Lens!ReadFails
<1>6. Lens!Read => thread'.at = "holding"
  BY <1>2 DEF Lens!Read, Lens!GoTo
<1>7. Lens!Push \/ Lens!Empty => thread'.at = "pacing"
  BY <1>2 DEF Lens!Push, Lens!Empty, Lens!GoTo
<1>8. Lens!Pace => thread' = Lens!Again \/ thread'.at = "sleeping"
  BY DEF Lens!Pace
<1>9. Lens!Wake => thread' = Lens!Again
  BY DEF Lens!Wake
<1>10. Lens!Reopen => thread' = Lens!Again \/ thread'.at = "reopening"
  BY <1>3 DEF Lens!Reopen
<1>11. Lens!Stop \/ Lens!Close \/ Lens!SetPace \/ Lens!Tick \/ Lens!Plug => thread' = thread
  BY DEF Lens!Stop, Lens!Close, Lens!SetPace, Lens!Tick, Lens!Plug
<1> QED BY <1>4, <1>5, <1>6, <1>7, <1>8, <1>9, <1>10, <1>11

\* A frame is pushed once.
LEMMA NumbersStep ==
  ASSUME Lens!CaptureAssumption, Lens!TypeOK, NumberInv, Lens!Next
  PROVE  NumberInv'
<1> DEFINE T(r, a) == (IF r THEN 1 ELSE 0) + (IF a = "holding" THEN 1 ELSE 0)
           F(i, r, a, n, t) == i + T(r, a) < t /\ n + T(r, a) < t
<1>1. NumberInv <=> F(index, ready, thread.at, Len(pushed), moment)
  BY DEF NumberInv
<1>2. NumberInv' <=> F(index', ready', thread'.at, Len(pushed'), moment')
  BY DEF NumberInv
<1>3. /\ index \in Nat /\ Len(pushed) \in Nat /\ moment \in Nat /\ Len(<<>>) = 0
  BY CaptureValues, EmptySeq
<1>0. F(index, ready, thread.at, Len(pushed), moment)
  BY <1>1
<1>4. index < moment /\ Len(pushed) < moment /\ 0 < moment
  BY <1>0, <1>3
<1>5. CASE Lens!Start
  <2>1. ~ready' /\ index' = index /\ Len(pushed') = Len(pushed) /\ moment' = moment
    BY <1>5 DEF Lens!Start, Lens!Open, Lens!frames
  <2>2. thread'.at = "reading" \/ thread' = thread
    BY <1>5, ThreadMoves
  <2> QED BY <1>0, <1>2, <1>3, <2>1, <2>2
<1>6. CASE Lens!Stop \/ Lens!SetPace
  <2>1. ready' = ready /\ index' = index /\ pushed' = pushed /\ moment' = moment /\ thread' = thread
    BY <1>6 DEF Lens!Stop, Lens!SetPace, Lens!frames
  <2> QED BY <1>0, <1>2, <2>1
<1>7. CASE Lens!Close \/ Lens!Plug
  <2>1. ~ready' /\ index' = index /\ pushed' = pushed /\ moment' = moment /\ thread' = thread
    BY <1>7 DEF Lens!Close, Lens!Plug, Lens!frames
  <2> QED BY <1>0, <1>2, <1>3, <2>1
<1>8. CASE Lens!ReadFails \/ Lens!Empty \/ Lens!Wake
  <2>1. ready' = ready /\ index' = index /\ pushed' = pushed /\ moment' = moment
    BY <1>8 DEF Lens!ReadFails, Lens!Empty, Lens!Wake, Lens!frames
  <2>2. thread'.at # "holding"
    BY <1>8, ThreadMoves, ThreadAgain
  <2> QED BY <1>0, <1>2, <1>3, <2>1, <2>2
<1>9. CASE Lens!Read
  <2>1. ~ready' /\ ready /\ thread.at = "reading" /\ index' = index /\ pushed' = pushed
          /\ moment' = moment
    BY <1>9 DEF Lens!Read, Lens!frames
  <2>2. thread'.at = "holding"
    BY <1>9, ThreadMoves
  <2> QED BY <1>0, <1>2, <1>3, <2>1, <2>2
<1>10. CASE Lens!Push
  <2>1. ready' = ready /\ thread.at = "holding" /\ index' = index + 1 /\ moment' = moment
    BY <1>10 DEF Lens!Push
  <2>2. thread'.at = "pacing" /\ Len(pushed') = Len(pushed) + 1
    BY <1>10, ThreadMoves, PushedFrames
  <2> QED BY <1>0, <1>2, <1>3, <2>1, <2>2
<1>11. CASE Lens!Pace
  <2>1. ready' = ready /\ index' = index /\ moment' = moment /\ thread.at = "pacing"
    BY <1>11 DEF Lens!Pace
  <2>2. Len(pushed') \in {Len(pushed), 0}
    <3>1. CASE interval <= Period
      BY <1>3, <1>11, <3>1 DEF Lens!Pace, Lens!Unpaced
    <3>2. CASE ~(interval <= Period)
      BY <1>11, <3>2, PacedFrames
    <3> QED BY <3>1, <3>2
  <2>3. thread'.at # "holding"
    BY <1>11, ThreadMoves, ThreadAgain
  <2> QED BY <1>0, <1>2, <1>3, <2>1, <2>2, <2>3
<1>12. CASE Lens!Reopen
  <2>1. ~ready' /\ moment' = moment
    BY <1>12 DEF Lens!Reopen, Lens!Open
  <2>2. index' \in {index, 0} /\ Len(pushed') \in {Len(pushed), 0}
    BY <1>3, <1>12 DEF Lens!Reopen, Lens!Renumber, Lens!Unpaced, Lens!frames
  <2>3. thread'.at # "holding"
    BY <1>12, ThreadMoves, ThreadAgain
  <2>4. T(ready', thread'.at) = 0
    BY <2>1, <2>3
  <2>5. index' \in Nat /\ Len(pushed') \in Nat /\ index' < moment' /\ Len(pushed') < moment'
    BY <1>3, <1>4, <2>1, <2>2
  <2> QED BY <1>2, <2>4, <2>5
<1>13. CASE Lens!Tick
  <2>1. index' = index /\ pushed' = pushed /\ moment' = moment + 1 /\ thread' = thread
    BY <1>13 DEF Lens!Tick, Lens!frames
  <2> QED BY <1>0, <1>2, <1>3, <2>1
<1> QED BY <1>5, <1>6, <1>7, <1>8, <1>9, <1>10, <1>11, <1>12, <1>13 DEF Lens!Next

\* The last attempt to touch the heartbeat file is as old as a frame, and the last frame is not
\* a second younger.
LEMMA BeatStep ==
  ASSUME Lens!CaptureAssumption, Lens!TypeOK, Lens!BeatIsAFrame, Lens!Next
  PROVE  Lens!BeatIsAFrame'
<1>1. /\ moment \in Nat /\ 1 <= moment /\ beat \in Nat /\ beat <= moment /\ last.at \in Nat
      /\ stamp \in Nat /\ stamp <= moment /\ Second \in Nat /\ Second > 0
  BY CaptureValues
<1>2. CASE Lens!Push
  <2>1. last'.at = moment
    BY <1>2 DEF Lens!Push
  <2>2. CASE stamp = 0 \/ moment - stamp >= Second
    <3>1. stamp' = moment /\ ((beat' = moment /\ ~slipped') \/ (beat' = beat /\ slipped'))
      BY <1>2, <2>2 DEF Lens!Push, Lens!Touched, Lens!TouchedAt
    <3> QED BY <1>1, <2>1, <3>1 DEF Lens!BeatIsAFrame
  <2>3. CASE ~(stamp = 0 \/ moment - stamp >= Second)
    <3>1. stamp' = stamp /\ beat' = beat /\ slipped' = slipped
      BY <1>2, <2>3 DEF Lens!Push, Lens!Touched, Lens!heart
    <3> QED BY <1>1, <2>1, <2>3, <3>1 DEF Lens!BeatIsAFrame
  <2> QED BY <2>2, <2>3
<1>3. CASE ~Lens!Push
  <2>1. last' = last /\ stamp' = stamp /\ beat' = beat /\ slipped' = slipped
    BY <1>3 DEF Lens!Next, Lens!Start, Lens!Stop, Lens!Close, Lens!SetPace, Lens!ReadFails,
                Lens!Read, Lens!Empty, Lens!Pace, Lens!Wake, Lens!Reopen,
                Lens!Tick, Lens!Plug, Lens!frames, Lens!heart, Lens!Unpaced
  <2> QED BY <2>1 DEF Lens!BeatIsAFrame
<1> QED BY <1>2, <1>3

\* A thread that is told to end reads no frame after the one it holds.
LEMMA LateFrameStep ==
  ASSUME Lens!CaptureAssumption, Lens!TypeOK, SessionInv, LateInv, Lens!Next
  PROVE  LateInv'
<1>1. late \in Nat
  BY CaptureValues
<1>2. late <= 1 /\ (late > 0 => ~told /\ thread.at \in {"pacing", "sleeping", "ended"})
  BY DEF LateInv, Lens!OneFrameLate
<1>3. SUFFICES late' <= 1 /\ (late' > 0 => ~told' /\ thread'.at \in {"pacing", "sleeping", "ended"})
  BY DEF LateInv, Lens!OneFrameLate
<1>4. CASE Lens!Push
  <2>1. thread.at = "holding" /\ told' = told /\ late' = (IF told THEN late ELSE late + 1)
    BY <1>4 DEF Lens!Push
  <2>2. thread'.at = "pacing"
    BY <1>4, ThreadMoves
  <2> QED BY <1>1, <1>2, <1>3, <2>1, <2>2
<1>5. CASE Lens!Start
  <2>1. late = 0 /\ late' = late
    BY <1>5 DEF Lens!Start, SessionInv, Lens!frames
  <2> QED BY <1>3, <2>1
<1>6. CASE ~Lens!Push /\ ~Lens!Start
  <2>1. late' = late /\ (~told => ~told')
    BY <1>6 DEF Lens!Next, Lens!Stop, Lens!Close, Lens!SetPace, Lens!ReadFails, Lens!Read,
                Lens!Empty, Lens!Pace, Lens!Wake, Lens!Reopen,
                Lens!Tick, Lens!Plug, Lens!frames, Lens!Unpaced
  <2>2. late > 0 => ~Lens!ReadFails /\ ~Lens!Read /\ ~Lens!Empty /\ ~Lens!Reopen
    BY <1>2 DEF Lens!ReadFails, Lens!Read, Lens!Empty, Lens!Reopen
  <2>3. late > 0 => thread'.at \in {"pacing", "sleeping", "ended"}
    BY <1>2, <1>6, <2>2, ThreadMoves, ThreadAgain DEF Lens!Next
  <2> QED BY <1>2, <1>3, <2>1, <2>3
<1> QED BY <1>4, <1>5, <1>6

\* The session and the numbers of its frames.
LEMMA SessionsStep ==
  ASSUME Lens!CaptureAssumption, Lens!TypeOK, SessionInv, LateInv, Lens!Next
  PROVE  SessionInv'
<1>1. /\ moment \in Nat /\ 1 <= moment /\ Backoff \in Nat /\ Backoff > 0 /\ BackoffMax \in Nat
      /\ device.session \in Nat /\ thread.until \in Nat /\ thread.delay \in Nat
      /\ index \in Nat /\ last.at \in Nat /\ last.session \in Nat /\ last.index \in Nat
      /\ device = [open |-> device.open, session |-> device.session]
      /\ thread = [at |-> thread.at, until |-> thread.until, delay |-> thread.delay]
      /\ main = [at |-> main.at, until |-> main.until, delay |-> main.delay]
  BY CaptureValues
<1>2. /\ device.session <= moment
      /\ thread.at = "reopening" => device.session < thread.until
      /\ main.at = "opening" => /\ device.session = 0 /\ thread.at = "none" /\ last.at = 0
                                /\ pushed = <<>> /\ late = 0
      /\ main.at # "opening" => thread.at # "none"
      /\ last.at > 0 => IF device.session = last.session THEN index = last.index + 1
                                             ELSE device.session > last.session /\ index = 0
  BY DEF SessionInv
<1>3. SUFFICES
      /\ device'.session <= moment'
      /\ thread'.at = "reopening" => device'.session < thread'.until
      /\ main'.at = "opening" => /\ device'.session = 0 /\ thread'.at = "none" /\ last'.at = 0
                                 /\ pushed' = <<>> /\ late' = 0
      /\ main'.at # "opening" => thread'.at # "none"
      /\ last'.at > 0 => IF device'.session = last'.session THEN index' = last'.index + 1
                                             ELSE device'.session > last'.session /\ index' = 0
  BY DEF SessionInv
<1>4. \A p : main' = [main EXCEPT !.at = p] => main'.at = p
  BY <1>1
<1>14. \A p, d : main' = [main EXCEPT !.at = p, !.until = d] => main'.at = p
  BY <1>1
<1>5. \A d, e : main' = [main EXCEPT !.until = d, !.delay = e] => main'.at = main.at
  BY <1>1
<1>6. /\ device' = [device EXCEPT !.open = FALSE] => device'.session = device.session
      /\ device' = [open |-> TRUE, session |-> device.session + 1]
           => device'.session = device.session + 1
  BY <1>1
<1>7. CASE Lens!Start
  <2>1. main.at = "opening" /\ moment' = moment /\ index' = index /\ pushed' = pushed
          /\ last' = last /\ late' = late
    BY <1>7 DEF Lens!Start, Lens!frames
  <2>2. CASE plugged
    <3>1. device'.session = 1 /\ main'.at = "up" /\ thread'.at = "reading"
      <4>1. main'.at = "up"
        BY <1>4, <1>7, <2>2 DEF Lens!Start
      <4>2. device'.session = 0 + 1
        BY <1>2, <1>6, <1>7, <2>1, <2>2 DEF Lens!Start, Lens!Open
      <4>3. thread' = [thread EXCEPT !.at = "reading"]
        BY <1>7, <2>2 DEF Lens!Start, Lens!GoTo
      <4> QED BY <1>1, <4>1, <4>2, <4>3
    <3> QED BY <1>1, <1>2, <1>3, <2>1, <3>1
  <2>3. CASE ~plugged
    <3>1. device'.session = device.session /\ main'.at = main.at /\ thread' = thread
      BY <1>5, <1>6, <1>7, <2>3 DEF Lens!Start, Lens!Open
    <3> QED BY <1>2, <1>3, <2>1, <3>1
  <2> QED BY <2>2, <2>3
<1>8. CASE Lens!Stop \/ Lens!Close \/ Lens!SetPace \/ Lens!Plug
  <2>1. /\ moment' = moment /\ index' = index /\ pushed' = pushed /\ last' = last /\ late' = late
        /\ thread' = thread
    BY <1>8 DEF Lens!Stop, Lens!Close, Lens!SetPace, Lens!Plug, Lens!frames
  <2>2. device'.session = device.session
    BY <1>6, <1>8 DEF Lens!Stop, Lens!Close, Lens!SetPace, Lens!Plug
  <2>3. main' = main \/ (main.at # "opening" /\ main'.at # "opening")
    <3>1. CASE Lens!Stop
      BY <1>14, <3>1 DEF Lens!Stop
    <3>2. CASE Lens!Close
      BY <1>4, <3>2 DEF Lens!Close
    <3>3. CASE Lens!SetPace \/ Lens!Plug
      BY <3>3 DEF Lens!SetPace, Lens!Plug
    <3> QED BY <1>8, <3>1, <3>2, <3>3
  <2> QED BY <1>2, <1>3, <2>1, <2>2, <2>3
<1>9. CASE Lens!Tick
  <2>1. /\ moment' = moment + 1 /\ index' = index /\ pushed' = pushed /\ last' = last
        /\ late' = late
        /\ thread' = thread /\ device' = device /\ main' = main
    BY <1>9 DEF Lens!Tick, Lens!frames
  <2> QED BY <1>1, <1>2, <1>3, <2>1
<1>10. CASE Lens!ReadFails \/ Lens!Read \/ Lens!Empty \/ Lens!Wake
  <2>1. /\ moment' = moment /\ index' = index /\ last' = last
        /\ device' = device /\ main' = main
    BY <1>10 DEF Lens!ReadFails, Lens!Read, Lens!Empty, Lens!Wake, Lens!frames
  <2>2. thread.at # "none"
    BY <1>10 DEF Lens!ReadFails, Lens!Read, Lens!Empty, Lens!Wake
  <2>3. /\ thread'.at = "reopening" => thread'.until = moment + Backoff
        /\ thread'.at # "none"
    BY <1>10, ThreadMoves, ThreadAgain
  <2> QED BY <1>1, <1>2, <1>3, <2>1, <2>2, <2>3
<1>11. CASE Lens!Pace
  <2>1. /\ moment' = moment /\ index' = index /\ last' = last
        /\ device' = device /\ main' = main
    BY <1>11 DEF Lens!Pace, Lens!Unpaced
  <2>2. thread.at # "none"
    BY <1>11 DEF Lens!Pace
  <2>3. thread'.at # "reopening" /\ thread'.at # "none"
    BY <1>11, ThreadMoves, ThreadAgain
  <2> QED BY <1>1, <1>2, <1>3, <2>1, <2>2, <2>3
<1>12. CASE Lens!Push
  <2>1. /\ moment' = moment /\ index' = index + 1 /\ device' = device /\ main' = main
        /\ last' = [at |-> moment, session |-> device.session, index |-> index]
    BY <1>12 DEF Lens!Push
  <2>2. thread.at # "none" /\ thread'.at = "pacing"
    BY <1>12, ThreadMoves DEF Lens!Push
  <2> QED BY <1>1, <1>2, <1>3, <2>1, <2>2
<1>13. CASE Lens!Reopen
  <2>1. /\ moment' = moment /\ last' = last /\ main' = main /\ thread.at = "reopening"
        /\ thread.until <= moment
    BY <1>1, <1>13 DEF Lens!Reopen, Lens!Unpaced, Lens!frames
  <2>2. CASE plugged
    <3>1. device'.session = device.session + 1 /\ index' = 0
      BY <1>6, <1>13, <2>2 DEF Lens!Reopen, Lens!Open, Lens!Renumber
    <3>2. thread'.at # "reopening" /\ thread'.at # "none"
      BY <1>13, <2>2, ThreadAgain DEF Lens!Reopen
    <3> QED BY <1>1, <1>2, <1>3, <2>1, <3>1, <3>2
  <2>3. CASE ~plugged
    <3>1. device'.session = device.session /\ index' = index
      BY <1>6, <1>13, <2>3 DEF Lens!Reopen, Lens!Open
    <3>2. thread'.at = "reopening" /\ thread'.until = moment + Lens!Longer(thread.delay)
      BY <1>1, <1>13, <2>3 DEF Lens!Reopen
    <3>3. Lens!Longer(thread.delay) \in Nat
      BY <1>1 DEF Lens!Longer
    <3> QED BY <1>1, <1>2, <1>3, <2>1, <3>1, <3>2, <3>3
  <2> QED BY <2>2, <2>3
<1> QED BY <1>7, <1>8, <1>9, <1>10, <1>11, <1>12, <1>13 DEF Lens!Next

\* What the deadline is worth to the frame at i.
DueAfter(s, i) == s[i].at + (s[Len(s)].paced - s[i].paced)

\* Where every frame is accounted for in the deadline, and where all but the last are.
Settled(p) == p \in {"reading", "holding", "sleeping"}

\* The deadline and the frames pushed.
LEMMA DeadlineStep ==
  ASSUME Lens!CaptureAssumption, Lens!TypeOK, SessionInv, DeadlineInv, Lens!Next
  PROVE  DeadlineInv'
<1>1. /\ moment \in Nat /\ 1 <= moment /\ deadline \in Nat /\ thread.until \in Nat
      /\ interval \in Nat /\ 0 < interval /\ Len(pushed) \in Nat
      /\ DOMAIN pushed = 1 .. Len(pushed)
      /\ \A k \in 1 .. Len(pushed) : /\ pushed[k].at \in Nat /\ 1 <= pushed[k].at
                                    /\ pushed[k].at <= moment /\ pushed[k].paced \in Nat
      /\ thread = [at |-> thread.at, until |-> thread.until, delay |-> thread.delay]
  BY CaptureValues
<1>2. /\ thread.at \in {"none", "reading", "holding", "pacing"} => deadline <= moment
      /\ thread.at = "sleeping" => thread.until = deadline
      /\ thread.at = "none" => deadline = 0
      /\ \A i \in 1 .. Len(pushed) :
           Settled(thread.at) \/ (thread.at = "pacing" /\ i < Len(pushed))
             => deadline >= DueAfter(pushed, i)
      /\ Lens!PaceIsKept
  BY DEF DeadlineInv, Settled, DueAfter
<1>3. SUFFICES
      /\ thread'.at \in {"none", "reading", "holding", "pacing"} => deadline' <= moment'
      /\ thread'.at = "sleeping" => thread'.until = deadline'
      /\ thread'.at = "none" => deadline' = 0
      /\ \A i \in 1 .. Len(pushed') :
           Settled(thread'.at) \/ (thread'.at = "pacing" /\ i < Len(pushed'))
             => deadline' >= DueAfter(pushed', i)
      /\ Lens!PaceIsKept'
  BY DEF DeadlineInv, Settled, DueAfter
<1>4. ASSUME pushed' = <<>> PROVE Len(pushed') = 0 /\ Lens!PaceIsKept'
  <2>1. Len(pushed') = 0 /\ DOMAIN pushed' = {}
    BY <1>4
  <2> QED BY <2>1 DEF Lens!PaceIsKept
<1>5. ASSUME pushed' = pushed PROVE Lens!PaceIsKept'
  BY <1>2, <1>5 DEF Lens!PaceIsKept
<1>6. CASE Lens!Start
  <2>1. /\ moment' = moment /\ deadline' = deadline /\ pushed' = pushed /\ pushed = <<>>
        /\ thread.at = "none"
    BY <1>6 DEF Lens!Start, SessionInv, Lens!frames
  <2>2. thread'.at = "reading" \/ thread' = thread
    BY <1>6, ThreadMoves
  <2> QED BY <1>1, <1>2, <1>3, <1>4, <2>1, <2>2
<1>7. CASE Lens!Stop \/ Lens!Close \/ Lens!SetPace \/ Lens!Plug \/ Lens!Tick
  <2>1. deadline' = deadline /\ pushed' = pushed /\ thread' = thread
    BY <1>7, ThreadMoves DEF Lens!Stop, Lens!Close, Lens!SetPace, Lens!Plug, Lens!Tick, Lens!frames
  <2>2. moment' \in Nat /\ moment <= moment'
    BY <1>1, <1>7 DEF Lens!Stop, Lens!Close, Lens!SetPace, Lens!Plug, Lens!Tick
  <2>3. thread'.at \in {"none", "reading", "holding", "pacing"} => deadline' <= moment'
    BY <1>1, <1>2, <2>1, <2>2
  <2> QED BY <1>2, <1>3, <1>5, <2>1, <2>3
<1>8. CASE Lens!ReadFails \/ Lens!Read \/ Lens!Empty \/ Lens!Wake
  <2>1. deadline' = deadline /\ pushed' = pushed /\ moment' = moment
    BY <1>8 DEF Lens!ReadFails, Lens!Read, Lens!Empty, Lens!Wake, Lens!frames
  <2>2. CASE Lens!ReadFails
    <3>1. thread'.at = "reopening"
      BY <2>2, ThreadMoves
    <3> QED BY <1>3, <1>5, <2>1, <3>1 DEF Settled
  <2>3. CASE Lens!Read \/ Lens!Empty
    <3>1. thread.at \in {"reading", "holding"} /\ thread'.at \in {"holding", "pacing"}
      BY <2>3, ThreadMoves DEF Lens!Read, Lens!Empty
    <3> QED BY <1>2, <1>3, <1>5, <2>1, <3>1 DEF Settled
  <2>4. CASE Lens!Wake
    <3>1. thread.at = "sleeping" /\ thread'.at \in {"reading", "ended"} /\ deadline <= moment
      BY <1>1, <1>2, <2>4, ThreadMoves, ThreadAgain DEF Lens!Wake
    <3> QED BY <1>2, <1>3, <1>5, <2>1, <3>1 DEF Settled
  <2> QED BY <1>8, <2>2, <2>3, <2>4
<1>9. CASE Lens!Push
  <2> DEFINE n == Len(pushed)
  <2>1. /\ Len(pushed') = n + 1 /\ DOMAIN pushed' = 1 .. (n + 1)
        /\ \A k \in 1 .. n : pushed'[k] = pushed[k]
        /\ pushed'[n + 1].at = moment
        /\ pushed'[n + 1].paced = (IF n = 0 THEN 0 ELSE pushed[n].paced)
    <3>1. Len(pushed') = n + 1
      BY <1>9, PushedFrames
    <3> QED BY <1>9, <3>1, PushedFrames
  <2>2. /\ deadline' = deadline /\ moment' = moment /\ thread.at = "holding"
        /\ thread'.at = "pacing"
    BY <1>9, ThreadMoves DEF Lens!Push
  <2>3. deadline <= moment /\ \A i \in 1 .. n : deadline >= DueAfter(pushed, i)
    BY <1>2, <2>2 DEF Settled
  <2>4. ASSUME NEW i \in 1 .. n
        PROVE  /\ DueAfter(pushed', i) = DueAfter(pushed, i)
               /\ DueAfter(pushed, i) = pushed'[i].at + (pushed'[n + 1].paced - pushed'[i].paced)
    <3>1. n # 0 /\ pushed'[i] = pushed[i]
      BY <1>1, <2>1
    <3> QED BY <2>1, <3>1 DEF DueAfter
  <2>5. \A i \in 1 .. (n + 1) : i < n + 1 => i \in 1 .. n
    BY <1>1
  <2>6. \A i \in 1 .. Len(pushed') : i < Len(pushed') => deadline' >= DueAfter(pushed', i)
    BY <2>1, <2>2, <2>3, <2>4, <2>5
  <2>7. Lens!PaceIsKept'
    <3> SUFFICES ASSUME NEW i \in 1 .. (n + 1), NEW j \in 1 .. (n + 1), i < j
                 PROVE pushed'[j].at >= pushed'[i].at + (pushed'[j - 1].paced - pushed'[i].paced)
      BY <2>1 DEF Lens!PaceIsKept
    <3>1. CASE j \in 1 .. n
      <4>1. i \in 1 .. n /\ j - 1 \in 1 .. n
        BY <1>1, <3>1
      <4>2. pushed[j].at >= pushed[i].at + (pushed[j - 1].paced - pushed[i].paced)
        BY <1>1, <1>2, <3>1, <4>1 DEF Lens!PaceIsKept
      <4> QED BY <2>1, <3>1, <4>1, <4>2
    <3>2. CASE j = n + 1
      <4>1. i \in 1 .. n /\ j - 1 = n /\ n \in 1 .. n
        BY <1>1, <3>2
      <4>2. pushed'[i] = pushed[i] /\ pushed'[n] = pushed[n] /\ pushed'[j].at = moment
        BY <2>1, <3>2, <4>1
      <4>3. moment >= DueAfter(pushed, i)
        <5>1. deadline >= DueAfter(pushed, i) /\ deadline <= moment
          BY <2>3, <4>1
        <5>2. DueAfter(pushed, i) \in Int
          BY <1>1, <4>1 DEF DueAfter
        <5> QED BY <1>1, <5>1, <5>2
      <4> QED BY <4>1, <4>2, <4>3 DEF DueAfter
    <3>3. j \in 1 .. n \/ j = n + 1
      BY <1>1
    <3> QED BY <3>1, <3>2, <3>3
  <2> QED BY <1>3, <2>2, <2>3, <2>6, <2>7 DEF Settled
<1>10. CASE Lens!Pace
  <2> DEFINE n == Len(pushed)
             due == (IF deadline = 0 THEN moment ELSE deadline) + interval
  <2>0. thread.at = "pacing" /\ moment' = moment /\ deadline <= moment
    BY <1>2, <1>10 DEF Lens!Pace
  <2>1. CASE interval <= Period
    <3>1. deadline' = 0 /\ pushed' = <<>> /\ thread' = Lens!Again
      BY <1>10, <2>1 DEF Lens!Pace, Lens!Unpaced
    <3> QED BY <1>1, <1>3, <1>4, <2>0, <3>1, ThreadAgain DEF Settled
  <2>2. CASE ~(interval <= Period)
    <3>1. /\ Len(pushed') = n /\ DOMAIN pushed' = 1 .. n
          /\ \A k \in 1 .. n : pushed'[k].at = pushed[k].at
          /\ \A k \in 1 .. (n - 1) : pushed'[k] = pushed[k]
          /\ n > 0 => pushed'[n].paced = pushed[n].paced + interval
      BY <1>10, <2>2, PacedFrames
    <3>2. /\ deadline' = (IF due > moment THEN due ELSE moment)
          /\ thread' = IF due > moment THEN [at |-> "sleeping", until |-> due, delay |-> 0]
               ELSE Lens!Again
      BY <1>10, <2>2 DEF Lens!Pace, Lens!Deadline
    <3>3. due \in Nat /\ due >= deadline + interval
      BY <1>1
    <3>4. /\ thread'.at # "pacing" /\ thread'.at # "none"
          /\ thread'.at = "sleeping" => thread'.until = deadline'
          /\ thread'.at \in {"reading", "holding"} => deadline' <= moment'
      <4>1. CASE due > moment
        BY <3>2, <4>1
      <4>2. CASE ~(due > moment)
        BY <1>1, <2>0, <3>2, <4>2, ThreadAgain
      <4> QED BY <4>1, <4>2
    <3>5. deadline' \in Nat /\ deadline' >= deadline + interval /\ deadline' >= moment
      BY <1>1, <3>2, <3>3
    <3> HIDE DEF due
    <3>6. ASSUME NEW i \in 1 .. n PROVE deadline' >= DueAfter(pushed', i)
      <4>1. n > 0 /\ n \in 1 .. n
        BY <1>1
      <4>2. CASE i = n
        <5>1. DueAfter(pushed', i) = pushed[n].at
          BY <1>1, <3>1, <4>1, <4>2 DEF DueAfter
        <5> QED BY <1>1, <3>5, <4>1, <5>1
      <4>3. CASE i # n
        <5>1. i \in 1 .. (n - 1) /\ i < n
          BY <1>1, <4>3
        <5>2. deadline >= DueAfter(pushed, i)
          BY <1>2, <2>0, <5>1
        <5>3. DueAfter(pushed', i) = DueAfter(pushed, i) + interval /\ DueAfter(pushed, i) \in Int
          <6>1. pushed'[i] = pushed[i] /\ pushed'[n].paced = pushed[n].paced + interval
            BY <3>1, <4>1, <5>1
          <6>2. /\ pushed[i].at \in Nat /\ pushed[i].paced \in Nat /\ pushed[n].paced \in Nat
            BY <1>1, <4>1
          <6> QED BY <1>1, <3>1, <6>1, <6>2 DEF DueAfter
        <5> QED BY <1>1, <3>5, <5>2, <5>3
      <4> QED BY <4>2, <4>3
    <3>7. Lens!PaceIsKept'
      <4> SUFFICES ASSUME NEW i \in 1 .. n, NEW j \in 1 .. n, i < j
                   PROVE pushed'[j].at >= pushed'[i].at + (pushed'[j - 1].paced - pushed'[i].paced)
        BY <3>1 DEF Lens!PaceIsKept
      <4>1. i \in 1 .. (n - 1) /\ j - 1 \in 1 .. (n - 1)
        BY <1>1
      <4>2. pushed'[i] = pushed[i] /\ pushed'[j - 1] = pushed[j - 1] /\ pushed'[j].at = pushed[j].at
        BY <3>1, <4>1
      <4>3. pushed[j].at >= pushed[i].at + (pushed[j - 1].paced - pushed[i].paced)
        BY <1>1, <1>2 DEF Lens!PaceIsKept
      <4> QED BY <4>2, <4>3
    <3> QED BY <1>3, <3>1, <3>4, <3>6, <3>7
  <2> QED BY <2>1, <2>2
<1>11. CASE Lens!Reopen
  <2>1. moment' = moment
    BY <1>11 DEF Lens!Reopen
  <2>2. CASE plugged
    <3>1. deadline' = 0 /\ pushed' = <<>> /\ thread' = Lens!Again
      BY <1>11, <2>2 DEF Lens!Reopen, Lens!Unpaced
    <3> QED BY <1>1, <1>3, <1>4, <2>1, <3>1, ThreadAgain DEF Settled
  <2>3. CASE ~plugged
    <3>1. deadline' = deadline /\ pushed' = pushed
      BY <1>11, <2>3 DEF Lens!Reopen, Lens!frames
    <3>2. thread'.at = "reopening"
      BY <1>1, <1>11, <2>3 DEF Lens!Reopen
    <3> QED BY <1>3, <1>5, <3>1, <3>2 DEF Settled
  <2> QED BY <2>2, <2>3
<1> QED BY <1>6, <1>7, <1>8, <1>9, <1>10, <1>11 DEF Lens!Next

\* The values after a step.
LEMMA CaptureTypes ==
  ASSUME Lens!CaptureAssumption, CaptureInv, Lens!Next, NumberInv', SessionInv', LateInv'
  PROVE  Lens!TypeOK'
<1>1. /\ Rest \in Nat /\ Active \in Nat /\ BackoffMax \in Nat /\ JoinTimeout \in Nat
      /\ Backoff \in Nat /\ Backoff <= BackoffMax /\ LensTime \in Nat /\ MaxPlugs \in Nat
  BY DEF Lens!CaptureAssumption
<1>18. /\ moment \in Nat /\ 1 <= moment /\ moment <= LensTime /\ beat \in Nat /\ beat <= moment
       /\ stamp \in Nat /\ stamp <= moment
       /\ interval \in Nat /\ interval <= Rest /\ interval \in {Rest, Active}
       /\ index \in Nat /\ deadline \in Nat /\ late \in Nat /\ device.session \in Nat
       /\ thread.delay \in Nat /\ thread.delay <= BackoffMax
       /\ main.delay \in Nat /\ main.delay <= BackoffMax
  BY CaptureValues DEF CaptureInv
<1>19. /\ Len(pushed) \in Nat /\ pushed \in Seq([at : Nat, paced : Nat])
       /\ \A k \in 1 .. Len(pushed) : /\ pushed[k].at \in Nat /\ 1 <= pushed[k].at
                                     /\ pushed[k].at <= moment
  BY CaptureValues DEF CaptureInv
<1>2. Lens!TypeOK
  BY DEF CaptureInv
<1>3. moment' \in 1 .. LensTime /\ moment <= moment'
  <2>1. CASE Lens!Tick
    BY <1>1, <1>18, <2>1 DEF Lens!Tick
  <2>2. CASE ~Lens!Tick
    BY <1>1, <1>18, <2>2 DEF Lens!Next, Lens!Start, Lens!Stop, Lens!Close, Lens!SetPace,
                             Lens!ReadFails, Lens!Read, Lens!Push, Lens!Empty, Lens!Pace,
                      Lens!Wake, Lens!Reopen, Lens!Plug
  <2> QED BY <2>1, <2>2
<1>4. beat' \in 0 .. moment' /\ stamp' \in 0 .. moment'
  <2>1. beat' \in {beat, moment} /\ stamp' \in {stamp, moment}
    BY DEF Lens!Next, Lens!Start, Lens!Stop, Lens!Close, Lens!SetPace, Lens!ReadFails, Lens!Read,
           Lens!Push, Lens!Empty, Lens!Pace, Lens!heart,
           Lens!Wake, Lens!Reopen, Lens!Plug, Lens!Tick, Lens!Touched, Lens!TouchedAt
  <2> QED BY <1>1, <1>18, <1>3, <2>1
<1>20. slipped' \in BOOLEAN
  <2>1. slipped \in BOOLEAN
    BY <1>2 DEF Lens!TypeOK
  <2>2. slipped' = slipped \/ slipped' = TRUE \/ slipped' = FALSE
    BY DEF Lens!Next, Lens!Start, Lens!Stop, Lens!Close, Lens!SetPace, Lens!ReadFails, Lens!Read,
           Lens!Push, Lens!Empty, Lens!Pace, Lens!heart,
           Lens!Wake, Lens!Reopen, Lens!Plug, Lens!Tick, Lens!Touched, Lens!TouchedAt
  <2> QED BY <2>1, <2>2
<1>5. plugged' \in BOOLEAN /\ told' \in BOOLEAN /\ ready' \in BOOLEAN
        /\ interval' \in {Rest, Active}
  <2>1. plugged \in BOOLEAN /\ told \in BOOLEAN /\ ready \in BOOLEAN
    BY <1>2 DEF Lens!TypeOK
  <2>2. plugged' \in BOOLEAN
    BY <2>1 DEF Lens!Next, Lens!Start, Lens!Stop, Lens!Close, Lens!SetPace, Lens!ReadFails,
                Lens!Read, Lens!Push, Lens!Empty, Lens!Pace,
           Lens!Wake, Lens!Reopen, Lens!Plug, Lens!Tick
  <2>3. told' \in BOOLEAN
    BY <2>1 DEF Lens!Next, Lens!Start, Lens!Stop, Lens!Close, Lens!SetPace, Lens!ReadFails,
                Lens!Read, Lens!Push, Lens!Empty, Lens!Pace,
           Lens!Wake, Lens!Reopen, Lens!Plug, Lens!Tick
  <2>4. ready' \in BOOLEAN
    BY <2>1 DEF Lens!Next, Lens!Start, Lens!Stop, Lens!Close, Lens!SetPace, Lens!ReadFails,
                Lens!Read, Lens!Push, Lens!Empty, Lens!Pace,
           Lens!Wake, Lens!Reopen, Lens!Plug, Lens!Tick, Lens!Open
  <2>5. interval' \in {Rest, Active}
    BY <1>1, <1>18 DEF Lens!Next, Lens!Start, Lens!Stop, Lens!Close, Lens!SetPace, Lens!ReadFails,
                       Lens!Read, Lens!Push, Lens!Empty, Lens!Pace,
           Lens!Wake, Lens!Reopen, Lens!Plug, Lens!Tick
  <2> QED BY <2>2, <2>3, <2>4, <2>5
<1>6. plugs' \in 0 .. MaxPlugs
  <2>1. plugs \in 0 .. MaxPlugs
    BY <1>2 DEF Lens!TypeOK
  <2>2. plugs' = plugs \/ (plugs < MaxPlugs /\ plugs' = plugs + 1)
    BY DEF Lens!Next, Lens!Start, Lens!Stop, Lens!Close, Lens!SetPace, Lens!ReadFails, Lens!Read,
           Lens!Push, Lens!Empty, Lens!Pace,
           Lens!Wake, Lens!Reopen, Lens!Plug, Lens!Tick
  <2> QED BY <1>1, <1>18, <2>1, <2>2
<1>7. device' \in [open : BOOLEAN, session : 0 .. LensTime]
  <2>1. device \in [open : BOOLEAN, session : 0 .. LensTime]
    BY <1>2 DEF Lens!TypeOK
  <2>2. \/ device' = device
        \/ device' = [device EXCEPT !.open = FALSE]
        \/ device' = [open |-> TRUE, session |-> device.session + 1]
    BY DEF Lens!Next, Lens!Start, Lens!Stop, Lens!Close, Lens!SetPace, Lens!ReadFails, Lens!Read,
           Lens!Push, Lens!Empty, Lens!Pace,
           Lens!Wake, Lens!Reopen, Lens!Plug, Lens!Tick, Lens!Open
  <2>3. device'.session <= moment'
    BY DEF SessionInv
  <2>4. CASE device' = [open |-> TRUE, session |-> device.session + 1]
    <3>1. device.session + 1 \in 0 .. LensTime
      BY <1>1, <1>18, <1>3, <2>3, <2>4
    <3> QED BY <2>4, <3>1
  <2> QED BY <2>1, <2>2, <2>4
<1>8. index' \in 0 .. LensTime
  <2>1. index' \in {index, index + 1, 0}
    BY DEF Lens!Next, Lens!Start, Lens!Stop, Lens!Close, Lens!SetPace, Lens!ReadFails, Lens!Read,
           Lens!Push, Lens!Empty, Lens!Pace,
           Lens!Wake, Lens!Reopen, Lens!Plug, Lens!Tick, Lens!Renumber
  <2>2. index' \in Nat
    BY <1>1, <1>18, <2>1
  <2> DEFINE r == IF ready' THEN 1 ELSE 0
             h == IF thread'.at = "holding" THEN 1 ELSE 0
  <2>3. r \in {0, 1} /\ h \in {0, 1} /\ index' + (r + h) < moment'
    BY DEF NumberInv
  <2> HIDE DEF r, h
  <2>4. moment' \in Nat /\ moment' <= LensTime
    BY <1>1, <1>3
  <2>5. index' <= moment'
    <3>1. \A i, x, y, n \in Nat : i + (x + y) < n => i <= n
      OBVIOUS
    <3>2. r \in Nat /\ h \in Nat
      BY <2>3
    <3> QED BY <2>2, <2>3, <2>4, <3>1, <3>2
  <2> QED BY <1>1, <2>2, <2>4, <2>5
<1>9. ASSUME thread.at = "pacing" PROVE deadline <= moment
  BY <1>9 DEF CaptureInv, DeadlineInv
<1>10. deadline' \in 0 .. (LensTime + Rest)
  <2>1. deadline \in 0 .. (LensTime + Rest)
    BY <1>2 DEF Lens!TypeOK
  <2>2. CASE Lens!Pace
    <3>1. \/ deadline' = 0
          \/ deadline' = Lens!Deadline((IF deadline = 0 THEN moment ELSE deadline) + interval)
      BY <2>2 DEF Lens!Pace, Lens!Unpaced
    <3>2. deadline <= moment
      BY <1>9, <2>2 DEF Lens!Pace
    <3> QED BY <1>1, <1>18, <3>1, <3>2 DEF Lens!Deadline
  <2>3. CASE ~Lens!Pace
    <3>1. deadline' = deadline \/ deadline' = 0
      BY <2>3 DEF Lens!Next, Lens!Start, Lens!Stop, Lens!Close, Lens!SetPace, Lens!ReadFails,
                  Lens!Read, Lens!Push, Lens!Empty,
             Lens!Wake, Lens!Reopen, Lens!Plug, Lens!Tick, Lens!Unpaced
    <3> QED BY <1>1, <1>18, <2>1, <3>1
  <2> QED BY <2>2, <2>3
<1>11. \A d \in 0 .. BackoffMax : Lens!Longer(d) \in 0 .. BackoffMax
  BY <1>1, <1>18 DEF Lens!Longer
<1>12. thread' \in [at : Lens!Places, until : 0 .. (LensTime + Rest + BackoffMax), delay :
         0 .. BackoffMax]
  <2>1. thread \in [at : Lens!Places, until : 0 .. (LensTime + Rest + BackoffMax), delay :
          0 .. BackoffMax]
    BY <1>2 DEF Lens!TypeOK
  <2>2. /\ 0 \in 0 .. (LensTime + Rest + BackoffMax) /\ 0 \in 0 .. BackoffMax
        /\ moment + Backoff \in 0 .. (LensTime + Rest + BackoffMax) /\ Backoff \in 0 .. BackoffMax
        /\ \A d \in 0 .. BackoffMax : moment + d \in 0 .. (LensTime + Rest + BackoffMax)
        /\ thread.delay \in 0 .. BackoffMax
    BY <1>1, <1>18
  <2>3. Lens!Again \in [at : Lens!Places, until : 0 .. (LensTime + Rest + BackoffMax), delay :
          0 .. BackoffMax]
    BY <2>2, ThreadAgain DEF Lens!Places
  <2>4. \A p \in Lens!Places : thread' = [thread EXCEPT !.at = p]
          => thread' \in [at : Lens!Places, until : 0 .. (LensTime + Rest + BackoffMax), delay :
            0 .. BackoffMax]
    BY <2>1
  <2>5. CASE Lens!Start \/ Lens!Read \/ Lens!Push \/ Lens!Empty
    <3>1. thread' = thread \/ \E p \in Lens!Places : thread' = [thread EXCEPT !.at = p]
      BY <2>5 DEF Lens!Start, Lens!Read, Lens!Push, Lens!Empty, Lens!GoTo, Lens!Places
    <3> QED BY <2>1, <2>4, <3>1
  <2>6. CASE Lens!Stop \/ Lens!Close \/ Lens!SetPace \/ Lens!Tick \/ Lens!Plug
    BY <2>1, <2>6, ThreadMoves, <1>2
  <2>7. CASE Lens!ReadFails
    BY <2>2, <2>7 DEF Lens!ReadFails, Lens!Places
  <2>8. CASE Lens!Wake
    BY <2>3, <2>8 DEF Lens!Wake
  <2>9. CASE Lens!Pace
    <3> DEFINE due == (IF deadline = 0 THEN moment ELSE deadline) + interval
    <3>1. thread' = Lens!Again \/ thread' = [at |-> "sleeping", until |-> due, delay |-> 0]
      BY <2>9 DEF Lens!Pace
    <3>3. deadline <= moment
      BY <1>9, <2>9 DEF Lens!Pace
    <3>2. due \in 0 .. (LensTime + Rest + BackoffMax)
      BY <1>1, <1>18, <3>3
    <3> HIDE DEF due
    <3> QED BY <2>2, <2>3, <3>1, <3>2 DEF Lens!Places
  <2>10. CASE Lens!Reopen
    <3>1. CASE plugged
      BY <2>3, <2>10, <3>1 DEF Lens!Reopen
    <3>2. CASE ~plugged
      <4> DEFINE d == Lens!Longer(thread.delay)
      <4>1. thread' = [thread EXCEPT !.until = moment + d, !.delay = d]
        BY <2>10, <3>2 DEF Lens!Reopen
      <4>2. d \in 0 .. BackoffMax /\ moment + d \in 0 .. (LensTime + Rest + BackoffMax)
        BY <1>11, <2>2
      <4> HIDE DEF d
      <4> QED BY <2>1, <4>1, <4>2
    <3> QED BY <3>1, <3>2
  <2> QED BY <2>5, <2>6, <2>7, <2>8, <2>9, <2>10 DEF Lens!Next
<1>13. main' \in [at : {"opening", "up", "joining", "stopped"},
                  until : 0 .. (LensTime + BackoffMax + JoinTimeout), delay : 0 .. BackoffMax]
  <2> DEFINE M == [at : {"opening", "up", "joining", "stopped"},
                  until : 0 .. (LensTime + BackoffMax + JoinTimeout), delay : 0 .. BackoffMax]
  <2> SUFFICES main' \in M
    OBVIOUS
  <2>1. main \in M
    BY <1>2 DEF Lens!TypeOK
  <2>2. \A p \in {"up", "stopped"} : [main EXCEPT !.at = p] \in M
    BY <2>1
  <2>3. moment + JoinTimeout \in 0 .. (LensTime + BackoffMax + JoinTimeout)
    BY <1>1, <1>18
  <2>4. [main EXCEPT !.at = "joining", !.until = moment + JoinTimeout] \in M
    BY <2>1, <2>3
  <2>5. CASE Lens!Start
    <3> DEFINE d == IF main.delay = 0 THEN Backoff ELSE Lens!Longer(main.delay)
    <3>1. d \in 0 .. BackoffMax /\ moment + d \in 0 .. (LensTime + BackoffMax + JoinTimeout)
      <4>1. d \in 0 .. BackoffMax
        BY <1>1, <1>18, <1>11
      <4> HIDE DEF d
      <4> QED BY <1>1, <1>18, <4>1
    <3>2. \/ main' = [main EXCEPT !.at = "up"]
          \/ main' = [main EXCEPT !.until = moment + d, !.delay = d]
      BY <2>5 DEF Lens!Start
    <3> HIDE DEF d
    <3>3. [main EXCEPT !.until = moment + d, !.delay = d] \in M
      BY <2>1, <3>1
    <3> HIDE DEF M
    <3> QED BY <2>2, <3>2, <3>3
  <2> HIDE DEF M
  <2>6. CASE Lens!Stop
    BY <2>4, <2>6 DEF Lens!Stop
  <2>7. CASE Lens!Close
    BY <2>2, <2>7 DEF Lens!Close
  <2>8. CASE Lens!SetPace \/ Lens!ReadFails \/ Lens!Read \/ Lens!Push \/ Lens!Empty \/ Lens!Pace
               \/ Lens!Wake \/ Lens!Reopen \/ Lens!Tick \/ Lens!Plug
    BY <2>1, <2>8 DEF Lens!SetPace, Lens!ReadFails, Lens!Read, Lens!Push, Lens!Empty, Lens!Pace,
                      Lens!Wake, Lens!Reopen, Lens!Tick, Lens!Plug
  <2> QED BY <2>5, <2>6, <2>7, <2>8 DEF Lens!Next
<1>14. pushed' \in Seq([at : 1 .. moment', paced : Nat]) /\ Len(pushed') <= LensTime
  <2>1. /\ pushed' \in Seq([at : Nat, paced : Nat])
        /\ \A k \in 1 .. Len(pushed') : pushed'[k].at \in 1 .. moment'
    <3>1. /\ pushed \in Seq([at : Nat, paced : Nat])
          /\ \A k \in 1 .. Len(pushed) : pushed[k].at \in 1 .. moment'
      <4>1. pushed \in Seq([at : Nat, paced : Nat])
        BY <1>19
      <4>2. \A k \in 1 .. Len(pushed) : pushed[k].at \in 1 .. moment'
        <5>1. moment' \in Nat /\ moment <= moment'
          BY <1>3
        <5> HIDE DEF Lens!TypeOK
        <5> QED BY <1>18, <1>19, <5>1
      <4> QED BY <4>1, <4>2
    <3>2. CASE Lens!Push
      <4> DEFINE n == Len(pushed)
      <4>1. /\ Len(pushed') = n + 1 /\ pushed' \in Seq([at : Nat, paced : Nat])
            /\ \A k \in 1 .. n : pushed'[k] = pushed[k]
        BY <1>2, <3>2, PushedFrames
      <4>2. pushed'[n + 1].at = moment
        BY <1>2, <3>2, <4>1, PushedFrames
      <4>3. \A k \in 1 .. (n + 1) : k \in 1 .. n \/ k = n + 1
        BY <1>19
      <4>4. moment \in 1 .. moment'
        BY <1>1, <1>18, <1>3
      <4>5. \A k \in 1 .. (n + 1) : pushed'[k].at \in 1 .. moment'
        BY <3>1, <4>1, <4>2, <4>3, <4>4
      <4> QED BY <4>1, <4>5
    <3>3. CASE Lens!Pace /\ ~(interval <= Period)
      <4>1. /\ Len(pushed') = Len(pushed) /\ pushed' \in Seq([at : Nat, paced : Nat])
            /\ \A k \in 1 .. Len(pushed) : pushed'[k].at = pushed[k].at
        BY <1>2, <3>3, PacedFrames
      <4> QED BY <3>1, <4>1
    <3>4. CASE ~Lens!Push /\ ~(Lens!Pace /\ ~(interval <= Period))
      <4>1. pushed' = pushed \/ pushed' = <<>>
        BY <3>4 DEF Lens!Next, Lens!Start, Lens!Stop, Lens!Close, Lens!SetPace, Lens!ReadFails,
                    Lens!Read, Lens!Empty, Lens!Pace,
               Lens!Wake, Lens!Reopen, Lens!Plug, Lens!Tick, Lens!Unpaced, Lens!frames
      <4>2. <<>> \in Seq([at : Nat, paced : Nat]) /\ Len(<<>>) = 0
        BY EmptySeq
      <4>3. CASE pushed' = <<>>
        BY <4>2, <4>3
      <4> QED BY <3>1, <4>1, <4>3
    <3> QED BY <3>2, <3>3, <3>4
  <2>2. Len(pushed') \in Nat /\ pushed' \in [1 .. Len(pushed') -> [at : Nat, paced : Nat]]
    BY <2>1, LenProperties
  <2>3. pushed' \in [1 .. Len(pushed') -> [at : 1 .. moment', paced : Nat]]
    <3>1. \A k \in 1 .. Len(pushed') : pushed'[k] \in [at : 1 .. moment', paced : Nat]
      <4> SUFFICES ASSUME NEW k \in 1 .. Len(pushed')
                   PROVE  pushed'[k] \in [at : 1 .. moment', paced : Nat]
        OBVIOUS
      <4>1. pushed'[k] \in [at : Nat, paced : Nat]
        BY <2>2
      <4>2. pushed'[k].at \in 1 .. moment'
        BY <2>1
      <4> QED BY <4>1, <4>2
    <3> QED BY <2>2, <3>1
  <2>4. pushed' \in Seq([at : 1 .. moment', paced : Nat])
    <3> DEFINE S == [at : 1 .. moment', paced : Nat]
    <3>1. Len(pushed') \in Nat /\ pushed' \in [1 .. Len(pushed') -> S]
      BY <2>2, <2>3
    <3> HIDE DEF S
    <3>2. pushed' \in Seq(S)
      BY <3>1, SeqDef
    <3> QED BY <3>2 DEF S
  <2>5. Len(pushed') <= LensTime
    <3> DEFINE r == IF ready' THEN 1 ELSE 0
               h == IF thread'.at = "holding" THEN 1 ELSE 0
    <3>1. r \in {0, 1} /\ h \in {0, 1} /\ Len(pushed') + (r + h) < moment'
      BY DEF NumberInv
    <3> HIDE DEF r, h
    <3> QED BY <1>1, <1>18, <1>3, <2>2, <3>1
  <2> QED BY <2>4, <2>5
<1>15. last' \in [at : 0 .. moment', session : 0 .. LensTime, index : 0 .. LensTime]
  <2>1. last \in [at : 0 .. moment, session : 0 .. LensTime, index : 0 .. LensTime]
    BY <1>2 DEF Lens!TypeOK
  <2>2. CASE Lens!Push
    <3>1. last' = [at |-> moment, session |-> device.session, index |-> index]
      BY <2>2 DEF Lens!Push
    <3>2. device.session \in 0 .. LensTime /\ index \in 0 .. LensTime
      BY <1>2 DEF Lens!TypeOK
    <3>3. moment \in 0 .. moment'
      BY <1>1, <1>18, <1>3
    <3> QED BY <3>1, <3>2, <3>3
  <2>3. CASE ~Lens!Push
    <3>1. last' = last
      BY <2>3 DEF Lens!Next, Lens!Start, Lens!Stop, Lens!Close, Lens!SetPace, Lens!ReadFails,
                  Lens!Read, Lens!Empty, Lens!Pace,
             Lens!Wake, Lens!Reopen, Lens!Plug, Lens!Tick, Lens!Unpaced, Lens!frames
    <3>2. \A x \in 0 .. moment : x \in 0 .. moment'
      BY <1>1, <1>18, <1>3
    <3> QED BY <2>1, <3>1, <3>2
  <2> QED BY <2>2, <2>3
<1>16. late' \in 0 .. LensTime
  <2>1. late' \in {late, late + 1} /\ late' <= 1
    <3>1. late' <= 1
      BY DEF LateInv, Lens!OneFrameLate
    <3>2. late' \in {late, late + 1}
      BY DEF Lens!Next, Lens!Start, Lens!Stop, Lens!Close, Lens!SetPace, Lens!ReadFails, Lens!Read,
             Lens!Push, Lens!Empty, Lens!Pace,
             Lens!Wake, Lens!Reopen, Lens!Plug, Lens!Tick, Lens!Unpaced, Lens!frames
    <3> QED BY <3>1, <3>2
  <2> QED BY <1>1, <1>18, <1>3, <2>1
<1>17. {plugged', ready', told'} \subseteq BOOLEAN
  BY <1>5
<1> QED BY <1>3, <1>4, <1>5, <1>6, <1>7, <1>8, <1>10, <1>12, <1>13, <1>14, <1>15, <1>16,
           <1>17, <1>20 DEF Lens!TypeOK

\* The camera process keeps to what it promises of a frame.
LEMMA CaptureHolds ==
  ASSUME Lens!CaptureAssumption
  PROVE  Lens!Spec => [](/\ Lens!TypeOK /\ Lens!PaceIsKept /\ Lens!NumbersFollow
                         /\ Lens!BeatIsAFrame /\ Lens!OneFrameLate)
<1>1. Lens!Init => CaptureInv
  <2> SUFFICES ASSUME Lens!Init PROVE CaptureInv
    OBVIOUS
  <2>1. /\ moment = 1 /\ ready = FALSE /\ device = [open |-> FALSE, session |-> 0]
        /\ interval = Rest /\ deadline = 0 /\ index = 0 /\ plugs = 0
        /\ thread = [at |-> "none", until |-> 0, delay |-> 0] /\ told = FALSE
        /\ main = [at |-> "opening", until |-> 1, delay |-> 0] /\ pushed = <<>>
        /\ stamp = 0 /\ beat = 0 /\ slipped = FALSE
        /\ last = [at |-> 0, session |-> 0, index |-> 0] /\ late = 0
    BY DEF Lens!Init
  <2>2. plugged \in BOOLEAN
    BY DEF Lens!Init
  <2>3. /\ Rest \in Nat /\ Active \in Nat /\ BackoffMax \in Nat /\ JoinTimeout \in Nat
        /\ LensTime \in Nat /\ LensTime > 0 /\ MaxPlugs \in Nat /\ Second \in Nat /\ Second > 0
    BY DEF Lens!CaptureAssumption
  <2>4. Len(pushed) = 0 /\ pushed \in Seq([at : 1 .. moment, paced : Nat]) /\ DOMAIN pushed = {}
    BY <2>1, EmptySeq
  <2>5. Lens!TypeOK
    <3>1. /\ moment \in 1 .. LensTime /\ beat \in 0 .. moment /\ stamp \in 0 .. moment
          /\ 0 \in 0 .. LensTime
          /\ 0 \in 0 .. moment
          /\ plugs \in 0 .. MaxPlugs /\ deadline \in 0 .. (LensTime + Rest)
          /\ 0 \in 0 .. (LensTime + Rest + BackoffMax) /\ 0 \in 0 .. BackoffMax
          /\ 1 \in 0 .. (LensTime + BackoffMax + JoinTimeout) /\ Len(pushed) <= LensTime
      BY <2>1, <2>3, <2>4
    <3>2. {plugged, ready, told, slipped} \subseteq BOOLEAN
      BY <2>1, <2>2
    <3>3. /\ device \in [open : BOOLEAN, session : 0 .. LensTime]
          /\ last \in [at : 0 .. moment, session : 0 .. LensTime, index : 0 .. LensTime]
          /\ thread \in [at : Lens!Places, until : 0 .. (LensTime + Rest + BackoffMax), delay :
               0 .. BackoffMax]
          /\ main \in [at : {"opening", "up", "joining", "stopped"},
                       until : 0 .. (LensTime + BackoffMax + JoinTimeout), delay : 0 .. BackoffMax]
      BY <2>1, <3>1 DEF Lens!Places
    <3> QED BY <2>1, <2>4, <3>1, <3>2, <3>3 DEF Lens!TypeOK
  <2>6. NumberInv /\ Lens!BeatIsAFrame /\ LateInv
    BY <2>1, <2>3, <2>4 DEF NumberInv, Lens!BeatIsAFrame, LateInv, Lens!OneFrameLate
  <2>7. SessionInv
    BY <2>1 DEF SessionInv
  <2>8. DeadlineInv
    BY <2>1, <2>4 DEF DeadlineInv, Lens!PaceIsKept
  <2> QED BY <2>5, <2>6, <2>7, <2>8 DEF CaptureInv
<1>2. CaptureInv /\ [Lens!Next]_(Lens!vars) => CaptureInv'
  <2> SUFFICES ASSUME CaptureInv, [Lens!Next]_(Lens!vars) PROVE CaptureInv'
    OBVIOUS
  <2>1. Lens!TypeOK /\ NumberInv /\ SessionInv /\ DeadlineInv /\ Lens!BeatIsAFrame /\ LateInv
    BY DEF CaptureInv
  <2>2. CASE Lens!Next
    <3>1. NumberInv' /\ SessionInv' /\ LateInv'
      BY <2>1, <2>2, NumbersStep, SessionsStep, LateFrameStep
    <3>2. DeadlineInv' /\ Lens!BeatIsAFrame'
      BY <2>1, <2>2, DeadlineStep, BeatStep
    <3>3. Lens!TypeOK'
      BY <2>2, <3>1, CaptureTypes
    <3> QED BY <3>1, <3>2, <3>3 DEF CaptureInv
  <2>3. CASE UNCHANGED Lens!vars
    BY <2>1, <2>3 DEF CaptureInv, Lens!vars, Lens!frames, Lens!heart, Lens!TypeOK, NumberInv,
    SessionInv,
                      DeadlineInv,
                      Lens!PaceIsKept, Lens!BeatIsAFrame, LateInv, Lens!OneFrameLate
  <2> QED BY <2>2, <2>3
<1>3. CaptureInv => Lens!TypeOK /\ Lens!PaceIsKept /\ Lens!NumbersFollow /\ Lens!BeatIsAFrame
        /\ Lens!OneFrameLate
  BY DEF CaptureInv, DeadlineInv, SessionInv, LateInv, Lens!NumbersFollow
<1> QED BY <1>1, <1>2, <1>3, PTL DEF Lens!Spec

-----------------------------------------------------------------------------
(* The statistics *)

\* What _record_latency keeps of the samples: the last of them, in their order.
LEMMA KeptSamples ==
  ASSUME NEW S, NEW s \in Seq(S), Samples \in Nat \ {0}
  PROVE  /\ Stats!Kept(s) \in Seq(S) /\ Len(Stats!Kept(s)) \in Nat /\ Len(s) \in Nat
         /\ Len(Stats!Kept(s)) = (IF Len(s) > Samples THEN Samples ELSE Len(s))
         /\ \A k \in 1..Len(Stats!Kept(s)) : Stats!Kept(s)[k] = s[Len(s) - Len(Stats!Kept(s)) + k]
<1> DEFINE m == IF Len(s) > Samples THEN Len(s) - Samples + 1 ELSE 1
           t == SubSeq(s, m, Len(s))
<1>1. Len(s) \in Nat /\ m \in 1..(Len(s) + 1)
  BY LenProperties
<1>2. /\ t \in Seq(S) /\ Len(t) = (IF m <= Len(s) THEN Len(s) - m + 1 ELSE 0)
      /\ \A k \in 1..(Len(s) - m + 1) : t[k] = s[m + k - 1]
  <2> HIDE DEF m
  <2>1. 1..Len(s) \subseteq DOMAIN s
    BY LenProperties
  <2>2. \A i \in m..Len(s) : s[i] \in S
    BY <1>1, LenProperties
  <2> QED BY <1>1, <2>1, <2>2, SubSeqProperties
<1>3. Stats!Kept(s) = t
  BY DEF Stats!Kept
<1> HIDE DEF t
<1>4. Len(t) = (IF Len(s) > Samples THEN Samples ELSE Len(s)) /\ Len(t) = Len(s) - m + 1
  <2>1. CASE Len(s) > Samples
    <3>1. m = Len(s) - Samples + 1 /\ Len(s) - m + 1 = Samples /\ m <= Len(s)
      BY <1>1, <2>1
    <3>2. Len(t) = Samples
      BY <1>1, <1>2, <3>1
    <3> QED BY <2>1, <3>1, <3>2
  <2>2. CASE ~ (Len(s) > Samples)
    <3>1. m = 1 /\ Len(s) - m + 1 = Len(s)
      BY <1>1, <2>2
    <3>2. Len(t) = Len(s)
      BY <1>1, <1>2, <3>1
    <3> QED BY <2>2, <3>1, <3>2
  <2> QED BY <2>1, <2>2
<1>5. \A k \in 1..Len(t) : t[k] = s[Len(s) - Len(t) + k]
  <2> TAKE k \in 1..Len(t)
  <2>1. Len(s) - Len(t) + k = m + k - 1
    BY <1>1, <1>4
  <2> QED BY <1>2, <1>4, <2>1
<1>6. Len(t) \in Nat
  BY <1>2, LenProperties
<1> QED BY <1>1, <1>2, <1>3, <1>4, <1>5, <1>6

\* What the properties rest on: a reading covers time that has passed, nothing is written once
\* the process has died, and a key expires a Ttl after it was written at the latest.
StatsInv ==
  /\ Stats!TypeOK /\ Stats!FramesAreMeasuredOnce /\ Stats!LatencyIsOfTheLast
  /\ looked.count <= published /\ looked.at <= second /\ looked.next <= second + Interval
  /\ alive > 0 /\ writing = None => looked.at < looked.next
  /\ alive = 0 => writing = None
  /\ statsKey # None => /\ second < statsKey.until /\ statsKey.until <= second + Ttl
                        /\ (alive = 0 => statsKey.until <= died + Ttl)

\* Every step keeps what is said of the statistics.
LEMMA StatsStep ==
  ASSUME Stats!EdgeStatsAssumption, StatsInv, [Stats!Next]_(Stats!vars)
  PROVE  StatsInv'
<1>0. /\ Interval \in Nat \ {0} /\ Ttl \in Nat \ {0} /\ Samples \in Nat \ {0}
      /\ StatsTime \in Nat \ {0} /\ StatsFrames \in Nat \ {0} /\ None \notin Stats!Reading
  BY DEF Stats!EdgeStatsAssumption
<1>1. /\ second \in 1..StatsTime /\ alive \in 0..second /\ died \in 0..second
      /\ published \in 0..StatsFrames /\ answered \in 0..StatsFrames /\ measured \in 0..StatsFrames
      /\ latencies \in Seq(1..StatsFrames) /\ Len(latencies) <= Samples
      /\ looked \in [count : 0..StatsFrames, at : 0..StatsTime, next : 0..(StatsTime + Interval)]
      /\ writing \in Stats!Reading \cup {None}
      /\ statsKey # None =>
           statsKey.reading \in Stats!Reading /\ statsKey.until \in second..(StatsTime + Ttl)
      /\ measured + (published - looked.count) = published
      /\ \A k \in DOMAIN latencies : latencies[k] = answered - Len(latencies) + k
      /\ DOMAIN latencies = 1..Len(latencies) /\ Len(latencies) \in Nat
      /\ looked.count <= published /\ looked.at <= second /\ looked.next <= second + Interval
      /\ alive > 0 /\ writing = None => looked.at < looked.next
      /\ alive = 0 => writing = None
      /\ statsKey # None => /\ second < statsKey.until /\ statsKey.until <= second + Ttl
                            /\ (alive = 0 => statsKey.until <= died + Ttl)
  BY LenProperties DEF StatsInv, Stats!TypeOK, Stats!FramesAreMeasuredOnce, Stats!LatencyIsOfTheLast
\* The numbers alone
<1>n. /\ Interval \in Nat /\ Interval > 0 /\ Ttl \in Nat /\ Ttl > 0 /\ StatsTime \in Nat
      /\ StatsFrames \in Nat
      /\ second \in Nat /\ 1 <= second /\ second <= StatsTime /\ alive \in Nat /\ alive <= second
      /\ died \in Nat /\ died <= second
      /\ published \in Nat /\ published <= StatsFrames /\ answered \in Nat
      /\ answered <= StatsFrames
      /\ measured \in Nat /\ measured <= StatsFrames
      /\ looked.count \in Nat /\ looked.at \in Nat /\ looked.next \in Nat
      /\ looked.count <= published /\ looked.at <= second /\ looked.next <= second + Interval
  BY <1>0, <1>1
<1>2. measured = looked.count
  <2>1. measured + (published - looked.count) = published
    BY <1>1
  <2>2. measured \in Nat /\ published \in Nat /\ looked.count \in Nat
    BY <1>n
  <2> QED BY <2>1, <2>2
<1>r. looked = [count |-> looked.count, at |-> looked.at, next |-> looked.next]
  BY <1>1
<1>k. statsKey # None =>
        /\ statsKey.until \in Nat /\ statsKey.until <= StatsTime + Ttl /\ second < statsKey.until
                         /\ statsKey.until <= second + Ttl
                         /\ (alive = 0 => statsKey.until <= died + Ttl)
  <2> SUFFICES ASSUME statsKey # None PROVE <1>k!2
    OBVIOUS
  <2>1. statsKey.until \in second..(StatsTime + Ttl) /\ second < statsKey.until
          /\ statsKey.until <= second + Ttl
        /\ (alive = 0 => statsKey.until <= died + Ttl)
    BY <1>1
  <2>2. statsKey.until \in Nat /\ statsKey.until <= StatsTime + Ttl
    BY <1>n, <2>1
  <2> QED BY <2>1, <2>2
\* The time and the process
<1>3. /\ second' \in 1..StatsTime /\ alive' \in 0..second' /\ died' \in 0..second'
      /\ second <= second'
  <2>1. CASE Stats!Die
    BY <1>n, <2>1 DEF Stats!Die
  <2>2. CASE Stats!Restart
    BY <1>n, <2>2 DEF Stats!Restart
  <2>3. CASE Stats!Tick
    BY <1>n, <2>3 DEF Stats!Tick, Stats!process
  <2>4. CASE UNCHANGED <<second, alive, died>>
    BY <1>n, <2>4
  <2> QED BY <2>1, <2>2, <2>3, <2>4 DEF Stats!Next, Stats!vars, Stats!process, Stats!Publish,
                                        Stats!Analyzed, Stats!Look, Stats!Write
\* The counters
<1>4. /\ published' \in 0..StatsFrames /\ answered' \in 0..StatsFrames
      /\ measured' \in 0..StatsFrames
      /\ looked' \in [count : 0..StatsFrames, at : 0..StatsTime, next : 0..(StatsTime + Interval)]
      /\ measured' = looked'.count /\ looked'.count <= published'
      /\ looked'.at <= second' /\ looked'.next <= second' + Interval
  \* It is enough to know the numbers.
  <2>0. ASSUME NEW c \in Nat, NEW a \in Nat, NEW n \in Nat,
               looked' = [count |-> c, at |-> a, next |-> n],
               published' \in Nat, answered' \in Nat, measured' = c, c <= published',
               published' <= StatsFrames, answered' <= StatsFrames, a <= second',
               n <= second' + Interval
        PROVE  /\ published' \in 0..StatsFrames /\ answered' \in 0..StatsFrames
               /\ measured' \in 0..StatsFrames
               /\ looked' \in [count : 0..StatsFrames, at : 0..StatsTime, next :
                    0..(StatsTime + Interval)]
               /\ measured' = looked'.count /\ looked'.count <= published'
               /\ looked'.at <= second' /\ looked'.next <= second' + Interval
    <3>1. /\ c \in 0..StatsFrames /\ a \in 0..StatsTime /\ n \in 0..(StatsTime + Interval)
          /\ published' \in 0..StatsFrames /\ answered' \in 0..StatsFrames
      <4>1. second' \in Nat /\ second' <= StatsTime /\ StatsTime \in Nat /\ StatsFrames \in Nat
              /\ Interval \in Nat
        BY <1>n, <1>3
      <4>2. c <= StatsFrames /\ a <= StatsTime /\ n <= StatsTime + Interval
        <5>1. c <= published' /\ published' <= StatsFrames /\ a <= second'
                /\ n <= second' + Interval
              /\ published' \in Nat /\ c \in Nat /\ a \in Nat /\ n \in Nat
          BY <2>0
        <5>2. c <= StatsFrames
          BY <4>1, <5>1
        <5>3. a <= StatsTime
          BY <4>1, <5>1
        <5>4. n <= StatsTime + Interval
          <6>1. \A x, y, z, w \in Nat : x <= y + z /\ y <= w => x <= w + z
            OBVIOUS
          <6> QED BY <4>1, <5>1, <6>1
        <5> QED BY <5>2, <5>3, <5>4
      <4> QED BY <2>0, <4>1, <4>2
    <3> QED BY <2>0, <3>1
  <2>1. CASE Stats!Publish
    <3>1. published' = published + 1 /\ published < StatsFrames
          /\ UNCHANGED <<second, answered, looked, measured>>
      BY <2>1 DEF Stats!Publish
    <3>2. published' \in Nat /\ looked.count <= published' /\ published' <= StatsFrames
      BY <1>n, <3>1
    <3> QED BY <1>2, <1>n, <1>r, <2>0, <3>1, <3>2
  <2>2. CASE Stats!Look
    <3>1. /\ looked' = [looked EXCEPT !.count = published, !.at = second] /\ second' = second
          /\ measured' = measured + (published - looked.count)
          /\ published' = published /\ answered' = answered
      BY <2>2 DEF Stats!Look, Stats!work
    <3>2. looked' = [count |-> published, at |-> second, next |-> looked.next]
      BY <1>r, <3>1
    <3>3. measured' = published
      BY <1>2, <1>n, <3>1
    <3>4. published <= published /\ second <= second
      BY <1>n
    <3> QED BY <1>n, <2>0, <3>1, <3>2, <3>3, <3>4
  <2>3. CASE Stats!Write
    <3>1. /\ looked' = [looked EXCEPT !.next = second + Interval] /\ second' = second
          /\ UNCHANGED <<measured, published, answered>>
      BY <2>3 DEF Stats!Write, Stats!Slept, Stats!work
    <3>2. looked' = [count |-> looked.count, at |-> looked.at, next |-> second + Interval]
      BY <1>r, <3>1
    <3>3. second + Interval \in Nat /\ second + Interval <= second + Interval
            /\ looked.count \in Nat
          /\ looked.at \in Nat
      BY <1>n
    <3>4. /\ published' \in Nat /\ answered' \in Nat /\ looked.count <= published'
          /\ published' <= StatsFrames /\ answered' <= StatsFrames /\ looked.at <= second'
      BY <1>n, <3>1
    <3>5. measured' = looked.count
      BY <1>2, <3>1
    <3>6. second + Interval <= second' + Interval
      BY <3>1, <3>3
    <3> DEFINE n == second + Interval
    <3>7. n \in Nat /\ looked' = [count |-> looked.count, at |-> looked.at, next |-> n]
      BY <3>2, <3>3
    <3> HIDE DEF n
    <3>8. n <= second' + Interval
      BY <3>6 DEF n
    <3> QED BY <2>0, <3>3, <3>4, <3>5, <3>7, <3>8
  <2>4. CASE Stats!Restart
    <3>1. /\ looked' = [count |-> 0, at |-> second, next |-> second + Interval] /\ second' = second
          /\ published' = 0 /\ answered' = 0 /\ measured' = 0
      BY <2>4 DEF Stats!Restart
    <3>2. /\ second + Interval \in Nat /\ second + Interval <= second + Interval
          /\ 0 \in Nat /\ 0 <= StatsFrames /\ 0 <= 0 /\ second <= second
      BY <1>n
    <3> QED BY <1>n, <2>0, <3>1, <3>2
  <2>5. CASE UNCHANGED <<published, measured, looked>> /\ answered' \in 0..StatsFrames
    <3>1. /\ looked.at <= second' /\ looked.next <= second' + Interval
          /\ answered' \in Nat /\ answered' <= StatsFrames
      BY <1>n, <1>3, <2>5
    <3> QED BY <1>2, <1>n, <1>r, <2>0, <2>5, <3>1
  <2>6. Stats!Analyzed \/ Stats!Die \/ Stats!Tick \/ UNCHANGED Stats!vars
          => UNCHANGED <<published, measured, looked>> /\ answered' \in 0..StatsFrames
    BY <1>n DEF Stats!Analyzed, Stats!Die, Stats!Tick, Stats!vars, Stats!work
  <2> QED BY <2>1, <2>2, <2>3, <2>4, <2>5, <2>6 DEF Stats!Next
<1>5. measured' + (published' - looked'.count) = published'
  <2>1. published' \in Nat /\ measured' \in Nat /\ measured' = looked'.count
    BY <1>4
  <2> QED BY <2>1
\* The samples
<1>6. /\ latencies' \in Seq(1..StatsFrames) /\ Len(latencies') <= Samples
      /\ \A k \in DOMAIN latencies' : latencies'[k] = answered' - Len(latencies') + k
  <2>1. CASE Stats!Analyzed
    <3> DEFINE s == Append(latencies, answered + 1)
               t == Stats!Kept(s)
    <3>1. answered < StatsFrames /\ answered' = answered + 1 /\ latencies' = t
      BY <2>1 DEF Stats!Analyzed
    <3>2. /\ answered + 1 \in 1..StatsFrames
      BY <1>n, <3>1
    <3>3. /\ s \in Seq(1..StatsFrames) /\ Len(s) = Len(latencies) + 1
          /\ \A i \in 1..Len(latencies) : s[i] = latencies[i]
          /\ s[Len(latencies) + 1] = answered + 1
      BY <1>1, <3>2, AppendProperties
    <3> HIDE DEF s
    <3>4. /\ t \in Seq(1..StatsFrames) /\ Len(t) \in Nat /\ Len(s) \in Nat
          /\ Len(t) = (IF Len(s) > Samples THEN Samples ELSE Len(s))
          /\ \A k \in 1..Len(t) : t[k] = s[Len(s) - Len(t) + k]
      BY <1>0, <3>3, KeptSamples
    <3> HIDE DEF t
    <3>5. DOMAIN t = 1..Len(t) /\ Len(t) <= Samples /\ Len(t) <= Len(s)
      <4>1. DOMAIN t = 1..Len(t)
        BY <3>4, LenProperties
      <4>2. Samples \in Nat /\ Len(t) \in Nat /\ Len(s) \in Nat
        BY <1>0, <3>4
      <4> QED BY <3>4, <4>1, <4>2
    <3>n. /\ Len(latencies) \in Nat /\ answered \in Nat
          /\ \A i \in 1..Len(latencies) : latencies[i] = answered - Len(latencies) + i
      BY <1>1, <1>n
    <3>6. \A i \in 1..Len(s) : s[i] = answered + 1 - Len(s) + i
      <4> TAKE i \in 1..Len(s)
      <4>1. CASE i \in 1..Len(latencies)
        BY <3>3, <3>n, <4>1
      <4>2. CASE i = Len(latencies) + 1
        BY <3>3, <3>n, <4>2
      <4> QED BY <3>3, <3>n, <4>1, <4>2
    <3>7. \A k \in 1..Len(t) : t[k] = answered + 1 - Len(t) + k
      <4> TAKE k \in 1..Len(t)
      <4>1. Len(s) - Len(t) + k \in 1..Len(s)
        BY <3>4, <3>5
      <4>2. /\ t[k] = s[Len(s) - Len(t) + k]
            /\ s[Len(s) - Len(t) + k] = answered + 1 - Len(s) + (Len(s) - Len(t) + k)
        BY <3>4, <3>6, <4>1
      <4> HIDE DEF s, t
      <4>3. Len(s) \in Nat /\ Len(t) \in Nat /\ k \in Nat /\ answered \in Nat
        BY <3>4, <3>n
      <4> QED BY <4>2, <4>3
    <3>8. \A k \in DOMAIN latencies' : latencies'[k] = answered' - Len(latencies') + k
      <4>1. latencies' = t /\ answered' = answered + 1
        BY <3>1
      <4>2. \A k \in DOMAIN t : t[k] = answered + 1 - Len(t) + k
        BY <3>5, <3>7, Zenon
      <4> TAKE k \in DOMAIN latencies'
      <4>3. k \in DOMAIN t /\ latencies'[k] = t[k] /\ Len(latencies') = Len(t)
        BY <4>1, Zenon
      <4>4. t[k] = answered + 1 - Len(t) + k
        BY <4>2, <4>3
      <4>5. k \in Nat /\ Len(t) \in Nat /\ answered \in Nat
        BY <3>4, <3>5, <3>n, <4>3
      <4>6. answered' - Len(latencies') + k = answered + 1 - Len(t) + k
        BY <4>1, <4>3, <4>5
      <4> QED BY <4>3, <4>4, <4>6
    <3> QED BY <3>1, <3>4, <3>5, <3>8
  <2>2. CASE Stats!Restart
    BY <1>0, <2>2 DEF Stats!Restart
  <2>3. CASE UNCHANGED <<latencies, answered>>
    BY <1>1, <2>3
  <2> QED BY <2>1, <2>2, <2>3 DEF Stats!Next, Stats!vars, Stats!work, Stats!Publish, Stats!Look,
                                  Stats!Write, Stats!Die, Stats!Tick
\* What is written
<1>7. /\ writing' \in Stats!Reading \cup {None}
      /\ alive' > 0 /\ writing' = None => looked'.at < looked'.next
      /\ alive' = 0 => writing' = None
  <2>1. CASE Stats!Look
    <3> DEFINE r == [frames |-> published - looked.count, elapsed |-> second - looked.at,
                     latencies |-> latencies]
    <3>1. alive > 0 /\ writing = None /\ second >= looked.next /\ writing' = r /\ alive' = alive
      BY <2>1 DEF Stats!Look, Stats!process
    <3>2. second - looked.at \in 1..StatsTime
      <4>1. looked.at < looked.next
        BY <1>1, <3>1
      <4> QED BY <1>n, <3>1, <4>1
    <3>3. published - looked.count \in 0..StatsFrames
      BY <1>n
    <3>4. r \in Stats!Reading
      BY <1>1, <3>2, <3>3 DEF Stats!Reading
    <3>5. alive' # 0
      BY <1>n, <3>1
    <3> QED BY <1>0, <3>1, <3>4, <3>5
  <2>2. CASE Stats!Write
    <3>1. /\ looked' = [looked EXCEPT !.next = second + Interval]
          /\ alive > 0 /\ alive' = alive /\ writing' = None
      BY <2>2 DEF Stats!Write, Stats!Slept, Stats!process
    <3>2. looked'.at = looked.at /\ looked'.next = second + Interval
      BY <1>r, <3>1
    <3>3. looked'.at < looked'.next
      BY <1>n, <3>2
    <3> QED BY <3>1, <3>3
  <2>3. CASE Stats!Restart
    <3>1. /\ looked' = [count |-> 0, at |-> second, next |-> second + Interval] /\ alive' = second
          /\ writing' = writing
      BY <2>3 DEF Stats!Restart
    <3>2. looked'.at < looked'.next /\ alive' # 0
      BY <1>n, <3>1
    <3> QED BY <1>1, <3>1, <3>2
  <2>4. CASE Stats!Die
    BY <2>4 DEF Stats!Die
  <2>5. CASE UNCHANGED <<alive, writing, looked>>
    BY <1>1, <2>5
  <2> QED BY <2>1, <2>2, <2>3, <2>4, <2>5 DEF Stats!Next, Stats!vars, Stats!process, Stats!Publish,
                                              Stats!Analyzed, Stats!Tick
\* The key
<1>8. statsKey' # None =>
        /\ statsKey'.reading \in Stats!Reading /\ statsKey'.until \in second'..(StatsTime + Ttl)
                          /\ second' < statsKey'.until /\ statsKey'.until <= second' + Ttl
                          /\ (alive' = 0 => statsKey'.until <= died' + Ttl)
  <2>1. CASE UNCHANGED <<second, alive, died, statsKey>>
    BY <1>1, <2>1
  <2>2. ASSUME writing # None
        PROVE  /\ Stats!Written.reading \in Stats!Reading
               /\ Stats!Written.until \in second..(StatsTime + Ttl)
               /\ second < Stats!Written.until /\ Stats!Written.until = second + Ttl
    <3>1. Stats!Written.reading = writing /\ Stats!Written.until = second + Ttl
      BY DEF Stats!Written, Stats!Expiry
    <3>2. second + Ttl \in second..(StatsTime + Ttl) /\ second < second + Ttl
      BY <1>n
    <3> QED BY <1>1, <2>2, <3>1, <3>2
  <2>3. CASE Stats!Write
    <3>1. writing # None /\ statsKey' \in {Stats!Written, statsKey} /\ alive > 0
            /\ UNCHANGED <<second, alive, died>>
      BY <2>3 DEF Stats!Write, Stats!process
    <3>2. CASE statsKey' = Stats!Written
      <4>1. Stats!Written.until <= second + Ttl /\ alive # 0
        BY <1>n, <2>2, <3>1
      <4> QED BY <2>2, <3>1, <3>2, <4>1
    <3>3. CASE statsKey' = statsKey
      BY <1>1, <3>1, <3>3
    <3> QED BY <3>1, <3>2, <3>3
  <2>4. CASE Stats!Die
    <3>1. second' = second /\ died' = second
            /\ (statsKey' = statsKey \/ (writing # None /\ statsKey' = Stats!Written))
      BY <2>4 DEF Stats!Die
    <3>2. CASE statsKey' = Stats!Written /\ writing # None
      <4>1. Stats!Written.until <= second + Ttl
        BY <1>n, <2>2, <3>2
      <4> QED BY <2>2, <3>1, <3>2, <4>1
    <3>3. CASE statsKey' = statsKey
      BY <1>1, <3>1, <3>3
    <3> QED BY <3>1, <3>2, <3>3
  <2>5. CASE Stats!Restart
    <3>1. second' = second /\ statsKey' = statsKey /\ alive' # 0
      BY <1>n, <2>5 DEF Stats!Restart
    <3> QED BY <1>1, <3>1
  <2>6. CASE Stats!Tick
    <3>1. /\ second' = second + 1 /\ UNCHANGED <<alive, died>>
          /\ statsKey' = IF statsKey # None /\ statsKey.until <= second' THEN None ELSE statsKey
      BY <2>6 DEF Stats!Tick, Stats!process
    <3> SUFFICES ASSUME statsKey' # None PROVE <1>8!2
      OBVIOUS
    <3>2. statsKey' = statsKey /\ statsKey # None /\ ~ (statsKey.until <= second')
      BY <3>1
    <3>3. /\ second' < statsKey.until /\ statsKey.until \in second'..(StatsTime + Ttl)
          /\ statsKey.until <= second' + Ttl
          /\ (alive = 0 => statsKey.until <= died + Ttl)
      BY <1>k, <1>n, <3>1, <3>2
    <3> QED BY <1>1, <3>1, <3>2, <3>3
  <2> QED BY <2>1, <2>3, <2>4, <2>5, <2>6
          DEF Stats!Next, Stats!vars, Stats!process, Stats!Publish, Stats!Analyzed, Stats!Look
<1>9. Stats!TypeOK'
  BY <1>3, <1>4, <1>6, <1>7, <1>8 DEF Stats!TypeOK
<1>10. Stats!FramesAreMeasuredOnce' /\ Stats!LatencyIsOfTheLast'
  BY <1>5, <1>6 DEF Stats!FramesAreMeasuredOnce, Stats!LatencyIsOfTheLast
<1> QED BY <1>4, <1>7, <1>8, <1>9, <1>10 DEF StatsInv

\* However late the calls end, a frame is measured once and the figures of the dead are
\* forgotten.
LEMMA StatsHolds ==
  ASSUME Stats!EdgeStatsAssumption
  PROVE  Stats!Spec => [](/\ Stats!TypeOK /\ Stats!FramesAreMeasuredOnce
                          /\ Stats!DeadIsForgotten /\ Stats!LatencyIsOfTheLast)
<1>1. Stats!Init => StatsInv
  <2> SUFFICES ASSUME Stats!Init PROVE StatsInv
    OBVIOUS
  <2>1. /\ Interval \in Nat \ {0} /\ Ttl \in Nat \ {0} /\ Samples \in Nat \ {0}
        /\ StatsTime \in Nat \ {0} /\ StatsFrames \in Nat \ {0}
    BY DEF Stats!EdgeStatsAssumption
  <2>2. /\ latencies = <<>> /\ Len(latencies) = 0 /\ latencies \in Seq(1..StatsFrames)
        /\ DOMAIN latencies = {}
    BY EmptySeq DEF Stats!Init
  <2>3. Stats!TypeOK
    BY <2>1, <2>2 DEF Stats!Init, Stats!TypeOK
  <2>4. Stats!FramesAreMeasuredOnce /\ Stats!LatencyIsOfTheLast
    BY <2>2 DEF Stats!Init, Stats!FramesAreMeasuredOnce, Stats!LatencyIsOfTheLast
  <2> QED BY <2>1, <2>3, <2>4 DEF Stats!Init, StatsInv
<1>2. StatsInv /\ [Stats!Next]_(Stats!vars) => StatsInv'
  BY StatsStep
<1>3. StatsInv => Stats!TypeOK /\ Stats!FramesAreMeasuredOnce /\ Stats!DeadIsForgotten
        /\ Stats!LatencyIsOfTheLast
  <2> SUFFICES ASSUME StatsInv PROVE Stats!DeadIsForgotten
    BY DEF StatsInv
  <2>1. ASSUME alive = 0, statsKey # None PROVE second < died + Ttl
    <3>1. /\ second < statsKey.until /\ statsKey.until <= died + Ttl /\ second \in Nat
          /\ died \in Nat
          /\ statsKey.until \in Nat /\ Ttl \in Nat
      <4>1. Ttl \in Nat /\ StatsTime \in Nat
        BY DEF Stats!EdgeStatsAssumption
      <4>2. second \in 1..StatsTime /\ died \in 0..second
              /\ statsKey.until \in second..(StatsTime + Ttl)
        BY <2>1 DEF StatsInv, Stats!TypeOK
      <4>3. second < statsKey.until /\ statsKey.until <= died + Ttl
        BY <2>1 DEF StatsInv
      <4>4. second \in Nat
        BY <4>1, <4>2
      <4> QED BY <4>1, <4>2, <4>3, <4>4
    <3> QED BY <3>1
  <2> QED BY <2>1 DEF Stats!DeadIsForgotten, Stats!Reporting
<1> QED BY <1>1, <1>2, <1>3, PTL DEF Stats!Spec
=============================================================================
