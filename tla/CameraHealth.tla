---------------------------- MODULE CameraHealth ----------------------------
(***************************************************************************)
(* The health of a camera. Every replica of the API reads the clock, then  *)
(* the camera's newest frame, and gives the state to a script in Redis     *)
(* that keeps the newest observation and announces a state that differs    *)
(* from the one it kept; the browsers hear the announcements.              *)
(***************************************************************************)
EXTENDS Naturals

CONSTANTS
  Replica,
  None,
  MaxClock,  \* bound: the clock stops
  MaxFaults  \* bound: reads and publications that fail, and keys that lapse

State == {"online", "degraded", "offline"}
Health == State \cup {"unknown"}
Observation == [state : Health, at : 0..MaxClock]

HealthAssumption ==
  {MaxClock, MaxFaults} \subseteq Nat /\ None \notin Health /\ None \notin Observation

VARIABLES
  clock,
  actual,    \* what the age of the newest frame says
  tick,      \* what a replica is about to publish: when and what it observed
  key,       \* health:camera: the observation it holds, or None
  newest,    \* the latest observation that was published while the key was there
  announced, \* the last state on cameras:health, or None
  faults

vars == <<clock, actual, tick, key, newest, announced, faults>>

\* A replica between two ticks, and one that has read the clock and not the stream.
Waiting == [state |-> "waiting", at |-> 0]
Reading == [state : {"reading"}, at : 0..MaxClock]

TypeOK ==
  /\ clock \in 0..MaxClock /\ actual \in State
  /\ tick \in [Replica -> {Waiting} \cup Reading \cup Observation]
  /\ key = None \/ key \in Observation
  /\ newest \in 0..MaxClock /\ announced \in Health \cup {None} /\ faults \in 0..MaxFaults

Init ==
  /\ clock = 0 /\ actual = "offline"
  /\ tick = [r \in Replica |-> Waiting] /\ key = None /\ newest = 0 /\ announced = None
  /\ faults = 0

Fault == faults < MaxFaults /\ faults' = faults + 1

-----------------------------------------------------------------------------

\* Time passes, and the age of the newest frame with it.
TimePasses ==
  /\ clock < MaxClock
  /\ clock' = clock + 1
  /\ actual' \in State
  /\ UNCHANGED <<tick, key, newest, announced, faults>>

\* run_reconcile: observed_ms.
Begin(r) ==
  /\ tick[r] = Waiting
  /\ tick' = [tick EXCEPT ![r] = [state |-> "reading", at |-> clock]]
  /\ UNCHANGED <<clock, actual, key, newest, announced, faults>>

\* read_health_many.
Read(r) ==
  /\ tick[r] \in Reading
  /\ tick' = [tick EXCEPT ![r] = [tick[r] EXCEPT !.state = actual]]
  /\ UNCHANGED <<clock, actual, key, newest, announced, faults>>

\* A read that fails is an observation, too.
ReadFails(r) ==
  /\ tick[r] \in Reading
  /\ Fault
  /\ tick' = [tick EXCEPT ![r] = [tick[r] EXCEPT !.state = "unknown"]]
  /\ UNCHANGED <<clock, actual, key, newest, announced>>

\* Bug: whatever arrives last is kept.
OvertakenNever(o) == FALSE

\* TRANSITION_LUA: an observation that is not newer than the one kept is dropped.
Overtaken(o) == key # None /\ o.at <= key.at

\* TRANSITION_LUA.
Publish(r) ==
  /\ tick[r] \in Observation
  /\ tick' = [tick EXCEPT ![r] = Waiting]
  /\ newest' = IF tick[r].at > newest THEN tick[r].at ELSE newest
  /\ IF Overtaken(tick[r])
     THEN UNCHANGED <<key, announced>>
     ELSE /\ key' = tick[r]
          /\ announced' = IF key # None /\ key.state = tick[r].state THEN announced
                                                                    ELSE tick[r].state
  /\ UNCHANGED <<clock, actual, faults>>

PublishFails(r) ==
  /\ tick[r] \in Observation
  /\ Fault
  /\ tick' = [tick EXCEPT ![r] = Waiting]
  /\ UNCHANGED <<clock, actual, key, newest, announced>>

\* EX: nothing was kept for ten intervals.
KeyLapses ==
  /\ key # None
  /\ Fault
  /\ key' = None /\ newest' = 0
  /\ UNCHANGED <<clock, actual, tick, announced>>

Next ==
  \/ TimePasses \/ KeyLapses
  \/ \E r \in Replica : Begin(r) \/ Read(r) \/ ReadFails(r) \/ Publish(r) \/ PublishFails(r)

Spec == Init /\ [][Next]_vars

-----------------------------------------------------------------------------
(* Properties *)

\* However the ticks of the replicas interleave, what was announced last is the newest
\* observation that any of them has published.
NewestIsAnnounced == key # None => announced = key.state /\ key.at = newest
=============================================================================
