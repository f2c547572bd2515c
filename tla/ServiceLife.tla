---------------------------- MODULE ServiceLife ----------------------------
(***************************************************************************)
(* How the processes start and stop: the order in which each opens its     *)
(* stores and channels, starts its servers and loops, reports that it is   *)
(* ready, and takes them down after a signal while requests and iterations *)
(* are under way. A client that belongs to one loop is part of the loop.   *)
(***************************************************************************)
EXTENDS Naturals

CONSTANTS
  Service,  \* the processes
  MaxFaults \* bound on what goes wrong

ServiceLifeAssumption ==
  /\ Service \subseteq {"api", "auth", "audit", "notification", "ai", "camera"}
  /\ MaxFaults \in Nat

VARIABLES
  service, \* the process that is looked at
  up,      \* what has become of each of its parts
  busy,    \* the parts with a request or an iteration under way
  signal,  \* stop_event
  look,    \* what the health watch has found, and is about to report
  ready,   \* what the health servicer reports
  stray,   \* history: parts that were left behind at work
  faults

vars == <<service, up, busy, signal, look, ready, stray, faults>>

-----------------------------------------------------------------------------
(* The processes. "needs": what a part is started after; "after": what has *)
(* ended when it is stopped; "uses": what its requests and iterations work *)
(* with; "cuts": the parts whose work is cancelled after a time; "flags":  *)
(* what is probed of the process itself.                                   *)

Api ==
  [needs |-> [health |-> {}, watch |-> {"health"}, mongodb |-> {"watch"}, redis |-> {"mongodb"},
              broadcaster |-> {"redis"}, stream |-> {"broadcaster"}, reconcile |-> {"stream"},
              pubsub |-> {"reconcile"}, policy |-> {"pubsub"}, revocations |-> {"policy"},
              channels |-> {"revocations"}, drain |-> {"channels"}, decisions |-> {"drain"},
              started |-> {"decisions"}, http |-> {"started"}],
   uses |-> [reconcile |-> {"mongodb", "stream", "redis"}, policy |-> {"mongodb", "stream"},
             drain |-> {"mongodb", "channels"}, decisions |-> {"mongodb", "redis", "channels"},
             broadcaster |-> {"redis"}, revocations |-> {"pubsub"}, watch |-> {},
             http |-> {"mongodb", "redis", "stream", "channels", "broadcaster", "revocations"}],
   cuts |-> {"http", "decisions", "reconcile", "policy", "drain", "broadcaster", "revocations"},
   flags |-> {"started"}]

\* Bug: the channels are closed while the loops stop.
ApiAfterAtOnce ==
  [http |-> {}, started |-> {"http"}, decisions |-> {"started"}, reconcile |-> {"decisions"},
   policy |-> {"decisions"}, drain |-> {"decisions"}, channels |-> {"decisions"},
   broadcaster |-> {"channels"}, revocations |-> {"broadcaster"}, pubsub |-> {"revocations"},
   stream |-> {"pubsub"}, redis |-> {"stream"}, mongodb |-> {"redis"}, watch |-> {"mongodb"},
   health |-> {"watch"}]

ApiAfter ==
  [http |-> {}, started |-> {"http"}, decisions |-> {"started"}, reconcile |-> {"decisions"},
   policy |-> {"decisions"}, drain |-> {"decisions"}, channels |-> {"reconcile", "policy", "drain"},
   broadcaster |-> {"channels"}, revocations |-> {"broadcaster"}, pubsub |-> {"revocations"},
   stream |-> {"pubsub"}, redis |-> {"stream"}, mongodb |-> {"redis"}, watch |-> {"mongodb"},
   health |-> {"watch"}]

Auth ==
  [needs |-> [audit |-> {}, engine |-> {}, redis |-> {}, health |-> {"audit"},
              watch |-> {"health"}, rpc |-> {"watch", "engine", "redis"},
              http |-> {"audit", "engine", "redis"}, drain |-> {"audit", "engine"},
              sweep |-> {"engine", "redis"}],
   uses |-> [rpc |-> {"engine", "redis"}, http |-> {"engine", "redis"},
             drain |-> {"engine", "audit"}, sweep |-> {"engine", "redis"}, watch |-> {}],
   cuts |-> {"rpc", "watch"}, flags |-> {"http"}]

AuthAfter ==
  [watch |-> {}, http |-> {}, drain |-> {}, sweep |-> {}, health |-> {"watch"}, rpc |-> {"health"},
   redis |-> {"rpc", "http", "drain", "sweep"}, engine |-> {"redis"}, audit |-> {"engine"}]

Audit ==
  [needs |-> [engine |-> {}, redis |-> {}, health |-> {}, watch |-> {"health"},
              rpc |-> {"watch", "engine", "redis"}],
   uses |-> [rpc |-> {"engine", "redis"}, watch |-> {}],
   cuts |-> {"rpc", "watch"}, flags |-> {}]

AuditAfter ==
  [watch |-> {}, health |-> {"watch"}, rpc |-> {"health"}, redis |-> {"rpc"}, engine |-> {"redis"}]

Notification ==
  [needs |-> [mongodb |-> {}, broker |-> {"mongodb"}, health |-> {"broker"}, watch |-> {"health"},
              rpc |-> {"watch"}, http |-> {"broker"}],
   uses |-> [rpc |-> {"mongodb"}, http |-> {"mongodb"}, watch |-> {}],
   cuts |-> {"rpc", "watch"}, flags |-> {"http"}]

NotificationAfter ==
  [watch |-> {}, http |-> {}, health |-> {"watch"}, rpc |-> {"health"}, broker |-> {"rpc", "http"},
   mongodb |-> {"broker"}]

Ai ==
  [needs |-> [health |-> {}, watch |-> {"health"}, detector |-> {"watch"}, alerts |-> {"detector"},
              executor |-> {"alerts"}, rpc |-> {"executor"}, stats |-> {"rpc"}, policy |-> {"rpc"},
              models |-> {"stats", "policy"}],
   uses |-> [rpc |-> {"executor"}, executor |-> {"detector", "alerts"}, policy |-> {"executor"},
             stats |-> {}, watch |-> {}],
   cuts |-> {"rpc", "stats", "policy"}, flags |-> {"models"}]

\* Bug: the detector is closed when no request is left.
AiAfterAtOnce ==
  [watch |-> {}, health |-> {"watch"}, stats |-> {"health"}, policy |-> {"stats"},
   rpc |-> {"policy"}, executor |-> {"rpc"}, detector |-> {"rpc"}, alerts |-> {"detector"},
   models |-> {"alerts"}]

AiAfter ==
  [watch |-> {}, health |-> {"watch"}, stats |-> {"health"}, policy |-> {"stats"},
   rpc |-> {"policy"}, executor |-> {"rpc"}, detector |-> {"executor"}, alerts |-> {"detector"},
   models |-> {"alerts"}]

Camera ==
  [needs |-> [publisher |-> {}, device |-> {"publisher"}, capture |-> {"device"},
              forwarder |-> {"capture"}, stats |-> {"forwarder"}],
   uses |-> [publisher |-> {}, capture |-> {"device", "publisher"}, forwarder |-> {}, stats |-> {}],
   cuts |-> {"forwarder", "stats"}, flags |-> {}]

CameraAfter ==
  [stats |-> {}, forwarder |-> {"stats"}, capture |-> {"forwarder"}, device |-> {"capture"},
   publisher |-> {"device"}]

Process == [api |-> Api, auth |-> Auth, audit |-> Audit, notification |-> Notification, ai |-> Ai,
            camera |-> Camera]
After == [api |-> ApiAfter, auth |-> AuthAfter, audit |-> AuditAfter,
          notification |-> NotificationAfter, ai |-> AiAfter, camera |-> CameraAfter]

Part  == DOMAIN After[service]
Works == DOMAIN Process[service].uses
Uses(p) == Process[service].uses[p]
Flags == Process[service].flags

TypeOK ==
  /\ service \in Service
  /\ up \in [Part -> {"down", "up", "stopping", "gone"}]
  /\ busy \subseteq Works /\ stray \subseteq Works
  /\ \A p \in busy \ stray : up[p] \in {"up", "stopping"}
  /\ {signal, look, ready} \subseteq BOOLEAN
  /\ faults \in 0 .. MaxFaults

Init ==
  /\ service \in Service
  /\ up = [p \in Part |-> "down"] /\ busy = {}
  /\ signal = FALSE /\ look = FALSE /\ ready = FALSE
  /\ stray = {} /\ faults = 0

Fault == faults < MaxFaults /\ faults' = faults + 1

-----------------------------------------------------------------------------
(* Start *)

Starts(p) ==
  /\ up[p] = "down"
  /\ \A q \in Process[service].needs[p] : up[q] # "down"
  /\ up' = [up EXCEPT ![p] = "up"]
  /\ UNCHANGED <<service, busy, signal, look, ready, stray, faults>>

\* The gRPC server of a process with two servers does not start. The auth service waits for
\* the other server to stop; the notification server does not.
RpcFails ==
  /\ service \in {"auth", "notification"} /\ up["rpc"] = "down" /\ up["watch"] = "up" /\ Fault
  /\ up' = [up EXCEPT !["rpc"] = "gone"]
  /\ signal' = TRUE
  /\ stray' = IF service = "notification" THEN {"http"} ELSE {}
  /\ UNCHANGED <<service, busy, look, ready>>

Signalled ==
  /\ ~signal
  /\ signal' = TRUE
  /\ UNCHANGED <<service, up, busy, look, ready, stray, faults>>

-----------------------------------------------------------------------------
(* Work *)

Begins(p) ==
  /\ p \in Works \ busy /\ up[p] = "up"
  /\ busy' = busy \cup {p}
  /\ UNCHANGED <<service, up, signal, look, ready, stray, faults>>

Ends(p) ==
  /\ p \in busy
  /\ busy' = busy \ {p}
  /\ UNCHANGED <<service, up, signal, look, ready, stray, faults>>

\* Bug: the probes are of the stores alone.
FoundOfStores == TRUE

\* What the probes of the process itself say: the API takes its flag back at the end, and the
\* others leave theirs.
Found == \A p \in Flags : up[p] = "up" \/ (p # "started" /\ up[p] # "down")

\* watch: the probes are run, and fail when a store does not answer, and then reported.
Looks ==
  /\ "watch" \in busy
  /\ look' \in {Found, FALSE}
  /\ ready' = look
  /\ UNCHANGED <<service, up, busy, signal, stray, faults>>

-----------------------------------------------------------------------------
(* Stop *)

Up == \A p \in Part : up[p] # "down"

\* A part that is stopped takes no new work; what was left behind is not waited for.
Stops(p) ==
  /\ signal /\ Up /\ up[p] = "up"
  /\ \A q \in After[service][p] \ stray : up[q] = "gone"
  /\ up' = [up EXCEPT ![p] = IF p \in Works THEN "stopping" ELSE "gone"]
  /\ ready' = IF p = "health" THEN FALSE ELSE ready
  /\ UNCHANGED <<service, busy, signal, look, stray, faults>>

Stopped(p) ==
  /\ up[p] = "stopping" /\ p \notin busy
  /\ up' = [up EXCEPT ![p] = "gone"]
  /\ UNCHANGED <<service, busy, signal, look, ready, stray, faults>>

\* Its work is cancelled when the time it is given is over.
CutOff(p) ==
  /\ up[p] = "stopping" /\ p \in busy \cap Process[service].cuts
  /\ busy' = busy \ {p}
  /\ UNCHANGED <<service, up, signal, look, ready, stray, faults>>

\* stop_task after _CANCEL_WAIT_SECONDS, and join after its timeout, leave it at work.
LeftBehind(p) ==
  /\ up[p] = "stopping" /\ p \in busy /\ Fault
  /\ p \in {"reconcile", "policy", "drain", "capture", "publisher"} /\ service \in {"api", "camera"}
  /\ up' = [up EXCEPT ![p] = "gone"]
  /\ stray' = stray \cup {p}
  /\ UNCHANGED <<service, busy, signal, look, ready>>

-----------------------------------------------------------------------------

Next ==
  \/ \E p \in Part : Starts(p) \/ Begins(p) \/ Ends(p) \/ Stops(p) \/ Stopped(p) \/ CutOff(p)
                     \/ LeftBehind(p)
  \/ RpcFails \/ Signalled \/ Looks

Spec == Init /\ [][Next]_vars

-----------------------------------------------------------------------------
(* Properties. *)

\* _services, _serve and _run: no request and no iteration works with what is closed, or not
\* yet open, in any process, unless it was left behind.
NothingOutlivesItsParts ==
  \A p \in busy \ stray : \A q \in Uses(p) : up[q] \in {"up", "stopping"}

\* watch and shutdown: a process is not ready before what it probes of itself is up, nor at
\* the end, whenever the signal comes.
ReadyIsEarned ==
  ready => "health" \in Part /\ up["health"] = "up" /\ \A p \in Flags : up[p] # "down"

\* The gRPC server of a process takes calls until its health says that it is not ready, when it
\* has started at all.
TellsBeforeItStops ==
  "rpc" \in Part /\ faults = 0 /\ up["rpc"] \in {"stopping", "gone"} => ~ready
=============================================================================
