----------------------------- MODULE FrameView -----------------------------
(***************************************************************************)
(* The live picture of a camera: the pump of the API that reads the newest *)
(* frame of the stream (services/frame_stream.py, api/v1/streams.py), and  *)
(* the page that shows it (frame-socket.ts, use-frame-bitmap.ts). An       *)
(* iteration of the pump, a handler and a timer of the page are steps; the *)
(* other viewers of the API come and go.                                   *)
(***************************************************************************)
EXTENDS Naturals, Sequences

CONSTANTS
  MaxViewers,   \* FRAME_STREAM_MAX_VIEWERS
  MaxFailures,  \* FRAME_STREAM_MAX_READ_FAILURES
  MaxAttempts,  \* MAX_ATTEMPTS
  MaxWire,      \* bound on what is on its way to the page, past which a send times out
  MaxStrays,    \* bound on the decodings that outlive their view
  MaxFaults     \* bound on what goes wrong

FrameViewAssumption ==
  /\ {MaxAttempts, MaxStrays, MaxFaults} \subseteq Nat
  /\ {MaxViewers, MaxFailures, MaxWire} \subseteq Nat \ {0}

VARIABLES
  source,   \* the stream of the camera: how old its newest frame is, whether it is new
  redis,    \* the stream can be read
  pump,     \* the pump of the page's socket: running, last_state and failures
  others,   \* viewers of other pages
  ghosts,   \* viewers whose page has gone, which the API has not noticed
  wire,     \* what is on its way to the page
  page,     \* the page and its socket
  strays,   \* decodings of views that have been closed
  faults    \* how much has gone wrong

vars == <<source, redis, pump, others, ghosts, wire, page, strays, faults>>

Health == {"online", "degraded", "offline", "unknown"}
Closing == {"done", "revoked"}

NoPump == [on |-> FALSE, last |-> "nothing", failures |-> 0]
Closed == [mounted |-> FALSE, socket |-> "none", status |-> "connecting", attempt |-> 0,
           timer |-> FALSE, health |-> "nothing", decoding |-> FALSE, held |-> FALSE,
           dropped |-> FALSE]

TypeOK ==
  /\ source \in [age : {"none", "online", "degraded", "offline"}, new : BOOLEAN]
  /\ redis \in BOOLEAN
  /\ pump \in [on : BOOLEAN, last : Health \cup {"nothing"}, failures : 0 .. MaxFailures]
  /\ others \in 0 .. MaxViewers /\ ghosts \in 0 .. MaxViewers
  /\ wire \in Seq(Health \cup {"frame"} \cup Closing) /\ Len(wire) =< MaxWire + 2
  /\ page \in [mounted : BOOLEAN, socket : {"none", "connecting", "open"},
               status : {"connecting", "open", "waiting", "stopped"}, attempt : 0 .. MaxAttempts,
               timer : BOOLEAN, health : Health \cup {"nothing"}, decoding : BOOLEAN,
               held : BOOLEAN, dropped : BOOLEAN]
  /\ strays \in 0 .. MaxStrays
  /\ faults \in 0 .. MaxFaults

Init ==
  /\ source = [age |-> "none", new |-> FALSE]
  /\ redis = TRUE
  /\ pump = NoPump
  /\ others = 0 /\ ghosts = 0
  /\ wire = <<>>
  /\ page = Closed
  /\ strays = 0
  /\ faults = 0

Fault == faults < MaxFaults /\ faults' = faults + 1

Viewers == others + ghosts + (IF pump.on THEN 1 ELSE 0)

-----------------------------------------------------------------------------
(* run_frame_pump *)

\* _send_state, when the state is another than the last.
Told(state) == IF pump.last = state THEN <<>> ELSE <<state>>

\* _read_latest and _state_for: without a frame the camera is offline.
State == IF source.age = "none" THEN "offline" ELSE source.age

Shows == source.new /\ State # "offline"

\* One iteration. A frame is sent once, and none while the camera is offline.
PumpReads ==
  /\ pump.on /\ redis /\ Len(wire) < MaxWire
  /\ wire' = wire \o Told(State) \o (IF Shows THEN <<"frame">> ELSE <<>>)
  /\ pump' = [pump EXCEPT !.last = State, !.failures = 0]
  /\ source' = [source EXCEPT !.new = @ /\ ~ Shows]
  /\ UNCHANGED <<redis, others, ghosts, page, strays, faults>>

\* The stream cannot be read: after some failures the page is told that nothing is known.
PumpFails ==
  /\ pump.on /\ ~ redis /\ Len(wire) < MaxWire
  /\ LET failures == IF pump.failures < MaxFailures THEN pump.failures + 1 ELSE MaxFailures
         tells    == failures = MaxFailures
     IN  /\ wire' = wire \o (IF tells THEN Told("unknown") ELSE <<>>)
         /\ pump' = [pump EXCEPT !.failures = failures, !.last = IF tells THEN "unknown" ELSE @]
  /\ UNCHANGED <<source, redis, others, ghosts, page, strays, faults>>

\* The page does not take its frames: send_bytes times out, the pump returns and with it the
\* endpoint, whose socket is closed with the code of a normal end.
DropsViewer ==
  /\ pump.on /\ redis /\ Shows /\ Len(wire) >= MaxWire
  /\ pump' = NoPump
  /\ wire' = Append(wire, "done")
  /\ UNCHANGED <<source, redis, others, ghosts, page, strays, faults>>

\* _stream_frames: the session is revoked.
Revokes ==
  /\ pump.on /\ Fault
  /\ pump' = NoPump
  /\ wire' = Append(wire, "revoked")
  /\ UNCHANGED <<source, redis, others, ghosts, page, strays>>

\* The page of a viewer has gone: the reader of its socket ends, and its place is released.
GhostLeaves ==
  /\ ghosts > 0
  /\ ghosts' = ghosts - 1
  /\ UNCHANGED <<source, redis, pump, others, wire, page, strays, faults>>

Elsewhere ==
  /\ \/ Viewers < MaxViewers /\ others' = others + 1
     \/ others > 0 /\ others' = others - 1
  /\ UNCHANGED <<source, redis, pump, ghosts, wire, page, strays, faults>>

-----------------------------------------------------------------------------
(* The camera and the stream. *)

Captured ==
  /\ source' = [age |-> "online", new |-> TRUE]
  /\ UNCHANGED <<redis, pump, others, ghosts, wire, page, strays, faults>>

Ages ==
  /\ source.age \in {"online", "degraded"}
  /\ source' = [source EXCEPT !.age = IF @ = "online" THEN "degraded" ELSE "offline"]
  /\ UNCHANGED <<redis, pump, others, ghosts, wire, page, strays, faults>>

StreamFails ==
  /\ redis /\ Fault
  /\ redis' = FALSE
  /\ UNCHANGED <<source, pump, others, ghosts, wire, page, strays>>

StreamReturns ==
  /\ ~ redis
  /\ redis' = TRUE
  /\ UNCHANGED <<source, pump, others, ghosts, wire, page, strays, faults>>

-----------------------------------------------------------------------------
(* openFrameSocket *)

\* schedule
Scheduled(p) ==
  IF p.attempt >= MaxAttempts THEN [p EXCEPT !.status = "stopped"]
  ELSE [p EXCEPT !.attempt = @ + 1, !.status = "waiting", !.timer = TRUE]

\* The socket is gone on the page's side; the API will notice.
Hangs ==
  /\ ghosts' = IF pump.on THEN ghosts + 1 ELSE ghosts
  /\ pump' = NoPump
  /\ wire' = <<>>

Gone(p) == [p EXCEPT !.socket = "none", !.timer = FALSE]

\* connect
Connecting(p) == [p EXCEPT !.socket = "connecting", !.status = "connecting"]

TimerFires ==
  /\ page.timer
  /\ page' = Connecting([page EXCEPT !.timer = FALSE])
  /\ UNCHANGED <<source, redis, pump, others, ghosts, wire, strays, faults>>

\* camera_frames_stream accepts, and onopen runs.
Opens ==
  /\ page.socket = "connecting" /\ Viewers < MaxViewers
  /\ page' = [page EXCEPT !.socket = "open", !.status = "open", !.attempt = 0]
  /\ pump' = [NoPump EXCEPT !.on = TRUE]
  /\ UNCHANGED <<source, redis, others, ghosts, wire, strays, faults>>

\* The upgrade is refused: the limit of viewers is reached, or the API is not there. It is
\* closed before it was accepted, so that no reason reaches the page.
Refused ==
  /\ page.socket = "connecting"
  /\ \/ Viewers >= MaxViewers /\ UNCHANGED faults
     \/ Fault
  /\ page' = Scheduled(Gone(page))
  /\ UNCHANGED <<source, redis, pump, others, ghosts, wire, strays>>

\* onmessage: a frame that comes while another is decoded is dropped.
Hears ==
  /\ page.socket = "open" /\ wire # <<>> /\ Head(wire) \notin Closing
  /\ wire' = Tail(wire)
  /\ page' = IF Head(wire) = "frame" THEN [page EXCEPT !.decoding = TRUE]
             ELSE [page EXCEPT !.health = Head(wire)]
  /\ UNCHANGED <<source, redis, pump, others, ghosts, strays, faults>>

\* onclose: a normal end is taken for the page's own, a refusal for good.
HearsClose ==
  /\ page.socket = "open" /\ wire # <<>> /\ Head(wire) \in Closing
  /\ wire' = <<>>
  /\ page' = IF Head(wire) = "done" THEN [Gone(page) EXCEPT !.dropped = TRUE]
             ELSE [Gone(page) EXCEPT !.status = "stopped"]
  /\ UNCHANGED <<source, redis, pump, others, ghosts, strays, faults>>

\* onclose: the connection broke, or the API restarts.
Breaks ==
  /\ page.socket = "open" /\ Fault
  /\ page' = Scheduled(Gone(page))
  /\ Hangs
  /\ UNCHANGED <<source, redis, others, strays>>

\* armWatchdog: nothing has been heard for a while.
WatchdogFires ==
  /\ page.socket = "open" /\ wire = <<>>
  /\ page' = Scheduled(Gone(page))
  /\ Hangs
  /\ UNCHANGED <<source, redis, others, strays, faults>>

-----------------------------------------------------------------------------
(* useFrameBitmap *)

\* onFrame: the picture is decoded, and takes the place of the last.
Decoded ==
  /\ page.decoding
  /\ \E ok \in BOOLEAN : page' = [page EXCEPT !.decoding = FALSE, !.held = @ \/ ok]
  /\ UNCHANGED <<source, redis, pump, others, ghosts, wire, strays, faults>>

\* Bug: a picture that was asked for by a closed view is kept.
StrayIsKept ==
  /\ strays > 0
  /\ strays' = strays - 1
  /\ page' = [page EXCEPT !.held = TRUE]
  /\ UNCHANGED <<source, redis, pump, others, ghosts, wire, faults>>

\* The view that asked for it has been closed: the picture is closed as well.
StrayDecoded ==
  /\ strays > 0
  /\ strays' = strays - 1
  /\ UNCHANGED <<source, redis, pump, others, ghosts, wire, page, faults>>

Mount ==
  /\ ~ page.mounted
  /\ page' = Connecting([Closed EXCEPT !.mounted = TRUE])
  /\ UNCHANGED <<source, redis, pump, others, ghosts, wire, strays, faults>>

\* The cleanup: the socket, its timers and the picture go.
Unmount ==
  /\ page.mounted
  /\ strays' = IF page.decoding THEN strays + 1 ELSE strays
  /\ strays' =< MaxStrays
  /\ page' = Closed
  /\ Hangs
  /\ UNCHANGED <<source, redis, others, faults>>

Server == PumpReads \/ PumpFails \/ DropsViewer \/ Revokes \/ GhostLeaves \/ Elsewhere
Camera == Captured \/ Ages \/ StreamFails \/ StreamReturns
Socket == TimerFires \/ Opens \/ Refused \/ Hears \/ HearsClose \/ Breaks \/ WatchdogFires
View   == Decoded \/ StrayDecoded \/ Mount \/ Unmount

Next == Server \/ Camera \/ Socket \/ View

Spec == Init /\ [][Next]_vars

-----------------------------------------------------------------------------
(* Properties. *)

\* frame-socket.ts: a view has a socket, or will try again, until it says that it has
\* stopped. One that the API dropped for being slow is left out: its page still says "open".
ViewIsDriven ==
  page.mounted /\ page.status # "stopped" /\ ~ page.dropped => page.socket # "none" \/ page.timer

\* run_frame_pump and setHealth: once everything has arrived, the page shows the state the
\* pump found, however often it has connected.
HealthIsTrue ==
  page.socket = "open" /\ wire = <<>> /\ pump.on /\ pump.last # "nothing" => page.health = pump.last

\* use-frame-bitmap.ts: a page that is closed holds no picture, whatever was being decoded.
PicturesAreReleased == page.held => page.mounted

\* ViewerLimit: the limit is never exceeded, and a page that has gone is counted until the
\* API notices.
ViewersAreBounded == Viewers =< MaxViewers
=============================================================================
