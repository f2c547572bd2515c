------------------------------ MODULE Capture ------------------------------
(***************************************************************************)
(* The camera process and its capture thread. The thread reads the device, *)
(* numbers the frames of each session of it, touches the heartbeat file    *)
(* and keeps to the rate it is given; when a read fails it opens the       *)
(* device again, waiting longer each time. The process opens the device    *)
(* before it starts the thread, and when it is told to stop it waits for   *)
(* the thread for a while and closes the device, whatever the thread does. *)
(***************************************************************************)
EXTENDS Integers, Sequences

CONSTANTS
  Idle, Active,  \* the intervals of frames at idle_fps and active_fps
  Period,        \* the interval of frames at the fps of the device
  Second,        \* one second
  Backoff, BackoffMax,
  JoinTimeout,
  MaxTime,       \* bound: time
  MaxPlugs       \* bound: times that the device is taken away or put back

CaptureAssumption ==
  /\ {Period, Second, Backoff, BackoffMax, JoinTimeout, Active, Idle, MaxTime} \subseteq Nat \ {0}
  /\ MaxPlugs \in Nat /\ Active <= Idle /\ Backoff <= BackoffMax

VARIABLES
  now,
  plugged,   \* the device is there
  plugs,     \* times that it was taken away or put back
  ready,     \* the device holds a frame: CAP_PROP_BUFFERSIZE is 1
  device,    \* CameraDevice: whether its handle is open, session_id
  interval,  \* _frame_interval
  deadline,  \* _next_deadline, 0 when it is not set
  index,     \* _frame_index
  thread,    \* where the thread is, until when it sleeps, and its delay
  running,   \* _running
  main,      \* where the process is, until when it waits, and its delay
  stamp,     \* _last_heartbeat_monotonic
  beat,      \* when the heartbeat file was last touched
  slipped,   \* history: the last touch of it failed
  pushed,    \* the frames since the deadline was last unset: when, and the intervals paced
             \* from the first of them to the next
  last,      \* the last frame: when, session_id, frame_index
  late       \* frames since _running was cleared

frames == <<pushed, last, late>>
heart  == <<stamp, beat, slipped>>
vars == <<now, plugged, plugs, ready, device, interval, deadline, index, thread, running, main,
          heart, frames>>

Places == {"none", "reading", "holding", "pacing", "sleeping", "reopening", "ended"}

TypeOK ==
  /\ now \in 1..MaxTime /\ stamp \in 0..now /\ beat \in 0..now
  /\ {plugged, ready, running, slipped} \subseteq BOOLEAN
  /\ device \in [open : BOOLEAN, session : 0..MaxTime]
  /\ interval \in {Idle, Active} /\ index \in 0..MaxTime /\ plugs \in 0..MaxPlugs
  /\ deadline \in 0..(MaxTime + Idle)
  /\ thread \in [at : Places, until : 0..(MaxTime + Idle + BackoffMax), delay : 0..BackoffMax]
  /\ main \in [at : {"opening", "up", "joining", "stopped"},
               until : 0..(MaxTime + BackoffMax + JoinTimeout), delay : 0..BackoffMax]
  /\ pushed \in Seq([at : 1..now, paced : Nat]) /\ Len(pushed) <= MaxTime
  /\ last \in [at : 0..now, session : 0..MaxTime, index : 0..MaxTime] /\ late \in 0..MaxTime

Init ==
  /\ now = 1 /\ plugged \in BOOLEAN /\ plugs = 0 /\ ready = FALSE
  /\ device = [open |-> FALSE, session |-> 0]
  /\ interval = Idle /\ deadline = 0 /\ index = 0
  /\ thread = [at |-> "none", until |-> 0, delay |-> 0]
  /\ running = FALSE
  /\ main = [at |-> "opening", until |-> now, delay |-> 0]
  /\ stamp = 0 /\ beat = 0 /\ slipped = FALSE /\ pushed = <<>>
  /\ last = [at |-> 0, session |-> 0, index |-> 0] /\ late = 0

GoTo(p) == thread' = [thread EXCEPT !.at = p]

\* CameraDevice.open: the old handle is released; a new session only when it opens.
Open ==
  /\ device' = IF plugged THEN [open |-> TRUE, session |-> device.session + 1]
                          ELSE [device EXCEPT !.open = FALSE]
  /\ ready' = FALSE

\* reopen_with_backoff: the delay after one that was in vain.
Longer(d) == IF d * 2 < BackoffMax THEN d * 2 ELSE BackoffMax

-----------------------------------------------------------------------------
(* The process *)

\* CaptureLoop.start: the first open, and reopen_with_backoff, which blocks the process.
Start ==
  /\ main.at = "opening" /\ now >= main.until
  /\ Open
  /\ IF plugged
     THEN /\ running' = TRUE /\ GoTo("reading")
          /\ main' = [main EXCEPT !.at = "up"]
     ELSE /\ LET d == IF main.delay = 0 THEN Backoff ELSE Longer(main.delay)
             IN  main' = [main EXCEPT !.until = now + d, !.delay = d]
          /\ UNCHANGED <<running, thread>>
  /\ UNCHANGED <<now, plugged, plugs, interval, deadline, index, heart, frames>>

\* CaptureLoop.stop, from _serve when a signal has come.
Stop ==
  /\ main.at = "up"
  /\ running' = FALSE
  /\ main' = [main EXCEPT !.at = "joining", !.until = now + JoinTimeout]
  /\ UNCHANGED <<now, plugged, plugs, ready, device, interval, deadline, index, thread,
                 heart, frames>>

\* CaptureLoop.stop: the join returns, at its timeout at the latest, and the handle goes.
Close ==
  /\ main.at = "joining" /\ (thread.at = "ended" \/ now >= main.until)
  /\ device' = [device EXCEPT !.open = FALSE]
  /\ ready' = FALSE
  /\ main' = [main EXCEPT !.at = "stopped"]
  /\ UNCHANGED <<now, plugged, plugs, interval, deadline, index, thread, running, heart,
                 frames>>

\* RateController.observe: set_pace.
SetPace ==
  /\ main.at = "up"
  /\ interval' = IF interval = Idle THEN Active ELSE Idle
  /\ interval' # interval
  /\ UNCHANGED <<now, plugged, plugs, ready, device, deadline, index, thread, running,
                 main, heart, frames>>

-----------------------------------------------------------------------------
(* The thread *)

\* The deadline is unset.
Unpaced == deadline' = 0 /\ pushed' = <<>> /\ UNCHANGED <<last, late>>

\* Bug: the numbers go on in the next session.
Counting == UNCHANGED index

\* CaptureLoop._run: numbers start again in the next session.
Renumber == index' = 0

\* CameraDevice.read returns none: its handle is closed, or the device was taken away.
ReadFails ==
  /\ thread.at = "reading" /\ ~device.open
  /\ thread' = [at |-> "reopening", until |-> now + Backoff, delay |-> Backoff]
  /\ UNCHANGED <<now, plugged, plugs, ready, device, interval, deadline, index, running,
                 main, heart, frames>>

\* CameraDevice.read returns a frame.
Read ==
  /\ thread.at = "reading" /\ device.open /\ ready
  /\ ready' = FALSE
  /\ GoTo("holding")
  /\ UNCHANGED <<now, plugged, plugs, device, interval, deadline, index, running, main,
                 heart, frames>>

\* The file is touched, or the touch fails, which is only logged.
TouchedAt(t) == stamp' = t /\ (\/ beat' = t /\ slipped' = FALSE
                               \/ beat' = beat /\ slipped' = TRUE)

\* Bug: the file is touched only when it is a second old for the frame before.
TouchedLate(t) ==
  IF stamp = 0 \/ last.at - stamp >= Second THEN TouchedAt(t) ELSE UNCHANGED heart

\* CaptureLoop._touch_heartbeat: the second counts from the attempt, whether it failed or not.
Touched(t) ==
  IF stamp = 0 \/ t - stamp >= Second THEN TouchedAt(t) ELSE UNCHANGED heart

\* The intervals paced so far.
Paced == IF pushed = <<>> THEN 0 ELSE pushed[Len(pushed)].paced

\* CaptureLoop._build_record, and the frame is pushed.
Push ==
  /\ thread.at = "holding"
  /\ Touched(now)
  /\ pushed' = Append(pushed, [at |-> now, paced |-> Paced])
  /\ last' = [at |-> now, session |-> device.session, index |-> index]
  /\ late' = IF running THEN late ELSE late + 1
  /\ index' = index + 1
  /\ GoTo("pacing")
  /\ UNCHANGED <<now, plugged, plugs, ready, device, interval, deadline, running, main>>

\* CaptureLoop._run: an empty frame.
Empty ==
  /\ thread.at = "holding"
  /\ GoTo("pacing")
  /\ UNCHANGED <<now, plugged, plugs, ready, device, interval, deadline, index, running,
                 main, heart, frames>>

\* Bug: the thread goes on reading.
AgainAnyway == [at |-> "reading", until |-> 0, delay |-> 0]

\* The loop looks at _running before it reads.
Again == [at |-> IF running THEN "reading" ELSE "ended", until |-> 0, delay |-> 0]

\* Bug: the deadline is kept when it has passed, so that frames make up for a stall.
DeadlineKept(due) == due

\* _pace: a deadline that has passed is moved to now.
Deadline(due) == IF due > now THEN due ELSE now

\* CaptureLoop._pace.
Pace ==
  /\ thread.at = "pacing"
  /\ IF interval <= Period
     THEN Unpaced /\ thread' = Again
     ELSE LET due == (IF deadline = 0 THEN now ELSE deadline) + interval
          IN  /\ deadline' = Deadline(due)
              /\ pushed' = IF pushed = <<>> THEN pushed
                           ELSE [pushed EXCEPT ![Len(pushed)].paced = @ + interval]
              /\ UNCHANGED <<last, late>>
              /\ thread' = IF due > now THEN [at |-> "sleeping", until |-> due, delay |-> 0]
                                        ELSE Again
  /\ UNCHANGED <<now, plugged, plugs, ready, device, interval, index, running, main, heart>>

\* time.sleep returns.
Wake ==
  /\ thread.at = "sleeping" /\ now >= thread.until
  /\ thread' = Again
  /\ UNCHANGED <<now, plugged, plugs, ready, device, interval, deadline, index, running,
                 main, heart, frames>>

\* reopen_with_backoff, which does not look at _running.
Reopen ==
  /\ thread.at = "reopening" /\ now >= thread.until
  /\ Open
  /\ IF plugged
     THEN Renumber /\ Unpaced /\ thread' = Again
     ELSE LET d == Longer(thread.delay)
          IN  /\ thread' = [thread EXCEPT !.until = now + d, !.delay = d]
              /\ UNCHANGED <<index, deadline, frames>>
  /\ UNCHANGED <<now, plugged, plugs, interval, running, main, heart>>

-----------------------------------------------------------------------------
\* The device has its next frame every Period.
Tick ==
  /\ now < MaxTime
  /\ now' = now + 1
  /\ ready' = (device.open /\ (ready \/ now' % Period = 0))
  /\ UNCHANGED <<plugged, plugs, device, interval, deadline, index, thread, running, main,
                 heart, frames>>

\* The device is taken away or put back: a handle to it does not come back to life.
Plug ==
  /\ plugs < MaxPlugs
  /\ plugged' = ~plugged /\ plugs' = plugs + 1
  /\ ready' = FALSE
  /\ device' = [device EXCEPT !.open = FALSE]
  /\ UNCHANGED <<now, interval, deadline, index, thread, running, main, heart, frames>>

Next ==
  \/ Start \/ Stop \/ Close \/ SetPace
  \/ ReadFails \/ Read \/ Push \/ Empty \/ Pace \/ Wake \/ Reopen
  \/ Tick \/ Plug

Spec == Init /\ [][Next]_vars

-----------------------------------------------------------------------------
(* Properties *)

\* Frames never come faster than the intervals they were paced with, whatever the thread
\* was kept from doing: after a stall there is no burst.
PaceIsKept ==
  \A i, j \in DOMAIN pushed :
    i < j => pushed[j].at >= pushed[i].at + (pushed[j - 1].paced - pushed[i].paced)

\* The number of the frame that is read follows that of the frame before: the next of its
\* session, or the first of a later one. No number is given twice and none is left out.
NumbersFollow ==
  thread.at \in {"reading", "holding"} /\ last.at > 0 =>
    IF device.session = last.session THEN index = last.index + 1
                                     ELSE device.session > last.session /\ index = 0

\* _touch_heartbeat: a touch of the heartbeat file is tried less than a second before the last
\* frame, and no later; the file is as old as that attempt, or older if the attempt failed.
BeatIsAFrame ==
  /\ beat <= stamp /\ stamp <= last.at
  /\ last.at > 0 => last.at - stamp < Second
  /\ slipped \/ beat = stamp

\* A thread that is told to end, in a sleep, a read or an attempt to open the device, pushes
\* one frame more at most.
OneFrameLate == late <= 1
=============================================================================
