----------------------------- MODULE FrameFlow ------------------------------
(***************************************************************************)
(* The frames of a camera: the capture thread pushes each into the buffer  *)
(* of the forwarder, which sends the newest one that is fresh to the AI    *)
(* service and drops the rest, and into the queue of the publisher, which  *)
(* adds them in order to a Redis stream. Both are bounded, and both count  *)
(* what they drop. Frames are numbered as they are captured.               *)
(***************************************************************************)
EXTENDS Naturals, Sequences, SequencesExt

CONSTANTS
  MaxDepth,    \* max_depth of the buffer
  QueueDepth,  \* queue_depth of the publisher
  MaxFrames    \* bound: frames captured

FrameAssumption == MaxDepth \in Nat \ {0} /\ QueueDepth \in Nat \ {0} /\ MaxFrames \in Nat

VARIABLES
  buffer,      \* frames in the ForwardBuffer
  aged,        \* frames up to this one are older than max_age_seconds
  forwarding,  \* the frame of the Analyze call, or 0
  analyzed,    \* the last frame the AI service was sent
  counted,     \* the counters of the buffer and the forwarder
  queue,       \* frames in the FramePublisher
  publishing,  \* the frame it is adding to the stream, or 0
  added,       \* the last frame of the stream
  tallied,     \* the counters of the publisher
  pace,        \* the rate of capture
  dwelling     \* a person was detected within dwell_seconds

vars == <<buffer, aged, forwarding, analyzed, counted, queue, publishing, added, tallied, pace,
          dwelling>>

Frame == 1..MaxFrames

TypeOK ==
  /\ buffer \in Seq(Frame) /\ Len(buffer) <= MaxDepth
  /\ queue \in Seq(Frame) /\ Len(queue) <= QueueDepth
  /\ {aged, forwarding, analyzed, publishing, added} \subseteq 0..MaxFrames
  /\ counted \in [{"captured", "overflow", "stale", "forwarded", "failed"} -> 0..MaxFrames]
  /\ tallied \in [{"published", "overflow", "failed"} -> 0..MaxFrames]
  /\ pace \in {"idle", "active"} /\ dwelling \in BOOLEAN /\ (dwelling => pace = "active")

Init ==
  /\ buffer = <<>> /\ aged = 0 /\ forwarding = 0 /\ analyzed = 0
  /\ counted = [c \in {"captured", "overflow", "stale", "forwarded", "failed"} |-> 0]
  /\ queue = <<>> /\ publishing = 0 /\ added = 0
  /\ tallied = [c \in {"published", "overflow", "failed"} |-> 0]
  /\ pace = "idle" /\ dwelling = FALSE

rate == <<pace, dwelling>>
forwarder == <<aged, forwarding, analyzed>>
publisher == <<queue, publishing, added, tallied>>

\* Bug: the deque has no maxlen.
PushedUnbounded(q, depth, f) == Append(q, f)

\* A deque with a maxlen drops its oldest element.
Pushed(q, depth, f) == Append(IF Len(q) = depth THEN Tail(q) ELSE q, f)

\* CaptureLoop._run.
Capture ==
  LET f == counted.captured + 1 IN
    /\ f \in Frame
    /\ buffer' = Pushed(buffer, MaxDepth, f)
    /\ counted' = [counted EXCEPT !.captured = f,
                                  !.overflow = IF Len(buffer) = MaxDepth THEN @ + 1 ELSE @]
    /\ queue' = Pushed(queue, QueueDepth, f)
    /\ tallied' = [tallied EXCEPT !.overflow = IF Len(queue) = QueueDepth THEN @ + 1 ELSE @]
    /\ UNCHANGED <<forwarder, publishing, added, rate>>

Age ==
  /\ aged < counted.captured
  /\ aged' \in (aged + 1)..counted.captured
  /\ UNCHANGED <<buffer, forwarding, analyzed, counted, publisher, rate>>

\* Bug: what was not taken stays.
LeftBehind == Front(buffer)

\* pop_fresh clears the buffer.
Left == <<>>

\* pop_fresh: the newest frame, if it is fresh; whatever else was there is counted.
Pop ==
  /\ forwarding = 0 /\ buffer # <<>>
  /\ LET f     == Last(buffer)
         fresh == f > aged
     IN  /\ forwarding' = IF fresh THEN f ELSE 0
         /\ analyzed' = IF fresh THEN f ELSE analyzed
         /\ counted' = [counted EXCEPT !.stale = @ + Len(buffer) - (IF fresh THEN 1 ELSE 0)]
  /\ buffer' = Left
  /\ UNCHANGED <<aged, publisher, rate>>

\* Analyze answers: forwarded_total, and observe of the rate controller.
Analyzed(present) ==
  /\ forwarding > 0
  /\ forwarding' = 0
  /\ counted' = [counted EXCEPT !.forwarded = @ + 1]
  /\ dwelling' = (present \/ dwelling)
  /\ pace' = IF present \/ dwelling THEN "active" ELSE "idle"
  /\ UNCHANGED <<buffer, aged, analyzed, publisher>>

\* AioRpcError, the deadline of one second included.
AnalyzeFails ==
  /\ forwarding > 0
  /\ forwarding' = 0
  /\ counted' = [counted EXCEPT !.failed = @ + 1]
  /\ UNCHANGED <<buffer, aged, analyzed, publisher, rate>>

DwellPasses ==
  /\ dwelling
  /\ dwelling' = FALSE
  /\ UNCHANGED <<buffer, forwarder, counted, publisher, pace>>

\* FramePublisher._pop.
Take ==
  /\ publishing = 0 /\ queue # <<>>
  /\ publishing' = Head(queue)
  /\ queue' = Tail(queue)
  /\ UNCHANGED <<buffer, forwarder, counted, added, tallied, rate>>

\* xadd.
Add ==
  /\ publishing > 0
  /\ added' = publishing
  /\ publishing' = 0
  /\ tallied' = [tallied EXCEPT !.published = @ + 1]
  /\ UNCHANGED <<buffer, forwarder, counted, queue, rate>>

\* RedisError: the frame is lost, or was added.
AddFails ==
  /\ publishing > 0
  /\ added' \in {added, publishing}
  /\ publishing' = 0
  /\ tallied' = [tallied EXCEPT !.failed = @ + 1]
  /\ UNCHANGED <<buffer, forwarder, counted, queue, rate>>

Next ==
  \/ Capture \/ Age \/ Pop \/ AnalyzeFails \/ DwellPasses
  \/ \E present \in BOOLEAN : Analyzed(present)
  \/ Take \/ Add \/ AddFails

Spec == Init /\ [][Next]_vars

-----------------------------------------------------------------------------
(* Properties *)

InFlight(f) == IF f > 0 THEN 1 ELSE 0

\* Every captured frame is in exactly one place or counter of the forwarder, and of the
\* publisher; and what either has yet to send is newer than all it has sent, so that the
\* AI service and the stream see the frames in the order they were captured.
FramesAreAccounted ==
  /\ counted.captured = Len(buffer) + InFlight(forwarding) + counted.overflow + counted.stale
                          + counted.forwarded + counted.failed
  /\ counted.captured = Len(queue) + InFlight(publishing) + tallied.overflow
                          + tallied.published + tallied.failed
  /\ \A k \in DOMAIN buffer : buffer[k] > analyzed
  /\ \A k \in DOMAIN queue : queue[k] > added /\ queue[k] > publishing
=============================================================================
