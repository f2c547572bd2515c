------------------------------ MODULE Presence ------------------------------
(***************************************************************************)
(* The presence gate of a camera. The detect gate debounces what it sees   *)
(* into edges and streams them, with heartbeats, to the AI service, which  *)
(* spares the pose model the frames of a camera whose room is empty.       *)
(*                                                                         *)
(* The queue is bounded, a broken stream loses what it carried, and both   *)
(* processes restart; the lease and the hold-off lapse at any time.        *)
(***************************************************************************)
EXTENDS Naturals, Sequences, SequencesExt

CONSTANTS
  Debounce,  \* exit_debounce_frames
  Depth,     \* queue_max_depth
  None,
  MaxSeq,    \* bound: events one gate process builds
  MaxFaults  \* bound: streams that break and processes that restart

PresenceAssumption ==
  Debounce \in Nat \ {0} /\ Depth \in Nat \ {0} /\ MaxSeq \in Nat /\ MaxFaults \in Nat
  /\ None \notin {"absent", "present"}

VARIABLES
  gate,     \* the state machine
  streak,   \* empty frames in a row, counted up to Debounce
  seq,      \* events built by this gate process
  queue,    \* events the gate has yet to send
  stream,   \* it has a stream to the AI service
  wire,     \* events on the stream
  heard,    \* what the AI service last heard of the camera
  fresh,    \* it has heard from the gate within lease_seconds
  settled,  \* what it heard has not changed for absent_holdoff_seconds
  seen,     \* the event ids it has seen
  missed,   \* an edge was lost or taken for a duplicate, and none was heard since
  faults

vars == <<gate, streak, seq, queue, stream, wire, heard, fresh, settled, seen, missed, faults>>

Kind  == {"entered", "left", "heartbeat"}
Event == [kind : Kind, id : 1..MaxSeq]

TypeOK ==
  /\ gate \in {"unknown", "absent", "present"} /\ streak \in 0..Debounce
  /\ seq \in 0..MaxSeq
  /\ queue \in Seq(Event) /\ Len(queue) <= Depth
  /\ stream \in BOOLEAN /\ wire \in Seq(Event) /\ (~stream => wire = <<>>)
  /\ heard \in {None, "absent", "present"}
  /\ fresh \in BOOLEAN /\ settled \in BOOLEAN /\ seen \subseteq 1..MaxSeq
  /\ missed \in BOOLEAN /\ faults \in 0..MaxFaults

Init ==
  /\ gate = "unknown" /\ streak = 0 /\ seq = 0 /\ queue = <<>>
  /\ stream = FALSE /\ wire = <<>>
  /\ heard = None /\ fresh = FALSE /\ settled = FALSE /\ seen = {}
  /\ missed = FALSE /\ faults = 0

ai == <<heard, fresh, settled, seen>>

Fault == faults < MaxFaults /\ faults' = faults + 1

-----------------------------------------------------------------------------
(* The detect gate *)

\* observe: entry is instant, exit and the empty room at the start are debounced.
Streak(person) == IF person THEN 0 ELSE IF streak < Debounce THEN streak + 1 ELSE Debounce

Edge(person) ==
  IF person
  THEN IF gate = "present" THEN "none" ELSE "entered"
  ELSE IF gate # "absent" /\ streak + 1 >= Debounce THEN "left" ELSE "none"

\* heartbeat: dropped when the queue is full.
Beaten(q, id) == IF Len(q) < Depth THEN Append(q, [kind |-> "heartbeat", id |-> id]) ELSE q

\* Bug: an edge is dropped like a heartbeat.
SubmittedIfRoom(q, edge, id) == IF Len(q) < Depth THEN Append(q, [kind |-> edge, id |-> id]) ELSE q

\* submit: the oldest event makes room.
Submitted(q, edge, id) ==
  Append(IF Len(q) = Depth THEN Tail(q) ELSE q, [kind |-> edge, id |-> id])

\* One frame: the heartbeat if it is due, then what was observed.
Frame(person, beat) ==
  LET edge  == Edge(person)
      after == seq + (IF beat THEN 1 ELSE 0)
      beats == IF beat THEN Beaten(queue, after) ELSE queue
  IN  /\ after + 1 <= MaxSeq
      /\ streak' = Streak(person)
      /\ gate' = CASE edge = "entered" -> "present" [] edge = "left" -> "absent" [] OTHER -> gate
      /\ seq' = IF edge = "none" THEN after ELSE after + 1
      /\ queue' = IF edge = "none" THEN beats ELSE Submitted(beats, edge, after + 1)
      /\ UNCHANGED <<stream, wire, ai, missed, faults>>

\* run: a channel that is ready and a new stream.
Connect ==
  /\ ~stream
  /\ stream' = TRUE
  /\ UNCHANGED <<gate, streak, seq, queue, wire, ai, missed, faults>>

\* _outbound.
Send ==
  /\ stream /\ queue # <<>>
  /\ wire' = Append(wire, Head(queue))
  /\ queue' = Tail(queue)
  /\ UNCHANGED <<gate, streak, seq, stream, ai, missed, faults>>

IsEdge(event) == event.kind # "heartbeat"

\* What was taken from the queue is gone; no ack is waited for.
StreamBreaks ==
  /\ stream
  /\ Fault
  /\ stream' = FALSE
  /\ wire' = <<>>
  /\ missed' = (missed \/ \E k \in DOMAIN wire : IsEdge(wire[k]))
  /\ UNCHANGED <<gate, streak, seq, queue, ai>>

\* The sequence starts again; SESSION_ID is the one of the configuration.
GateRestarts ==
  /\ Fault
  /\ gate' = "unknown" /\ streak' = 0 /\ seq' = 0 /\ queue' = <<>>
  /\ stream' = FALSE /\ wire' = <<>>
  /\ UNCHANGED <<ai, missed>>

-----------------------------------------------------------------------------
(* The AI service *)

HeartbeatHeard(event) ==
  /\ ~IsEdge(event)
  /\ fresh' = TRUE
  /\ UNCHANGED <<heard, settled, seen, missed>>

DuplicateHeard(event) ==
  /\ IsEdge(event) /\ event.id \in seen
  /\ missed' = TRUE
  /\ UNCHANGED ai

EdgeHeard(event) ==
  /\ IsEdge(event) /\ event.id \notin seen
  /\ seen' = seen \cup {event.id}
  /\ heard' = IF event.kind = "entered" THEN "present" ELSE "absent"
  /\ fresh' = TRUE
  /\ settled' = (settled /\ heard' = heard)
  /\ missed' = FALSE

\* _handle.
Handle ==
  /\ wire # <<>>
  /\ wire' = Tail(wire)
  /\ HeartbeatHeard(Head(wire)) \/ DuplicateHeard(Head(wire)) \/ EdgeHeard(Head(wire))
  /\ UNCHANGED <<gate, streak, seq, queue, stream, faults>>

LeaseLapses ==
  /\ fresh
  /\ fresh' = FALSE
  /\ UNCHANGED <<gate, streak, seq, queue, stream, wire, heard, settled, seen, missed, faults>>

HoldoffPasses ==
  /\ heard # None /\ ~settled
  /\ settled' = TRUE
  /\ UNCHANGED <<gate, streak, seq, queue, stream, wire, heard, fresh, seen, missed, faults>>

AiRestarts ==
  /\ Fault
  /\ heard' = None /\ fresh' = FALSE /\ settled' = FALSE /\ seen' = {}
  /\ stream' = FALSE /\ wire' = <<>>
  /\ UNCHANGED <<gate, streak, seq, queue, missed>>

\* is_absent: the frames of the camera are analysed without the pose model.
Absent == heard = "absent" /\ fresh /\ settled

-----------------------------------------------------------------------------

Next ==
  \/ \E person, beat \in BOOLEAN : Frame(person, beat)
  \/ Connect \/ Send \/ StreamBreaks \/ GateRestarts
  \/ Handle \/ LeaseLapses \/ HoldoffPasses \/ AiRestarts

Spec == Init /\ [][Next]_vars

-----------------------------------------------------------------------------
(* Properties *)

OnItsWay(kind) == \E k \in DOMAIN (wire \o queue) : (wire \o queue)[k].kind = kind

\* While the gate sees somebody the pose model runs, as soon as the AI service has heard
\* of it: however full the queue was, however often the AI service restarted. What the code
\* leaves open: an edge that a broken stream took with it is not sent again, and a gate
\* that restarted repeats the ids of its previous life and is not heard.
AbsentIsTrue == Absent /\ gate = "present" => OnItsWay("entered") \/ missed
=============================================================================
