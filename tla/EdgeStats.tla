----------------------------- MODULE EdgeStats -----------------------------
(***************************************************************************)
(* The reading of a camera on the console. The camera looks at the number  *)
(* of frames it has published, divides what was added by the time since    *)
(* it last looked, and writes the rate, with the latency of its last calls *)
(* to the AI service, under a key that expires. The API reads the keys of  *)
(* all cameras and averages those that are there.                          *)
(***************************************************************************)
EXTENDS Naturals, Sequences, SequencesExt

CONSTANTS
  Interval,   \* STATS_INTERVAL_SECONDS
  Ttl,        \* STATS_TTL_SECONDS
  Samples,    \* LATENCY_WINDOW
  MaxTime,    \* bound: time
  MaxFrames,  \* bound: frames published by a process, and calls answered
  None

Reading == [frames : 0..MaxFrames, elapsed : 1..MaxTime, latencies : Seq(1..MaxFrames)]

EdgeStatsAssumption ==
  /\ {Interval, Ttl, Samples, MaxTime, MaxFrames} \subseteq Nat \ {0}
  /\ None \notin Reading

VARIABLES
  now,
  alive,      \* since when the camera process has run, or 0
  died,       \* when the last one died
  published,  \* published_total of the publisher
  answered,   \* forwarded_total
  latencies,  \* _latency_samples: the numbers of the calls
  looked,     \* last_count and last_at, and when the task looks again
  writing,    \* the reading that is written, or None
  measured,   \* frames in the readings of this process
  key         \* the reading under the key and when it expires, or None

vars == <<now, alive, died, published, answered, latencies, looked, writing, measured, key>>
process == <<alive, died>>
work == <<published, answered, latencies>>

TypeOK ==
  /\ now \in 1..MaxTime /\ {alive, died} \subseteq 0..now
  /\ {published, answered, measured} \subseteq 0..MaxFrames
  /\ latencies \in Seq(1..MaxFrames) /\ Len(latencies) <= Samples
  /\ looked \in [count : 0..MaxFrames, at : 0..MaxTime, next : 0..(MaxTime + Interval)]
  /\ writing \in Reading \cup {None}
  /\ key # None => key.reading \in Reading /\ key.until \in now..(MaxTime + Ttl)

Init ==
  /\ now = 1 /\ alive = 1 /\ died = 0
  /\ published = 0 /\ answered = 0 /\ latencies = <<>>
  /\ looked = [count |-> 0, at |-> 1, next |-> 1 + Interval]
  /\ writing = None /\ measured = 0 /\ key = None

\* FramePublisher._run: xadd.
Publish ==
  /\ alive > 0 /\ published < MaxFrames
  /\ published' = published + 1
  /\ UNCHANGED <<now, process, answered, latencies, looked, writing, measured, key>>

\* Bug: the samples that are kept are the first ones.
KeptFirst(s) == SubSeq(s, 1, IF Len(s) > Samples THEN Samples ELSE Len(s))

\* Forwarder._record_latency.
Kept(s) == SubSeq(s, IF Len(s) > Samples THEN Len(s) - Samples + 1 ELSE 1, Len(s))

Analyzed ==
  /\ alive > 0 /\ answered < MaxFrames
  /\ answered' = answered + 1
  /\ latencies' = Kept(Append(latencies, answered + 1))
  /\ UNCHANGED <<now, process, published, looked, writing, measured, key>>

\* StatsPublisher.run: what was published since it last looked.
Look ==
  /\ alive > 0 /\ writing = None /\ now >= looked.next
  /\ writing' = [frames |-> published - looked.count, elapsed |-> now - looked.at,
                 latencies |-> latencies]
  /\ looked' = [looked EXCEPT !.count = published, !.at = now]
  /\ measured' = measured + (published - looked.count)
  /\ UNCHANGED <<now, process, work, key>>

\* Bug: the count is read again when the write has ended.
SleptRecounted == [looked EXCEPT !.count = published, !.next = now + Interval]

\* StatsPublisher.run: the sleep after a write.
Slept == [looked EXCEPT !.next = now + Interval]

\* Bug: SET without EX.
NoExpiry == MaxTime + Ttl

\* StatsPublisher._write: SET with EX.
Expiry == now + Ttl

Written == [reading |-> writing, until |-> Expiry]

\* StatsPublisher._write, which may raise RedisError before or after Redis has done it.
Write ==
  /\ alive > 0 /\ writing # None
  /\ key' \in {Written, key}
  /\ writing' = None
  /\ looked' = Slept
  /\ UNCHANGED <<now, process, work, measured>>

\* read_edge_stats: a key that is there is a camera that reports.
Reporting == key # None

\* The camera process dies; a write that is under way may still be done.
Die ==
  /\ alive > 0
  /\ alive' = 0 /\ died' = now
  /\ key' \in IF writing = None THEN {key} ELSE {key, Written}
  /\ writing' = None
  /\ UNCHANGED <<now, work, looked, measured>>

\* A new process counts from zero.
Restart ==
  /\ alive = 0
  /\ alive' = now
  /\ published' = 0 /\ answered' = 0 /\ latencies' = <<>> /\ measured' = 0
  /\ looked' = [count |-> 0, at |-> now, next |-> now + Interval]
  /\ UNCHANGED <<now, died, writing, key>>

Tick ==
  /\ now < MaxTime
  /\ now' = now + 1
  /\ key' = IF key # None /\ key.until <= now' THEN None ELSE key
  /\ UNCHANGED <<process, work, looked, writing, measured>>

Next ==
  \/ Publish \/ Analyzed \/ Look \/ Write
  \/ Die \/ Restart \/ Tick

Spec == Init /\ [][Next]_vars

-----------------------------------------------------------------------------
(* Properties *)

\* Every frame that a process has published is in one of its readings and no more, or is
\* still to be looked at: a write that fails, or that takes its time, shifts none of them.
FramesAreMeasuredOnce == measured + (published - looked.count) = published

\* A camera that has died reports no longer than a Ttl: its last reading is not taken for that
\* of a camera that runs.
DeadIsForgotten == alive = 0 /\ Reporting => now < died + Ttl

\* The latency that is reported is of the last calls that were answered.
LatencyIsOfTheLast ==
  \A k \in DOMAIN latencies : latencies[k] = answered - Len(latencies) + k
=============================================================================
