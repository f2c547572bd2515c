------------------------------ MODULE Delivery ------------------------------
(***************************************************************************)
(* The notification pipeline: delivery intents in MongoDB, send_alert_task *)
(* messages in the Celery broker, the Redis gate that holds deliveries     *)
(* back while Telegram is unreachable, the reconciler that sweeps stale    *)
(* intents, the gate probe that drains held ones, and the dead letters.    *)
(*                                                                         *)
(* A worker is one Celery process (--pool=solo): it runs one task at a     *)
(* time, be it a delivery, a reconciler sweep or a gate probe.  Every      *)
(* MongoDB or Redis call is one atomic step; other workers run between two *)
(* calls of the same task.                                                 *)
(***************************************************************************)
EXTENDS Naturals, FiniteSets

CONSTANTS
  Intent,         \* delivery intents, one per natural key
  Unconfigured,   \* the intents whose recipient is UNCONFIGURED_RECIPIENT
  Worker,         \* Celery worker processes (2 in production, 1 in development)
  None,           \* no intent
  MaxRetries,     \* CELERY_TASK_MAX_RETRIES
  MaxRequeues,    \* RECONCILER_MAX_REQUEUES
  DrainBatch,     \* GATE_DRAIN_BATCH
  MaxSends,       \* SendAlert calls per alert (the API retries a failed call)
  MaxCopies,      \* bound: further copies of a queued message are merged
  MaxPosts,       \* bound: further posts of the same alert are not counted
  MaxFaults,      \* bound: crashes, failed calls, expiries and lost replies
  MaxOutages      \* bound: times Telegram becomes unreachable

ASSUME DeliveryAssumption ==
  /\ Unconfigured \subseteq Intent
  /\ None \notin Intent
  /\ MaxRetries \in Nat /\ MaxRequeues \in Nat
  /\ DrainBatch \in Nat \ {0}
  /\ MaxSends \in Nat \ {0} /\ MaxCopies \in Nat \ {0} /\ MaxPosts \in Nat \ {0}
  /\ MaxFaults \in Nat /\ MaxOutages \in Nat

VARIABLES
  status,    \* DeliveryIntent.status; "NONE" before the intent is acquired
  requeues,  \* DeliveryIntent.requeue_count
  aged,      \* intents whose updated_at is past the timeout of their status
  sends,     \* SendAlert calls so far
  queue,     \* messages <<intent, request.retries>> waiting in the broker
  pc,        \* where each worker is in its task
  job,       \* the intent a worker is working on
  tries,     \* request.retries of the message a worker is working on
  found,     \* stale intents a sweep has read and not handled yet
  doomed,    \* those read with requeue_count >= MaxRequeues
  ripe,      \* those not written since: updated_at is still before the cutoff
  released,  \* intents a drain has moved to PENDING and not enqueued yet
  gate,      \* the Redis key GATE_KEY exists
  telegram,  \* Telegram answers
  posts,     \* prompts posted in the chat, per intent
  letters,   \* intents with a dead letter
  faults,
  outages

store   == <<status, requeues, aged>>
sweep   == <<found, doomed, ripe>>
tasks   == <<pc, job, tries>>
world   == <<telegram, outages>>
vars == <<status, requeues, aged, sends, queue, pc, job, tries, found, doomed,
          ripe, released, gate, telegram, posts, letters, faults, outages>>

Status == {"NONE", "PENDING", "SENDING", "SENT", "FAILED", "DEAD", "BUFFERED"}
Tries  == 0..MaxRetries

\* The steps of _deliver, _reconcile and probe_gate_task at which a worker can be.
Delivering == {"loaded", "bury", "open", "hold", "claimed", "prompt", "posted",
               "failed", "letter"}
PC == {"idle", "sweep", "retire", "probing", "drain", "enqueue"} \cup Delivering

TypeOK ==
  /\ status \in [Intent -> Status]
  /\ requeues \in [Intent -> Nat]
  /\ aged \subseteq Intent
  /\ sends \in [Intent -> 0..MaxSends]
  /\ queue \in [Intent \X Tries -> 0..MaxCopies]
  /\ pc \in [Worker -> PC]
  /\ job \in [Worker -> Intent \cup {None}]
  /\ \A w \in Worker : pc[w] \in Delivering \cup {"retire"} => job[w] \in Intent
  /\ tries \in [Worker -> Tries]
  /\ found \in [Worker -> SUBSET Intent]
  /\ doomed \in [Worker -> SUBSET Intent]
  /\ ripe \in [Worker -> SUBSET Intent]
  /\ released \in [Worker -> SUBSET Intent]
  /\ gate \in BOOLEAN
  /\ telegram \in BOOLEAN
  /\ posts \in [Intent -> 0..MaxPosts]
  /\ letters \subseteq Intent
  /\ faults \in 0..MaxFaults
  /\ outages \in 0..MaxOutages

Init ==
  /\ status = [i \in Intent |-> "NONE"]
  /\ requeues = [i \in Intent |-> 0]
  /\ aged = {}
  /\ sends = [i \in Intent |-> 0]
  /\ queue = [m \in Intent \X Tries |-> 0]
  /\ pc = [w \in Worker |-> "idle"]
  /\ job = [w \in Worker |-> None]
  /\ tries = [w \in Worker |-> 0]
  /\ found = [w \in Worker |-> {}]
  /\ doomed = [w \in Worker |-> {}]
  /\ ripe = [w \in Worker |-> {}]
  /\ released = [w \in Worker |-> {}]
  /\ gate = FALSE
  /\ telegram = TRUE
  /\ posts = [i \in Intent |-> 0]
  /\ letters = {}
  /\ faults = 0
  /\ outages = 0

-----------------------------------------------------------------------------
(* Helpers *)

AtMost(n, cap) == IF n <= cap THEN n ELSE cap

\* A write to an intent sets updated_at, so it is no longer older than any cutoff.
Touch(i) ==
  /\ aged' = aged \ {i}
  /\ ripe' = [w \in Worker |-> ripe[w] \ {i}]

\* The unconditional writers mark_sent, mark_failed and mark_dead.
Mark(i, st) ==
  /\ status' = [status EXCEPT ![i] = st]
  /\ Touch(i)

\* Bug: a dead intent can be claimed and held back again.
TerminalOnlySent == {"SENT"}

\* The statuses mark_sending and mark_buffered refuse to overwrite.
Terminal == {"SENT", "DEAD"}

\* The writers mark_sending and mark_buffered.
MarkUnlessTerminal(i, st) ==
  IF status[i] \in Terminal THEN UNCHANGED <<status, aged, ripe>> ELSE Mark(i, st)

\* send_task and apply_async.
Enqueued(i, r) == [queue EXCEPT ![<<i, r>>] = AtMost(@ + 1, MaxCopies)]

GoTo(w, step) ==
  /\ pc' = [pc EXCEPT ![w] = step]
  /\ UNCHANGED <<job, tries>>

\* The task returns or fails: the message is acknowledged.
Finish(w) ==
  /\ pc' = [pc EXCEPT ![w] = "idle"]
  /\ job' = [job EXCEPT ![w] = None]
  /\ tries' = [tries EXCEPT ![w] = 0]

\* Bug: off by one, the last attempt is not recognised.
FinalAttemptLate(w) == tries[w] > MaxRetries

\* final_attempt of send_alert_task.
FinalAttempt(w) == tries[w] >= MaxRetries

-----------------------------------------------------------------------------
(* SendAlert and the Alertmanager webhook: acquire the intent, enqueue a task *)

SendAlert(i) ==
  /\ sends[i] < MaxSends
  /\ sends' = [sends EXCEPT ![i] = @ + 1]
  /\ IF status[i] = "NONE" THEN Mark(i, "PENDING") ELSE UNCHANGED <<status, aged, ripe>>
  /\ \/ queue' = Enqueued(i, 0)
     \/ UNCHANGED queue               \* enqueue failed: left to the reconciler
  /\ UNCHANGED <<requeues, tasks, found, doomed, released, gate, posts,
                 letters, faults, world>>

-----------------------------------------------------------------------------
(* send_alert_task *)

\* The worker takes a message and reads the intent (get_by_id).
Load(w) ==
  /\ pc[w] = "idle"
  /\ \E i \in Intent, r \in Tries :
       /\ queue[<<i, r>>] > 0
       /\ queue' = [queue EXCEPT ![<<i, r>>] = @ - 1]
       /\ IF status[i] = "SENT"
          THEN UNCHANGED tasks
          ELSE /\ pc' = [pc EXCEPT ![w] = IF i \in Unconfigured THEN "bury" ELSE "loaded"]
               /\ job' = [job EXCEPT ![w] = i]
               /\ tries' = [tries EXCEPT ![w] = r]
  /\ UNCHANGED <<store, sends, sweep, released, gate, posts, letters, faults, world>>

CheckGate(w) ==
  /\ pc[w] = "loaded"
  /\ GoTo(w, IF gate THEN "hold" ELSE "open")
  /\ UNCHANGED <<store, sends, queue, sweep, released, gate, posts, letters, faults, world>>

\* mark_buffered, after the gate was seen raised or has just been raised.
Hold(w) ==
  /\ pc[w] = "hold"
  /\ MarkUnlessTerminal(job[w], "BUFFERED")
  /\ Finish(w)
  /\ UNCHANGED <<requeues, sends, queue, found, doomed, released, gate, posts,
                 letters, faults, world>>

\* Bug: the intent is marked SENT when it is claimed.
ClaimAsSent(w) ==
  /\ pc[w] = "open"
  /\ MarkUnlessTerminal(job[w], "SENT")
  /\ IF status[job[w]] \in Terminal THEN Finish(w) ELSE GoTo(w, "claimed")
  /\ UNCHANGED <<requeues, sends, queue, found, doomed, released, gate, posts,
                 letters, faults, world>>

\* mark_sending: refused on a terminal status, granted over another worker's SENDING.
Claim(w) ==
  /\ pc[w] = "open"
  /\ MarkUnlessTerminal(job[w], "SENDING")
  /\ IF status[job[w]] \in Terminal THEN Finish(w) ELSE GoTo(w, "claimed")
  /\ UNCHANGED <<requeues, sends, queue, found, doomed, released, gate, posts,
                 letters, faults, world>>

\* send_photo and mark_snapshot_sent, which only moves updated_at.
SendSnapshot(w) ==
  /\ pc[w] = "claimed"
  /\ telegram
  /\ Touch(job[w])
  /\ GoTo(w, "prompt")
  /\ UNCHANGED <<status, requeues, sends, queue, found, doomed, released, gate,
                 posts, letters, faults, world>>

\* send_video or send_message reaches the chat; the reply is still on its way.
Post(w) ==
  /\ pc[w] \in {"claimed", "prompt"}
  /\ telegram
  /\ posts' = [posts EXCEPT ![job[w]] = AtMost(@ + 1, MaxPosts)]
  /\ GoTo(w, "posted")
  /\ UNCHANGED <<store, sends, queue, sweep, released, gate, letters, faults, world>>

\* Bug: the task ends without mark_sent.
MarkSentForgotten(w) ==
  /\ pc[w] = "posted"
  /\ Finish(w)
  /\ UNCHANGED <<store, sends, queue, sweep, released, gate, posts, letters, faults, world>>

\* mark_sent.
MarkSent(w) ==
  /\ pc[w] = "posted"
  /\ Mark(job[w], "SENT")
  /\ Finish(w)
  /\ UNCHANGED <<requeues, sends, queue, found, doomed, released, gate, posts,
                 letters, faults, world>>

\* TelegramUnreachableError: gate_set, then mark_buffered.
Unreachable(w) ==
  /\ pc[w] \in {"claimed", "prompt"}
  /\ ~telegram
  /\ gate' = TRUE
  /\ GoTo(w, "hold")
  /\ UNCHANGED <<store, sends, queue, sweep, released, posts, letters, faults, world>>

\* The same error (a read timeout) when Telegram took the message and the reply did
\* not come back.
ReplyLost(w) ==
  /\ pc[w] = "posted"
  /\ faults < MaxFaults
  /\ faults' = faults + 1
  /\ gate' = TRUE
  /\ GoTo(w, "hold")
  /\ UNCHANGED <<store, sends, queue, sweep, released, posts, letters, world>>

\* Bug: mark_dead without the dead letter.
GiveUpSilently(w) ==
  /\ pc[w] \in {"bury", "claimed"} \/ (pc[w] = "prompt" /\ telegram)
  /\ Mark(job[w], "DEAD")
  /\ Finish(w)
  /\ UNCHANGED <<requeues, sends, queue, found, doomed, released, gate, posts,
                 letters, faults, world>>

\* An unconfigured recipient, a render error, TelegramPermanentError, a declined send, or a
\* transient error on the final attempt: mark_dead, then the dead letter.
GiveUp(w) ==
  /\ pc[w] \in {"bury", "claimed"} \/ (pc[w] = "prompt" /\ telegram)
  /\ Mark(job[w], "DEAD")
  /\ GoTo(w, "letter")
  /\ UNCHANGED <<requeues, sends, queue, found, doomed, released, gate, posts,
                 letters, faults, world>>

\* A missing clip or TelegramTransientError: mark_failed, then the error is raised.
FailAttempt(w) ==
  /\ pc[w] = "claimed" \/ (pc[w] = "prompt" /\ telegram)
  /\ ~FinalAttempt(w)
  /\ Mark(job[w], "FAILED")
  /\ GoTo(w, "failed")
  /\ UNCHANGED <<requeues, sends, queue, found, doomed, released, gate, posts,
                 letters, faults, world>>

\* autoretry_for publishes the message again with request.retries + 1; Celery
\* refuses when max_retries is spent.
Retry(w) ==
  /\ pc[w] = "failed"
  /\ IF tries[w] < MaxRetries
     THEN queue' = Enqueued(job[w], tries[w] + 1)
     ELSE UNCHANGED queue
  /\ Finish(w)
  /\ UNCHANGED <<store, sends, sweep, released, gate, posts, letters, faults, world>>

WriteLetter(w) ==
  /\ pc[w] = "letter"
  /\ letters' = letters \cup {job[w]}
  /\ Finish(w)
  /\ UNCHANGED <<store, sends, queue, sweep, released, gate, posts, faults, world>>

-----------------------------------------------------------------------------
(* reconcile_intents_task *)

\* Bug: intents left PENDING are not looked at.
StaleSendingOnly(i) == i \in aged /\ status[i] = "SENDING"

\* The filter of find_stale, for SENDING and for PENDING.
Stale(i) == i \in aged /\ status[i] \in {"PENDING", "SENDING"}

\* find_stale for SENDING, then for PENDING.  What is written between the two reads is
\* no longer ripe, so one step finds everything that both together can requeue.
FindStale(w) ==
  /\ pc[w] = "idle"
  /\ \E i \in Intent : Stale(i)
  /\ LET stale == {i \in Intent : Stale(i)} IN
       /\ found' = [found EXCEPT ![w] = stale]
       /\ ripe' = [ripe EXCEPT ![w] = stale]
       /\ doomed' = [doomed EXCEPT ![w] = {i \in stale : requeues[i] >= MaxRequeues}]
  /\ GoTo(w, "sweep")
  /\ UNCHANGED <<store, sends, queue, released, gate, posts, letters, faults, world>>

\* Bug: mark_requeued does not compare updated_at with the cutoff.
RequeueableAnyTime(w, i) == status[i] \in {"PENDING", "SENDING"}

\* The filter of mark_requeued.
Requeueable(w, i) == i \in ripe[w] /\ status[i] \in {"PENDING", "SENDING"}

\* mark_requeued; an intent written since it was read is "raced" and left alone.
MarkRequeued(w, i) ==
  IF Requeueable(w, i)
  THEN /\ Mark(i, "PENDING")
       /\ requeues' = [requeues EXCEPT ![i] = @ + 1]
  ELSE UNCHANGED <<store, ripe>>

\* mark_requeued, then apply_async.
Requeue(w) ==
  /\ pc[w] = "sweep"
  /\ \E i \in found[w] \ doomed[w] :
       /\ MarkRequeued(w, i)
       /\ queue' = IF Requeueable(w, i) THEN Enqueued(i, 0) ELSE queue
       /\ found' = [found EXCEPT ![w] = @ \ {i}]
  /\ GoTo(w, "sweep")
  /\ UNCHANGED <<sends, doomed, released, gate, posts, letters, faults, world>>

\* The broker refuses the message of an intent already marked: the sweep is over.
RequeueLost(w) ==
  /\ pc[w] = "sweep"
  /\ faults < MaxFaults
  /\ faults' = faults + 1
  /\ \E i \in found[w] \ doomed[w] :
       /\ Requeueable(w, i)
       /\ status' = [status EXCEPT ![i] = "PENDING"]
       /\ requeues' = [requeues EXCEPT ![i] = @ + 1]
       /\ aged' = aged \ {i}
       /\ ripe' = [v \in Worker |-> IF v = w THEN {} ELSE ripe[v] \ {i}]
  /\ found' = [found EXCEPT ![w] = {}]
  /\ doomed' = [doomed EXCEPT ![w] = {}]
  /\ Finish(w)
  /\ UNCHANGED <<sends, queue, released, gate, posts, letters, world>>

\* _retire_poison: mark_dead whatever the status is by now, then the dead letter.
Retire(w) ==
  /\ pc[w] = "sweep"
  /\ \E i \in found[w] \cap doomed[w] :
       /\ found' = [found EXCEPT ![w] = @ \ {i}]
       /\ Mark(i, "DEAD")
       /\ job' = [job EXCEPT ![w] = i]
  /\ pc' = [pc EXCEPT ![w] = "retire"]
  /\ UNCHANGED <<requeues, sends, queue, tries, doomed, released, gate, posts,
                 letters, faults, world>>

RetireLetter(w) ==
  /\ pc[w] = "retire"
  /\ letters' = letters \cup {job[w]}
  /\ job' = [job EXCEPT ![w] = None]
  /\ pc' = [pc EXCEPT ![w] = "sweep"]
  /\ UNCHANGED <<store, sends, queue, tries, sweep, released, gate, posts, faults, world>>

EndSweep(w) ==
  /\ pc[w] = "sweep"
  /\ found[w] = {}
  /\ doomed' = [doomed EXCEPT ![w] = {}]
  /\ ripe' = [ripe EXCEPT ![w] = {}]
  /\ Finish(w)
  /\ UNCHANGED <<store, sends, queue, found, released, gate, posts, letters, faults, world>>

-----------------------------------------------------------------------------
(* probe_gate_task *)

StartProbe(w) ==
  /\ pc[w] = "idle"
  /\ gate
  /\ GoTo(w, "probing")
  /\ UNCHANGED <<store, sends, queue, sweep, released, gate, posts, letters, faults, world>>

\* The probe fails: gate_refresh extends the key if it still exists.
ProbeFails(w) ==
  /\ pc[w] = "probing"
  /\ ~telegram
  /\ Finish(w)
  /\ UNCHANGED <<store, sends, queue, sweep, released, gate, posts, letters, faults, world>>

\* The probe succeeds: gate_clear, then _drain_buffer.
ProbeSucceeds(w) ==
  /\ pc[w] = "probing"
  /\ telegram
  /\ gate' = FALSE
  /\ GoTo(w, "drain")
  /\ UNCHANGED <<store, sends, queue, sweep, released, posts, letters, faults, world>>

\* One find_one_and_update of release_buffered.
Release(w) ==
  /\ pc[w] = "drain"
  /\ Cardinality(released[w]) < DrainBatch
  /\ \E i \in Intent :
       /\ status[i] = "BUFFERED"
       /\ Mark(i, "PENDING")
       /\ released' = [released EXCEPT ![w] = @ \cup {i}]
  /\ GoTo(w, "drain")
  /\ UNCHANGED <<requeues, sends, queue, found, doomed, gate, posts, letters, faults, world>>

\* release_buffered returns: nothing is BUFFERED, or the batch is full.
EndRelease(w) ==
  /\ pc[w] = "drain"
  /\ \/ \A i \in Intent : status[i] # "BUFFERED"
     \/ Cardinality(released[w]) >= DrainBatch
  /\ GoTo(w, "enqueue")
  /\ UNCHANGED <<store, sends, queue, sweep, released, gate, posts, letters, faults, world>>

EnqueueReleased(w) ==
  /\ pc[w] = "enqueue"
  /\ \E i \in released[w] :
       /\ queue' = Enqueued(i, 0)
       /\ released' = [released EXCEPT ![w] = @ \ {i}]
  /\ GoTo(w, "enqueue")
  /\ UNCHANGED <<store, sends, sweep, gate, posts, letters, faults, world>>

EndDrain(w) ==
  /\ pc[w] = "enqueue"
  /\ released[w] = {}
  /\ Finish(w)
  /\ UNCHANGED <<store, sends, queue, sweep, released, gate, posts, letters, faults, world>>

-----------------------------------------------------------------------------
(* Faults, time and Telegram *)

\* The worker process dies, or a MongoDB or Redis call raises.  A dead worker's
\* delivery is redelivered (acks_late); a task that raised an error outside
\* autoretry_for is acknowledged and gone, and so is a sweep or a probe.
Crash(w) ==
  /\ pc[w] # "idle"
  /\ faults < MaxFaults
  /\ faults' = faults + 1
  /\ \/ /\ pc[w] \in Delivering
        /\ queue' = Enqueued(job[w], tries[w])
     \/ UNCHANGED queue
  /\ Finish(w)
  /\ found' = [found EXCEPT ![w] = {}]
  /\ doomed' = [doomed EXCEPT ![w] = {}]
  /\ ripe' = [ripe EXCEPT ![w] = {}]
  /\ released' = [released EXCEPT ![w] = {}]
  /\ UNCHANGED <<store, sends, gate, posts, letters, world>>

\* GATE_TTL_SEC passes without a probe: beat or the workers stood still that long.
GateExpires ==
  /\ gate
  /\ faults < MaxFaults
  /\ faults' = faults + 1
  /\ gate' = FALSE
  /\ UNCHANGED <<store, sends, queue, tasks, sweep, released, posts, letters, world>>

\* updated_at of a waiting intent falls behind its timeout.
Age(i) ==
  /\ i \notin aged
  /\ status[i] \in {"PENDING", "SENDING"}
  /\ aged' = aged \cup {i}
  /\ UNCHANGED <<status, requeues, sends, queue, tasks, sweep, released, gate,
                 posts, letters, faults, world>>

TelegramGoesDown ==
  /\ telegram
  /\ outages < MaxOutages
  /\ telegram' = FALSE
  /\ outages' = outages + 1
  /\ UNCHANGED <<store, sends, queue, tasks, sweep, released, gate, posts, letters, faults>>

TelegramComesBack ==
  /\ ~telegram
  /\ telegram' = TRUE
  /\ UNCHANGED <<store, sends, queue, tasks, sweep, released, gate, posts, letters,
                 faults, outages>>

-----------------------------------------------------------------------------

Deliver(w) ==
  \/ Load(w) \/ CheckGate(w) \/ Hold(w) \/ Claim(w) \/ SendSnapshot(w)
  \/ Post(w) \/ MarkSent(w) \/ Unreachable(w) \/ ReplyLost(w) \/ GiveUp(w)
  \/ FailAttempt(w) \/ Retry(w) \/ WriteLetter(w)

Reconcile(w) ==
  \/ FindStale(w) \/ Requeue(w) \/ RequeueLost(w) \/ Retire(w) \/ RetireLetter(w) \/ EndSweep(w)

ProbeGate(w) ==
  \/ StartProbe(w) \/ ProbeFails(w) \/ ProbeSucceeds(w) \/ Release(w)
  \/ EndRelease(w) \/ EnqueueReleased(w) \/ EndDrain(w)

Next ==
  \/ \E i \in Intent : SendAlert(i) \/ Age(i)
  \/ \E w \in Worker : Deliver(w) \/ Reconcile(w) \/ ProbeGate(w) \/ Crash(w)
  \/ GateExpires \/ TelegramGoesDown \/ TelegramComesBack

Spec == Init /\ [][Next]_vars

\* Workers and beat keep running, waiting intents grow old, Telegram comes back.
Fairness ==
  /\ \A w \in Worker : /\ WF_vars(Deliver(w))
                       /\ WF_vars(Reconcile(w))
                       /\ WF_vars(ProbeGate(w))
  /\ \A i \in Intent : WF_vars(Age(i))
  /\ WF_vars(TelegramComesBack)

FairSpec == Spec /\ Fairness

-----------------------------------------------------------------------------
(* Properties *)

\* The reconciler never requeues an intent more than RECONCILER_MAX_REQUEUES times,
\* although the count is read by find_stale long before mark_requeued raises it and
\* another worker may sweep the same intent in between.
RequeueBound == \A i \in Intent : requeues[i] <= MaxRequeues

\* SENT is only ever recorded of an alert whose prompt is in the chat.
SentWasPosted == \A i \in Intent : status[i] = "SENT" => posts[i] > 0

\* A task that still has to overwrite the status of intent i, or that will run again.
InRetry(i) ==
  \/ \E r \in Tries : queue[<<i, r>>] > 0
  \/ \E w \in Worker : job[w] = i /\ pc[w] \in Delivering \ {"letter"}

\* FAILED means "will be retried": unless a fault intervened, a FAILED intent has a
\* message in the broker or a worker that is not done with it.  The reconciler does
\* not look at FAILED, so nothing else would bring it back.
FailedHasRetry ==
  faults = 0 => \A i \in Intent : status[i] = "FAILED" => InRetry(i)

\* A worker between mark_dead and the dead letter of intent i.
Writing(i) == \E w \in Worker : job[w] = i /\ pc[w] \in {"letter", "retire"}

\* Unless a fault fell between the two writes, an intent that was given up has its
\* dead letter.
DeadHasLetter ==
  faults = 0 => \A i \in Intent : status[i] = "DEAD" => i \in letters \/ Writing(i)

\* Once sent or given up, an intent is never claimed, held back or requeued: the only
\* writes that can still hit it are the unconditional ones of a slower worker.
TerminalNeverReopened ==
  [][\A i \in Intent : status[i] \in {"SENT", "DEAD"}
                         => status'[i] \in {"SENT", "DEAD", "FAILED"}]_vars

\* With one worker, and unless a fault intervened, an alert is posted once however
\* often it is sent, retried, held back or requeued.
PostedOnce == faults = 0 => \A i \in Intent : posts[i] <= 1

\* The reconciler's promise: no intent stays PENDING or SENDING for ever, whatever
\* message or worker was lost.
WaitingIsResolved ==
  \A i \in Intent : status[i] \in {"PENDING", "SENDING"}
                      ~> status[i] \notin {"PENDING", "SENDING"}

\* README.md: "retries, exponential backoff, dead-letter queue. An alert either arrives
\* or leaves an inspectable record of why it didn't": every alert ends SENT or DEAD.
ArrivesOrIsRecorded ==
  \A i \in Intent : status[i] = "PENDING" ~> status[i] \in {"SENT", "DEAD"}
=============================================================================
