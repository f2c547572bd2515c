# Specifications of the theft detection platform

TLA+ models of this platform: the parts in which several processes work on shared state and fail
at bad moments, and the algorithms whose results they rely on; TLC configurations that check them
on small instances, and TLAPS proofs of what matters most for every instance. The code is the
reference: each module says in its header which part it models, and `PROJECT.json` lists for every
definition the lines it stands for (`map`), the runs, the theorems, and the hazards that the
properties are aimed at (`hazards`).

    tlc -workers 2 -config Delivery_production.cfg Delivery     # any run of section 3
    tlapm DeliveryProofs.tla                                      # any module of proofs

## 1. The system

Cameras send frames to an AI service, which raises alerts through the API; the API stores them and
asks the notification service to post them in Telegram, where a guard confirms or rejects them.
Every service reports to an audit service that keeps a hash-chained log. An auth service owns the
accounts and sessions of the web console. The services speak gRPC over mTLS and keep their state in
MongoDB (API, notification), PostgreSQL (auth, audit) and Redis (locks, gates, revocations,
pub/sub); notification work goes through Celery.

### Inventory

State, operations, what is hard, and what makes the component correct, with the module that models
it. What is left out of a component is in section 7.

**Notification: intake and status** (`server/servicer.py`, `server/api/webhooks.py`,
`repositories/delivery_intent.py`). `SendAlert` and the Alertmanager webhook acquire one intent for
each natural key (source, reference, channel, recipient) and enqueue it; `DeliveryStatus` folds the
intents of an alert into what the API shows. *Hard*: requests at once, an unset chat, a chat that
changes between two requests. *Correct if*: what is accepted is told once for each recipient there
was, and the status shown is the worst. `Intake`.

**Notification: delivery** (`worker/tasks.py`, `shared/gate.py`, `telegram_service.py`). Intents with
a status and a requeue count, messages in the broker, a gate in Redis, dead letters.
`send_alert_task` claims, posts and records; `reconcile_intents_task` requeues what got stuck or
retires it; `probe_gate_task` clears the gate and drains what was held back. *Hard*: the broker
redelivers (`acks_late`), any two tasks run at once, every write is a separate call, Telegram may
have taken a message whose reply is lost. *Correct if*: requeues are bounded, terminal intents stay
terminal, SENT means posted, what is given up leaves a dead letter, nothing waits for ever.
`Delivery`; what one task posts (snapshot, prompt, buttons, clip) is `AlertPost`.

**Notification: display of decisions and the Telegram poller** (`apply_decision_task`,
`claim_display`, `telegram/`). A lease keeps one poller at a time; presses are deduplicated and
forwarded to the API; a decision is claimed by `decided_at` and edited into the message later.
*Correct if*: no press is forwarded twice or left unanswered, and at rest the message shows the
decision. `Decisions`; the binding of an account to an operator is `TelegramLink`.

**Audit: log, checkpoints, retention** (`services/audit`). A hash chain in PostgreSQL, signed
checkpoints of its prefixes, and segments that replace old rows. *Hard*: appends under an advisory
lock, statements at READ COMMITTED, callers that retry, an operator who works in two transactions.
*Correct if*: the chain never forks or breaks, no event is stored twice, checkpoints and segments
account for what they cover, verification alarms only for what is broken. `AuditChain`, whose promise
is `AuditLog`. Queries and the record each leaves of itself: `AuditReads`. Keys and key ids:
`CheckpointKeys`. Erasure of an account, with the auth service and the operator's tools: `Erasure`.

**Audit outboxes** (API: `audit_service.py`, `audit_drain.py`, `audit_outbox_repository.py`; auth:
`services/audit_service.py`). The API's is a collection with leases and back-off, the auth service's
a table beside the accounts with `FOR UPDATE SKIP LOCKED` held over the send. *Correct if*: nothing
taken is lost, nothing is both logged and buried, every event leaves. `AuditOutbox`, `AuthOutbox`.

**API: alerts** (`usecases/alert_usecase.py`, `core/idempotency.py`, `core/cache.py`,
`repositories/alert_repository.py`). Create once under an idempotency key, dispatch with retries,
acknowledge, decide, delete, and delete the cached copies. *Hard*: replicas that die between two of
these calls, claims that lapse, a late fill of the cache, lists that change while they are walked.
`Alerts`, `Decisions`, `AlertPages`.

**API: entry, statistics, camera health, policy, migrations** (`core/rate_limit.py`, `core/deps.py`,
`usecases/stats_usecase.py`, `services/camera_reconcile.py`, `services/policy_sync.py`,
`migrations/runner.py`). `RequestGuard`, `StoreClock`, `EdgeStats`, `CameraHealth`, `PolicySync`,
`Migrations`.

**API: sockets** (`api/v1/streams.py`, `services/frame_stream.py`, `ws_revocation.py`). Alerts and
pictures go to browsers whose socket ends with its session. `Alerts` (copies), `FrameView` (pictures),
`Sessions` (the end of a socket).

**Auth** (`services/auth`). Refresh tokens that rotate, with a grace period and a reaction to reuse;
accounts, sessions, login and lockout, `VerifyToken` against the revocations in Redis, the idle sweep.
*Hard*: row locks taken in different orders, a revocation that must also reach Redis, checks whose
answer is stale when it is used. `RefreshRotation`, `Sessions`, `LoginThrottle`.

**AI service** (`services/ai`). Frames are scored one at a time under a lock, with a tracker for each
camera; items that vanish from a shelf raise verdicts, which are posted to the API; clips are written
while the alert is already under way. `Scoring`, `Concealment`, `AlertPost`. The models' numerics are
external.

**Cameras and detect gate** (`services/camera`, `services/detect-gate`). A capture thread that reopens
its device, two bounded queues, a debounced presence stream. `Capture`, `FrameFlow`, `Presence`.

**Web console** (`apps/web`). Live sockets that reconnect, pictures, refreshes in tabs and on the
server, lists and ranges. `LiveStream`, `FrameView`, `ConsoleAuth`, `AlertPages`, `StoreClock`.

**Processes and deployment**. Start, readiness and shutdown of six processes: `ServiceLife`. The
scripts for certificates and the local cluster: `Certificates`, `Cluster`. Compose, Helm, Terraform,
training: not modelled.

### How the components meet

* The API's outbox sends to the audit service. `AuditOutbox` does not know tables and locks: it uses
  `AuditLog` (`Service!AppendEvent`), and `AuditChain` is checked to implement the same `AuditLog`.
  The reasons for which the outbox sees an event rejected are those of the audit servicer.
* The API retries `SendAlert`: `Intake` makes one intent of it, `Delivery` allows several messages for
  one intent, `AlertPost` several tasks that post for one alert.
* `Decisions` has the console, the press, the API's write and the edit of the message in one module;
  which of the edits an intent permits is `AlertPost`.
* A session that ends in PostgreSQL is pushed to Redis: `RevokedIsPushed` is that interface as seen
  from the rotation, `EndedIsRefused` as seen from the API and its sockets. `ConsoleAuth` drives
  the rotation from the browser's side, with one step per transaction of `RefreshRotation`.
* `Presence` tells the AI service of `Scoring` which frames need the pose model; `PolicySync` what
  `Concealment` works with; `FrameFlow` what reaches it at all.

## 2. The modules

One step is what is atomic in the code: one MongoDB, Redis, broker or Telegram call, one SQL
statement, one move of a file, one run of a handler between two awaits. Everything else may happen
between two of them. A lost message, a failed call or a dead process is an action that spends one of
`MaxFaults`. Properties which the code only promises in calm weather say `faults = 0 =>` or name the
exception in a history variable; the others hold through faults.

| module | what it is |
| --- | --- |
| `Delivery` | the notification pipeline: intents, broker, gate, sweep, drain, dead letters |
| `Intake` | from requests and webhooks to intents, and from intents to the status shown |
| `AlertPost` | the messages of one alert in the chat, while clip and snapshot are being written |
| `Decisions` | from a decision in the console or a press to the edit of the message |
| `TelegramLink` | binding a Telegram account to an operator |
| `AuditLog` | abstract: a log that grows at its end and holds no event twice |
| `AuditChain` | the audit service over PostgreSQL |
| `AuditReads` | queries, each with a record of itself, and walks by page |
| `CheckpointKeys` | key files, key ids and what a process has read of them |
| `Erasure` | what the log still tells of a deleted account |
| `AuditOutbox`, `AuthOutbox` | the outboxes and their drains |
| `Alerts` | one alert in the API with its caches and copies |
| `AlertPages` | cursors, cached pages and the count |
| `RequestGuard` | verification, rate limit and permission of a request |
| `LoginThrottle` | the count of failed logins and the lock |
| `Sessions` | accounts, sessions, revocation and sockets |
| `RefreshRotation` | the refresh tokens of one session, statement by statement |
| `Migrations` | the runner and its lease |
| `ServiceLife` | six processes as they start, report and stop |
| `Certificates`, `Cluster` | the deployment scripts, run again after they died |
| `Scoring`, `Concealment` | frames in the AI service; what one camera knows of a shelf |
| `Presence`, `PolicySync`, `CameraHealth` | edges of the gate; policy versions; health of a camera |
| `Capture`, `FrameFlow`, `EdgeStats` | the capture thread; its queues; its reading on the console |
| `LiveStream`, `FrameView`, `ConsoleAuth` | the console's sockets, pictures and session |
| `StoreClock` | windows and buckets around a change of the clocks |
| `MCServices`, `MCEdge` | the harnesses for the runs `services` and `edge` (see section 3) |
| `ServiceParts` | the parts of `services` that theorems are about, with any constants |
| `MCSessions` | accounts with their sessions, beside the refresh tokens of one session |
| `DeliveryProofs`, `AuditOutboxProofs`, `AuditChainProofs`, `SessionsProofs`, `EdgeLemmas`, `EdgeProofs`, `ServicesLemmas`, `ServicesProofs` | the theorems |

Operators that no action uses, named for a mistake (`MarkSentForgotten`, `CursorOfTheNext`), are
mutations: the definition after such an operator can be replaced by it to see that a property
notices. No specification uses them.

**Delivery.** `status`, `requeues` and `aged` are the intent's `status`, `requeue_count` and
`updated_at`, the last reduced to what the reconciler asks of it: whether it lies before the cutoff.
A worker is a Celery process with `--pool=solo` and runs one task at a time; `pc` is the call it
makes next. `queue` counts messages by intent and `request.retries`. `Load` .. `WriteLetter` are
`_deliver`, `FindStale` .. `EndSweep` are `_reconcile`, `StartProbe` .. `EndDrain` are
`probe_gate_task`. The sweep keeps what it read (`found`, `doomed`) because the code decides on a
count it read earlier; `ripe` is what the filter of `mark_requeued` still accepts. When a worker
dies, Celery delivers its message again; when a call raises outside `autoretry_for`, the message is
gone: `Crash` has both outcomes. A message sent twice is merged beyond `MaxCopies`.

**Intake.** `recipient` is the server's `TELEGRAM_CHAT_ID` and `target` the workers', `had` the
recipients there have been, `taking` the requests at work, between the insert, the read after a
duplicate key and the enqueue; `intents` is the collection by `created_at`, `queued` the messages of
the broker. `doing` is what each worker does: it claims an intent, whoever else has claimed it, posts,
and records, each a step, and it may fail or die between two of them, or hear nothing of a post that
has arrived; the sweep may requeue an intent whose task is only slow. `again` notes the alerts over
which two tasks met, or of which a post was not recorded: these the code tells once more. The gate, the
dead letters, the retry count and the cutoffs are left to `Delivery`. `Migrated` says whether the unique
index exists; with `FALSE` a request may insert a second intent.

**AlertPost.** `clip` and `annotated` are the files as the AI service writes them, under a temporary
or under their final name; `task` is what a worker has posted in this attempt. `chat` is the
messages as they are, and `intent` what the code recorded of them (`telegram_snapshot`, `telegram`),
which is what later edits go by; `unread` is the kinds of message whose files the task could not read,
which are left out; `doubled` and `late` are history.

**Decisions.** `decided_at` is a count of the clock readings, taken before the write, so that writes
may come in another order. `edits` are the displays claimed and not yet in the chat. `muddled` notes
each reason for which the message may legitimately lag (an older edit overtaking, a lost notice),
so that `MessageShowsDecision` says that there is no other.

**AuditChain.** A hash is the sequence of the events hashed into it, so `chain = Append(prev, id)` is
the chain hash and equality of hashes is equality of histories. A session is a database connection:
it takes the advisory lock, reads, inserts and commits, each a step; `fresh` is the row other
transactions do not see yet, on which a unique index nevertheless makes them wait. `start` is `now()`
in PostgreSQL, the beginning of the transaction, which is what `persisted_at` gets. The operator's
two transactions are `ProposeSegment` and `SealAndDrop` with `candidate` between them. A verification
is two or three statements: `BeginVerify`, `ReadHead` or `ReadSegment`, `Walk`; `quiet` remembers
whether anything was sealed since it began. `Tick` lets no append live for two ticks, since
`lock_timeout` and `statement_timeout` are seconds and a tick is at least a day.

**AuditOutbox.** An event is in `emission` until the request that emits it has written it; then it is
a document in `pending` with `attempts`, `due` and `claimed`. `Claim`, `Send`, `Resolve` are one turn
of `_drain_once`; `seen` is the copy of `attempts` in the claimed document, which `_resolve` decides
on. `BuryInsert` and `BuryDelete` are the two writes of `bury`. A lease lapses by itself once nobody
uses it; under a drain still at work only by a fault, since the calls of a drain take a few seconds
of the 60. `AuthOutbox` has one transaction for the claim, the send and the resolution, and events
that commit with the change they are about.

**RefreshRotation.** Tokens are numbered in the order they are committed. A request presents any token
that was ever issued; `req` is what it has read, so that `next` may be stale when it is followed.
`held` are the row locks of its transaction, updates take effect at `Commit` or `KillFamily`, and a
deadlock ends as in PostgreSQL: one transaction of the cycle is rolled back (`AbortVictim`).
`unpunished` remembers that such a victim had detected a reuse.

**Sessions.** Every statement whose effect others can see is a step of a request; what a request listed
earlier (the live sessions of a user, the other administrators) stays as it was read. Redis holds
revocations with a lifetime; a socket is looked at when its session's channel speaks and at its
periodic check.

**Scoring and Concealment.** A call of `Analyze` goes through a pool of threads and one lock; `fed` is
the cameras whose frames each tracker has seen. `Concealment` has the frame as a
line of places: records follow the nearest box of their class, a hand near a record is a touch, and
the policy's times are ticks. What the code does not know is history in a record: the item whose box it
was given last (`of`), and whether a box of that item went to another record since (`left`).

**LiveStream, Capture, ConsoleAuth.** A socket that is closed tells the page one of the codes:
`Breaks` and `Severed` (1006), `ClosedInOrder` (1000), `Refused` (the others). `stamp` is the time of
the last attempt to touch the heartbeat file and `beat` the file's. A navigation to `"/"` is answered by
a redirect, which `Follows` takes up with the cookies of the browser.

**ServiceLife, Certificates, Cluster, Migrations.** Each is a program run step by step and cut off
anywhere: what a later run finds is what is on disk or in the database. Tables in `ServiceLife` give
for each process what its parts need, use and report (`Api`, `Auth`, ...) and the order in which it
stops (`ApiAfter`, ...); a key and its certificate are
numbers in `Certificates`, so a pair matches if the numbers do.

**StoreClock, AlertPages, RequestGuard, LoginThrottle.** The arithmetic is kept: the offset changes
once, hours are two units; cursors are pairs of stamp and `_id`; a bucket is the time at which it is
empty again; the expiry of a counter is the code's, with the two calls it takes.

The other modules follow the same pattern; their headers say what a step is.

## 3. The runs

| run | instance | question |
| --- | --- | --- |
| `delivery_production` | 2 workers, 1 alert sent twice, 1 fault, 1 outage, fair | do statuses, requeues and dead letters survive every interleaving, and does nothing wait for ever? |
| `delivery_stranded` | the same, no fault | finding 1 |
| `audit_retention` | 2 servers, operator, 3 events | does the chain hold together, does verification stay quiet, and is it the abstract log? |
| `audit_window` | 2 servers, operator, 4 events, two ticks | finding 2 |
| `outbox_drain` | 2 drains, 2 events and 1 marker, fair | is nothing lost, worked on twice or both logged and buried, and does all of it leave? |
| `rotation_race` | 2 requests, 4 tokens, 1 fault, in `MCSessions` | are dead sessions, replays and revocations handled right? |
| `rotation_deadlock` | 2 requests, no fault | finding 3 |
| `sessions_access` | 2 accounts, 2 sessions, 2 requests, 1 fault, fair | is an ended session refused everywhere, and does an administrator remain? |
| `services` | 24 small instances, see below | do the protocols around alerts, chat, entry, audit, processes and commands hold? |
| `edge` | 12 small instances, see below | do the protocols of gate, cameras and console hold? |
| `feed_parked` | one listener, one fault, fair | finding 4 |
| `resolved_swallowed` | one group, no fault, fair | finding 5 |

**The harnesses.** `MCServices` and `MCEdge` hold one instance of each module, or several with
different constants. The variable `part` is chosen at the start and never changes; the instance it
names takes the steps, the variables of the others rest in one initial state. A run of the harness
thus explores each instance by itself, as if each had a configuration of its own, and each property
of the harness is `part = ... =>` the properties of the instances that answer one question. The type
invariants (`TypeOK`) are conjuncts there. Fairness is that of the instance that runs. The instances
that theorems are about take their constants from the `.cfg`, so that the proofs cover any others
(`ServiceParts`, `EdgeLemmas`, `MCEdge`); those that TLC alone checks have theirs in the harness.
`MCSessions` holds two modules in the same way, with a specification for each: `AccessSpec` lets the
accounts go on while the tokens rest, `RotationSpec` the tokens while the accounts rest. The largest
runs are `rotation_race` (2.2 million states), `edge` (1.8) and `services` (1.0), each one to three
minutes with four workers.

| part | module | instance |
| --- | --- | --- |
| `posts` | `Alerts` | three posts under one key, a reader of the facets, 1 fault |
| `edits` | `Alerts` | a post with and one without a key, a reader of the list, 1 fault |
| `races` | `Decisions` | three decisions in the console, no fault |
| `presses` | `Decisions` | a console decision and a press, two pollers, 1 fault, fair |
| `strangers` | `Decisions` | two presses, one by an account that is not linked, two pollers, 1 fault |
| `links` | `TelegramLink` | three links, two operators, one account, 1 fault |
| `outbox` | `AuthOutbox` | two events, one with a digest, two replicas, 1 fault |
| `verdicts`, `tracks` | `Scoring` | two frames with a verdict each; three frames of two cameras; two threads |
| `posted`, `requeued` | `AlertPost` | one task, a retry, two decisions, 1 fault; two tasks and a decision |
| `servers` | `ServiceLife` | each of six processes by itself, 1 fault |
| `runs` | `Migrations` | two runners up, one down, three versions, 2 faults |
| `certs` | `Certificates` | each of three scripts, two leaves, five keys, 2 faults |
| `cluster` | `Cluster` | two nodes and the registry, 1 fault |
| `pages`, `counts` | `AlertPages` | three alerts by two rows with two changes; by one row with the count and one change |
| `requests` | `RequestGuard` | two clients of one account, each a page or a socket that is opened again and again |
| `throttle` | `LoginThrottle` | three logins, a limit of two |
| `signing` | `CheckpointKeys` | three pairs, three checkpoints, four changes of the files |
| `readings` | `AuditReads` | a writer and a reader, four sequence numbers, pages of one or two |
| `erasing` | `Erasure` | three events, two of them older than the column, two requests, 1 fault |
| `intake` | `Intake` | one alert asked for twice by two calls, two workers, one change of the chat, 1 fault |
| `single` | `Delivery` | one worker, two alerts of which one has no chat, no fault |
| `room` | `Presence` | a queue of two, four edges, 2 faults |
| `policy` | `PolicySync` | two administrators, two replicas, 2 faults, fair |
| `health` | `CameraHealth` | two replicas, four clock readings, 1 fault |
| `frames` | `FrameFlow` | four frames, both queues of two |
| `shelf`, `pair` | `Concealment` | two items of two classes; two of one class of which one is taken; one person, three places, wait 1, expiry 2 |
| `feed` | `LiveStream` | two listeners, two attempts, two timers, 2 faults |
| `view` | `FrameView` | two viewers, two failures of Redis, two attempts, 1 fault |
| `console` | `ConsoleAuth` | two tabs and a navigation, three tokens, 1 fault |
| `clock` | `StoreClock` | one alert, two days, the second with a change either way |
| `lens` | `Capture` | a device that stalls, or is taken away and put back |
| `stats` | `EdgeStats` | a camera that publishes three frames and may die |

### Bounds, and why they are enough

* *Delivery.* Two workers are what production runs; two tasks on one alert are what can interfere, and
  a second alert only matters for batches and for the unconfigured recipient, which `single`
  has. `MaxRetries = 1` gives a first and a last attempt, `MaxRequeues = 1` an intent that may be
  requeued and one that must be retired. `MaxCopies` and `MaxPosts` are 2 where a second copy can do
  harm. One fault and one outage combine with everything else; the gate is then raised, refreshed,
  lost and cleared. `DrainBatch = 1` reaches the full batch.
* *AuditChain.* Two servers and the operator give every pair of transactions. Three events are a segment
  of one or two, a survivor and an append in flight; the identity stops at `MaxSeq = 4`, which a
  rollback may spend a number of. `MaxClock = 2` with `Interval = Retention = 1` is the first moment at
  which rows are old enough to be sealed while fresh ones are appended. Verifications ask for the whole
  chain (0) or a range from the second row.
* *AuditOutbox.* `MaxPending = 1` overflows at the second event, so the marker is needed at once;
  `MaxUnknown = 1` lets a rejection that is not understood defer once and then give up; `MaxDead = 2`,
  one fault and one outage.
* *RefreshRotation.* Two requests race with each other and with every other end of the session.
  `MaxHops = 1` (3 in the code) reaches the end of the walk with four tokens: a replay whose
  successor was rotated, and again.
* *Sessions.* Two administrators are the fewest that can take each other away; the second session may be
  opened by either account while the first is revoked.
* *The parts of the harnesses.* Each has two of what interferes (requests, replicas, pollers, threads,
  tabs) and a third where a stale one has to meet two newer ones: three posts for a claim that lapses
  twice, three decisions for an edit that overtakes one and is overtaken, three runners so that one
  reverts while another takes over the lease, three logins for a limit of two. Queues hold two, so that
  they overflow with entries on both sides of the one that is dropped. One fault combines with every
  other step; two where the second may hit the repair of the first (migrations, certificates, streams
  that break). Clocks reach past each lifetime once and a bit.

Deadlock is not checked: with sends, faults, outages, clock and tokens bounded, each instance
legitimately comes to rest. That nothing gets stuck is the business of the liveness properties.

### Fairness

* *Delivery*: weak fairness of each worker's delivery, sweep and probe, since Celery workers and beat
  run for ever and restart when they die; of `Age`, since time passes; of `TelegramComesBack`. No
  fairness of senders, faults or outages. `WaitingIsResolved` needs no more.
* *AuditOutbox*: weak fairness of each drain's claim, send and resolution, since `run_drain` polls for
  ever and survives its exceptions; of `ComesDue` and `LeaseLapses`, which are time; of
  `AuditComesBack`.
* *Sessions*: for each session, weak fairness of the lapse of its token, of a socket's registration and
  of its periodic check; `DisabledLosesAccess` rests on them.
* *Decisions* (`presses`): of each poller's work and attempt at the lease, since `_poll` loops for ever;
  of the API's answer; of `LeaseLapses`, which is time.
* *PolicySync* (`policy`): of the sync loop of one replica only, and of the watcher.
* *Intake* (`resolved_swallowed`): of each call (`Serve`), each worker (`Deliver`) and each requeue, so
  that the counterexample is no server that merely stopped.
* *LiveStream* (`feed_parked`): of timers, handlers and answers, and of the network and the server
  coming back, so that the counterexample is no page that merely stopped. No fairness of the user.
* The other modules are checked for safety only.

### What the passing runs show

`delivery_production`: no intent is requeued beyond the limit although the count is stale when it is
compared (`RequeueBound`); SENT is never recorded of a prompt that is not in the chat
(`SentWasPosted`); a FAILED intent always has its retry (`FailedHasRetry`), a DEAD one its letter
(`DeadHasLetter`); a terminal intent is never reopened, only overwritten by an unconditional writer
that was already under way (`TerminalNeverReopened`); what waits is resolved (`WaitingIsResolved`).

`audit_retention`: chain, segments and checkpoints fit together (`ChainLinked`,
`CheckpointsBindTheChain`), and the service implements the abstract log with the hashed history as its
state (`ImplementsLog`): the latter rests on the limit on an event's age, without which a sealed event
could be appended again. `NoFalseAlarm`: only a sealing can make verification report an intact chain.

`outbox_drain`: `NothingIsLost` through any faults; `OneDrainPerEvent` and `DeadIsNotLogged` without;
`PendingIsSettled` under fairness. `rotation_race`: `GrantedWhileLive`, `ChainReachesLiveToken`,
`NoFalseReuse`, `RevokedIsPushed`. `sessions_access`: an ended session is refused from its push on, by
the API and by its sockets (`EndedIsRefused`); the exceptions of `AdminRemains` are in section 4.

`services`: an alert that is stored is accepted or marked, unless its replica died on it, and verdicts
that were raised are stored (`AlertIsAccounted`); copies are out of date only while a deletion is owed,
lost or late, and a walk through the pages misses and repeats nothing that was left alone
(`CopiesAreTrue`, which has the chat, three decisions that race and a stranger's press as well); at
rest the message shows the decision (`MessageShowsDecision`); presses are forwarded once and answered
(`PressedOnce`, `PressIsAnswered`); one link of an operator is good and a lock holds for its time
(`EntryIsGuarded`); events, checkpoints, reads and erasures (`AuditIsTrue`); nothing works with what is
closed, ready means ready, and requests are let in at the rate that is promised (`ServersKeepOrder`);
commands that died converge when they are run again (`RerunsConverge`). `NoticesArriveOnce`: what is
accepted is told once for each recipient, whatever is asked again, fails or dies before a post; only
where two tasks meet over an intent, or a post is not recorded, is it told more often. With one worker
and no fault an alert is posted once. `CopiesAreTrue` has the clip besides: an alert that was filmed
goes out without its clip only in a last attempt, when clip or cover cannot be read, or when the clip is
too large.

`edge`: `AbsentIsTrue`; `NeverGoesBack` and `PolicyIsApplied`; `NewestIsAnnounced`;
`FramesAreAccounted`, through both queues; `AlertsAreTrue`: an alert is raised only when the item it is
about is gone, or when a box of that item was given to the record of another, as happens to items of
one class side by side; alerts are then counted once, in the days that were asked for. `FeedIsDriven`:
a channel somebody listens to is connected, going to be, or stopped, and rests only after a close in
order or a diagnosis that parked it; besides, the numbers and the pace of the capture, and a heartbeat
that is tried within a second of the last frame. `ViewIsTrue`, with the figures of a camera;
`ConsoleStaysIn`: the console's own renewals are no reuse unless an answer was lost, slow or overtaken,
or dropped by the redirect of `"/"` and not made up for by the next.

## 4. Findings

Each has a run that is expected to find the violation.

1. **A held alert is stranded** (`delivery_stranded`, `ArrivesOrIsRecorded`;
   `worker/tasks.py:188`). A task finds the gate raised, the probe clears it and drains, and only then
   the task marks its intent BUFFERED. The gate is down, so the probe does nothing any more, and the
   reconciler does not look at BUFFERED. The alert is neither sent nor dead-lettered until another
   outage, whereas `README.md:264` promises that it "either arrives or leaves an inspectable record".
   A drain that stops at its batch size (`tasks.py:509`) strands the rest in the same way.
2. **Retention stops** (`audit_window`, `CandidateCoversItsRange`; `retention.py:97`). `persisted_at`
   is the start of the transaction and the sequence number is taken after the wait for the lock, so
   time may run backwards along the chain. A window chosen by time and deleted by range then has the
   wrong number of rows; `seal_and_drop` refuses it, and the next call proposes it again.
3. **A reuse goes unpunished** (`rotation_deadlock`, `ReuseEndsTheSession`; `auth.py:149`). A rotation
   locks the session and then a token, the reaction to a reuse locks the tokens and then the session.
   When PostgreSQL aborts the latter, nothing repeats it and the session lives on.
4. **A feed stays parked** (`feed_parked`, `FeedComesBack`; `manager.ts:147`). A channel whose diagnosis
   gets no answer waits for reachability to change; when the network was found to be there meanwhile,
   nothing wakes it.
5. **The end of an alarm is not told** (`resolved_swallowed`, `ResolvedIsTold`; `webhooks.py:93`). The
   webhook that resolves a group has the natural key of the one that fired it, finds that intent and is
   answered without a message, whereas `docs/07-observability.md:832` says the chat is told. The
   repeats every four hours are swallowed in the same way.

### Met while modelling, without a run

Nothing in the repository promises the contrary, or the cause lies outside what is modelled.

*Notification.* `mark_sending` refuses only terminal statuses, so with two workers an alert may be
posted twice, and what one has recorded, SENT or DEAD, overwritten by the other (`Intake`'s `again`). A
clip or a cover that cannot be read is left out of an alert, which is then SENT. No deployment runs the
notification migrations (`values.yaml` and Compose run those of the backend), so that the natural key is
not unique there and two requests may insert two intents: `Migrated = FALSE`. Workers send to the chat
of their own settings, not to the intent's recipient, so after a change of `TELEGRAM_CHAT_ID` an old
intent goes to the new chat and a resend makes another. The webhook's token is cached for ever, an empty
one included. The AI service writes the annotated snapshot under its final name: a worker may post half
of it, and the alert ends DEAD. Two tasks that load an intent before they claim it post its snapshot
twice. A decision made before the prompt was posted is shown only at the next press; one that is taken
back is stamped with the time of the notice, and its message can stay at "undecided"; an older edit may
land after a newer one. If Redis fails in `_first_time`, the press is dropped (`main.py:110`).

*Audit.* `checkpoint_loop` is never started by `audit/app/main.py`, so as deployed segments are sealed
without a checkpoint until somebody runs it. A segment sealed between the statements of a
verification makes an intact chain look broken. Each query appends a record, so a walk by pages of one
over the whole log never ends. `check_append_rate` counts and sets the expiry in two calls. Keys can be
rotated safely only while the service is down, under a new id and with the old public key kept; a
process that started without a private key stays verify-only.

*Erasure.* The 503 of `delete_user` says that nothing was deleted, though the audit service may have
erased after the deadline, and the retry then reports no records. Events in an outbox stay readable.
The operator's tool erases by actor only, and erased rows keep actor and subjects. Events that need the
pseudonym key are dropped where it is missing.

*API outbox.* Every event shed by a full outbox adds a marker, so the outbox has no bound; the attempts
that lead to a burial include those that never reached the service.

*API.* A create that dies after the insert leaves an alert neither sent nor `dispatch_failed`. A late
fill of the cache is out of date up to its TTL. Decided alerts move to the top while they are walked;
alerts without `created_at` end the walk. A bucket lets burst and window through in its first window;
a failure of Redis answers 429. Analytics take a day's start by the offset at noon, so on the day of
the change its first hour is left out or counted in another bucket; the history's "today" is that of
UTC; a range with one end is clamped silently; `undecided` subtracts numbers of two windows; the seven
counts of the overview are not taken at once. The runner of migrations, killed between a change and
its record, leaves a "down" with nothing to do.

*Auth.* A replay within the grace period kills the session once the token has more than
`_MAX_SUCCESSOR_HOPS` successors (`NoFalseReuse` is stated around that); four renewals of the console
at once reach it. Two requests that take away one administrator each leave none (`users.py:60`). A login
that succeeds deletes a lock that fell meanwhile, and logins under way at once pass the limit by their
number.

*Processes.* Audit, auth and notification may report ready before their gRPC server has started; auth
and notification stay ready when their HTTP server has died; the API stays ready while uvicorn no
longer accepts. The notification service closes MongoDB under its HTTP server when gRPC fails to start;
the gate closes its detector under a detection; three loops close their client before they are
cancelled.

*AI, cameras, gate.* A call cancelled at its deadline loses the verdicts it has raised; `_reset` clears
whoever's token. `tracker_store` reads the oldest entries of its window, track ids restart with the
service while their keys live on, and `drop_track` is never called. `missing_frames` goes negative when
a device is reopened; of two items of a class the nearer record may be the wrong one, so that with
nobody's item gone the record left behind raises an alert, and a loss while muted is never reported.
`_holder_present` refuses nothing that `_hand_on_spot` has not refused. A heartbeat whose touch fails is
not tried again for a second (`loop.py:112`). `stop` of the capture times out while the thread waits to
reopen the device, which it then does. Event ids of the gate start again with it, so an edge may be
dropped as a duplicate (`docs/11-detect-gate.md` calls them unique); an edge lost with its stream is not
sent again; unknown to absent is announced, which the document calls silent. The latency of a camera's
last calls is shown for as long as no newer call ends.

*Console.* The hooks for alerts and cameras do not refetch after a reconnect, and that for alerts
ignores "decided"; a late diagnosis can park an open socket. A viewer dropped for a slow send, and
every refusal before the socket is accepted, come with codes the page does not look for; an offline
camera is silent, so its watchdog reconnects for ever. A close with code 1000 leaves a channel idle with
no timer, whoever listens (`manager.ts:205`); the server sends it when it stops
(`broadcast_service.py:65`), so that a restart may end the feed of an open page until reachability
changes.
An overtaken `Set-Cookie` puts an older token back; the redirect of `"/"` drops the cookies it has
renewed (`proxy.ts:170`), so that the next request presents a token that was rotated; the proxy's
timeout leads to a login though the token was rotated.

*Scripts.* A run that dies between moving a certificate and its key leaves a pair that a plain run takes
for valid; one that has made the authority of the edge leaves the old leaf; a services authority
renewed near its end leaves leaves of the old one; half a mesh root is refused for ever. A `pin_ip` that
dies between disconnect and connect leaves a container without an address and `start` refuses;
`release_moved` powers off a node without draining it; the control plane is uncordoned before ztunnel is
ready. The invariants of `Certificates` and `Cluster` are stated for the thorough run, and around these.

## 5. The proofs

TLAPS proves for all values of the constants what TLC checks for the instances above, under the named
assumptions alone (`DeliveryAssumption`, `OutboxAssumption` and so on; those of the instances are
gathered in `FamilyAssumption`, `CameraAssumption`, `EdgeAssumption` and `ServicesAssumption`), which
say that the constants are of their types, that batches and caps are positive, and that `None` is none
of the values it stands beside; `AuditChain` needs `Backdate < Retention` besides, and `Certificates`
that no leaf is called like the authority, `"ca"`. TLC evaluates them in every run, and the
inductive invariants were model-checked before they were proved.

**DeliveryProofs.** `TypeCorrect` is proved first and used by all others.
`RequeuesAreBounded`: that `requeues[i] <= MaxRequeues` is not inductive, because a sweep raises the
count on the strength of an old read. `SweepInv` adds why it may: what a sweep still holds as ripe and
not doomed is below the limit *now*, since whoever raises the count also writes `updated_at` and so
ends ripeness everywhere. `NothingIsSentUnposted` adds that a worker at `posted` has posted
(`PostedInv`). `DeadLettersAreWritten` and `FailedIsRetried` follow each intent from one write to the
next; the latter needs that a worker at `failed` has a retry left (`RetryInv`), which is the agreement
of `final_attempt` with Celery's own `max_retries`. `TerminalStays` is the action property, step by
step. `OneWorkerPostsOnce` has a hypothesis of its own, that any two workers are the same: what a
worker has read is then as it was found when it writes (`OnceInv`, until a fault). `MCServices` has the
module as its instance `Single`, with one worker.

**AuditOutboxProofs.** `EventsAreKept`: an event is deleted from the outbox in two places only, and
`Accounted` carries the justification to them: a drain that was told "accepted" has its event in the
log, one in the middle of a burial has written the dead letter. `DrainsAreExclusive` and
`DeadLettersAreNotLogged` share `Calm`, which describes fault-free states: at most one drain per
event, each with its claim, an event logged or buried only at the stage of its drain that implies it.

**AuditChainProofs.** `TypeCorrect`, `OneChain` (`ChainLinked`), `CheckpointsBind`
(`CheckpointsBindTheChain`), `AlarmsAreTrue` (`NoFalseAlarm`) and the refinement of the abstract log,
`ServiceImplementsLog` (`Spec => ImplementsLog`), all from one invariant: the rows from the last
segment on are the chain, each row's hash is its predecessor's with its event appended (`RowsInv`);
segments adjoin (`SegmentsInv`); every checkpoint signs what was the tail (`CheckpointsInv`); what a
transaction that holds the lock has read still holds (`Holding`); what a verification under way
expects is still in the chain unless something was sealed (`Verifying`). That no event comes twice is
the part which needs time: a dropped row is older than `Retention` and an event is refused when it is
older than `Backdate`, so the assumption `Backdate < Retention` (7 days and 365 in the code) makes an
event whose row is gone one that no caller can append (`EventsInv`). The numbers of rows that a
candidate counts are a statement on cardinalities (`CandidateInv`). Each step has a lemma; what leaves
the chain as it was is proved once (`Kept`).

**SessionsProofs.** `RevocationHolds` (`EndedIsRefused`) and `GuardHolds` (`AdminRemains`). For the
first, `JobsInv` says what a request is about at each of its steps and `IdleInv` that only a session
which was opened can grow idle: a session that ends is then pushed by a request that knows it, or was
lost in one of the named ways. For the second, `GuardInv`: once a request has passed the
last-administrator guard, somebody other than its target is an active administrator, until a race
between two requests has been noted in `raced`. The rotation is the instance `Rotation`, whose
`RotationInv` gives five theorems: types, locks that no two transactions share, what each request
remembers (`SoundRequest`), links that lead to younger tokens (`Linked`), and the push. The step that
needs an argument is `Commit`, which overwrites `replaced_by` of a token that another request may have
rotated meanwhile: the new successor is younger still. `NoFalseReuse` counts: each hop leads to a
strictly younger token, so that a walk which exhausts `MaxHops` has passed that many tokens.
`RotationRuns` carries the invariant to `RotationSpec`, in which the accounts rest.

**EdgeLemmas and EdgeProofs.** Nine modules of the gate, the cameras, the policy and the console are
instances of `EdgeLemmas` (channel, view, capture, statistics) and of `MCEdge` (the others), with any
constants that keep their assumptions. Each is proved by itself (`FeedHolds`, `ViewHolds`,
`CaptureHolds`, `StatsHolds`; `HealthHolds`, `PolicyGoesForward`, `PresenceHolds`, `FlowHolds`,
`ConsoleHolds`), and the specification of the run implies that of each, because an instance whose turn
it is not rests (`EdgeInstances`); so seven properties of the run follow. `NewestObservationWins`: an
observation that is published is newer than the key, or than all others if there is no key.
`PolicyNeverGoesBack`, an action property: every version that is anywhere is in MongoDB, and there are
never more of them than requests that wrote one. `AbsenceIsTrue`: while the gate sees somebody, the
last edge on its way says so (`AbsentInv`). `FramesAreCounted`: that the publisher never sends an older
frame after a newer one needs that its queue is in the order of capture (`OrderInv`); the sums of the
property itself then bound the counters. `ConsoleKeepsIn`: while the session is live and nothing was
behind, the newest token is in the cookies, in an answer on its way to them, or in a redirect that is
about to be followed (`NewestIsKept`), and every token on its
way is within the grace period (`YoungInv`), so that a token which the service does not follow had too
many successors; and while nothing failed, a tab sends the CSRF token it has read and no answer is a
refusal (`HeaderInv`). `FeedStaysDriven`: the functions of `manager.ts` are applied to one value, the
page, and each keeps it sound and driven (`ChannelInv`), whichever calls which; a check of the network
goes on while it misses one that is there (`CheckInv`). A frame of the device is read with a tick of
its own (`NumberInv`), the numbers start again with a session (`SessionInv`), the deadline is never
before a frame and the intervals since (`DeadlineInv`), and a thread that pushed a frame too many reads
no other (`LateInv`). `ViewStaysTrue`: a pump writes only to an open socket (`SocketInv`), so that what
it told last is shown or is the last of its kind on the way (`ToldInv`); a page that is not shown has
nothing left to do (`PageInv`); a reading covers time that has passed, and a key expires a `Ttl` after
the process that wrote it at the latest (`StatsInv`).

**ServicesLemmas and ServicesProofs.** `ServiceParts` declares thirteen parts of `services` with any
constants that keep `ServicesAssumption`. `ServicesLemmas` proves the inductive invariant of each part
by itself, `ServicesProofs` those of the processes and of the requests; `ServicesSteps` says that a step
of the run is a step or a stutter of each part, which carries the results to the run.

`DecisionIsShown` and `PressIsForwardedOnce` (`DecisionsInv`) have four parts. A press that a poller has
in hand was seen before and not answered, and nobody else has it (`PollShape`). A decider reads the
clock twice at most, so that the clock stays within the module's bound (`ApiShape`). Whatever carries
one time carries one value, and the time of a decision that is not written yet is still free
(`TimesInv`). And unless one of the reasons in `muddled` has occurred, the latest decision is still to
be told, or on its way to the chat, or shown (`LatestInv`); when nothing is under way only the last is
left. The parts `races` and `strangers`, which have other constants, are covered by `DecisionsHold`,
though not by these two.

`EntryStaysGuarded`: what is good is being issued, or is the owner's, or was so before a link that is
being revoked (`LinksInv`); once the limit is reached, the failures and the logins still at the password
are fewer than the limit and the number of logins together (`ThrottleInv`).

`AuditStaysTrue`: a row that is held is due and not dead, its drain knows whether the event is in the
log, and unless something failed a row whose event is there is about to be deleted (`OutboxInv`); every
checkpoint was signed with the pair of its id, whose public key is kept (`KeysInv`); the lock is held
from before a row is numbered until it is committed, so that rows become visible in the order of their
numbers and a page leaves out nothing that its walk passes (`ReadsInv`); what an erasure leaves is
counted by the request that had it done (`ErasureInv`).

`RerunsStayRight`: unless the lease was usurped, a runner at work holds it, the versions recorded are
the first ones, and schema and record differ only where a runner is between the two or was killed there
(`MigrationsInv`); what is moved is a pair again before a run goes on, and a thorough run has healed
every leaf it does not have left (`CertsInv`); a container that is up is at its pin, what has none is
noted by the command or in its file, and a node that is off is cordoned and empty (`ClusterInv`).

`NoticesStayOne` (`IntakeInv`): a request that is to be answered has its intent, one that was refused by
the index finds one, and the key of an intent is its own. What a worker does is about an intent
(`WorkFits`), and unless two tasks met over it, it is the only one and the intent is not done
(`WorkAlone`). The messages of a source are then at most as many as its intents that were sent, or were
posted and are about to be recorded (`Told`). What is shown is the worst because intents are only added
and the terminal ones stay. The other half is `OneWorkerPostsOnce`.

`ServersStayInOrder`: what was started had what it needs, what is stopped was stopped after what works
with it, and what a fault left behind has ended (`LifeInv`); whoever passed since a time has put off the
bucket by a period, so that a burst and a window bound their number, and who was told to come back finds
room at that time unless somebody passed in between (`GuardInv`). The products of numbers and periods
are kept from the solver by lemmas on whole numbers.

The proofs turned up slips that TLC had passed over: in five modules a conjunct `A /\ B => C` of
`TypeOK` was read as `(A /\ B) => C`, so that the `A` was not asserted. They have parentheses now.

**Model-checked only.** Liveness (`WaitingIsResolved`, `PendingIsSettled`, `PolicyIsApplied`,
`PressIsAnswered`, `DisabledLosesAccess`): it needs fairness and `ENABLED`, which are out of the
prover's reach. `AlertIsAccounted` and `CopiesAreTrue`, that is `Alerts`, `Scoring`, `AlertPost` and
`AlertPages`, whose instances have fixed constants. `AlertsAreTrue`: the assignment of records to boxes
in `Concealment` is a fold, so that a proof would be an induction over data, and `StoreClock` is
arithmetic with remainders and counts of sets. No module has a `RECURSIVE` operator. The findings are
counterexamples and need no proof.

## 6. Plan

What is left, most important first:

1. Proofs of the modules that only the harnesses check: `Alerts` and `Scoring` (`AlertIsAccounted`),
   then `AlertPost` and `AlertPages` (`CopiesAreTrue`).
2. Refinements: the workers of `Intake` are those of `Delivery` without gate, dead letters and
   timeouts; that `Delivery` implements them is neither stated nor proved. The same holds for the step
   which `ConsoleAuth` makes of a transaction of `RefreshRotation`.
3. The parts listed in section 7 that hold state: the rate limit of appends, the retries of the
   broadcaster's subscription, listing and purging of dead letters.

## 7. Not modelled, and why

What the networks compute, image processing and the detector of persons (numerical); metrics,
traces, TLS identities and configuration (no protocol state); forms, floor plan and layout of the
console; the wording of messages and the byte formats of hashes; signatures, which are taken to
hold; the rate limit of appends and the checks of a request's fields; listing and purging of dead
letters; the backoff between polls; what each version of the migrations changes; the counts of the
overview other than those of alerts; CSRF but for that of the refresh, and the table of permissions;
the grants of the database roles and the permissions of key files; the detections a camera
republishes and the stored tracks of `tracker_store`, which no decision reads. The audit harness,
the notebooks, the measuring tools and generated gRPC code hold no state of the running system;
Compose, Helm, Terraform and the other scripts are declarations.
