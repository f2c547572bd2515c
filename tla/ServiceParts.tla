---------------------------- MODULE ServiceParts ----------------------------
(***************************************************************************)
(* The parts of the services that theorems are about, side by side, each   *)
(* with any constants that keep its assumptions. MCServices adds the parts *)
(* that TLC alone checks.                                                  *)
(***************************************************************************)
EXTENDS Naturals

CONSTANTS
  None,
  MaxFaults,                                     \* of the decisions and the links
  Console, Press, Linked, Poller,                \* of the decisions
  User, Account, Link, For(_),                   \* of the links
  Login, Limit, Window, Block, MaxTime,          \* of the logins
  OutboxEvents, Hashed, Drainer, MaxUnknown, OutboxFaults,     \* of the outbox
  Pair, MaxCheckpoints, MaxSwaps,                \* of the keys
  Writer, Reader, Asked, DefaultSize, MaxSize, MaxSeq,         \* of the reads
  NamedEvents, Legacy, ByActor, Admin, Batch, ErasureFaults,   \* of the erasure
  Runner, Reverting, Versions, MigrationFaults,  \* of the migrations
  Script, Leaf, Chowned, Only, MaxKeys, CertificateFaults,     \* of the certificates
  Control, Worker, Registry, ClusterFaults,      \* of the cluster
  Alert, Group, Call, Tasker, Chat, Unset, Migrated, MaxAsks, MaxMoves, IntakeFaults,  \* of intake
  Service, LifeFaults,                           \* of the processes
  Client, Burst, Period, Second, GuardTime       \* of the requests

VARIABLES
  clock, decision, dpc, ask, notices, edits, shownAt, message, updates, seen, lease, poller,
  batch, offset, answered, last, muddled, dfaults,
  active, issued, previous, good, owner, starts, sender, bound, stray, lfaults,
  second, failures, expires, loginAt, owes, early, failedAt, tripped, odd,
  change, rows, attempts, due, dead, log, rejects, job, ofaults, harmed,
  private, public, named, setting, activeId, signer, loaded, ring, checkpoints, verified,
  swaps,
  events, nextSeq, chainLock, sessionAt, inserted, page, full, pageToken, filter, shown,
  through, ahead,
  waiting, stock, payload, subjects, account, deleteAt, erased, missed, left, reported,
  twice, tool, filling, efaults,
  mlock, mexpired, mpc, plan, schema, applied, mtorn, usurped, mfaults,
  script, ca, leaf, rootCopy, given, aged, run, keys, ended, ctorn, strewn, cfaults,
  joined, pin, addr, file, other, cordon, net, work, cmd, held, clusterReady, severed,
  mixed, abrupt, kfaults,
  recipient, destination, had, taking, intents, queued, doing, again, asked, heard, notice,
  posts, viewed, moves, mishaps,
  service, up, busy, signal, look, ready, leftover, lifeFaults,
  sockets, instant, buckets, standing, wayAt, answer, passed, told, misled

Presses == INSTANCE Decisions WITH pc <- dpc, faults <- dfaults

Links == INSTANCE TelegramLink WITH faults <- lfaults

Throttle == INSTANCE LoginThrottle
  WITH now <- second, count <- failures, until <- expires, at <- loginAt, last <- failedAt

Outbox == INSTANCE AuthOutbox
  WITH Events <- OutboxEvents, MaxFaults <- OutboxFaults, faults <- ofaults

Signing == INSTANCE CheckpointKeys
  WITH MaxChanges <- MaxSwaps, active <- activeId, reply <- verified, changes <- swaps

Readings == INSTANCE AuditReads
  WITH rows <- events, next <- nextSeq, lock <- chainLock, pc <- sessionAt,
       token <- pageToken, seen <- shown

Erasing == INSTANCE Erasure
  WITH Events <- NamedEvents, MaxFaults <- ErasureFaults, rows <- stock, at <- deleteAt,
       faults <- efaults

Runs == INSTANCE Migrations
  WITH MaxFaults <- MigrationFaults, lock <- mlock, expired <- mexpired, pc <- mpc, torn <- mtorn,
       faults <- mfaults

Certified == INSTANCE Certificates
  WITH MaxFaults <- CertificateFaults, copy <- rootCopy, torn <- ctorn, faults <- cfaults

Kind == INSTANCE Cluster
  WITH MaxFaults <- ClusterFaults, ready <- clusterReady, faults <- kfaults

Taking == INSTANCE Intake
  WITH Worker <- Tasker, MaxFaults <- IntakeFaults, target <- destination

Servers == INSTANCE ServiceLife
  WITH MaxFaults <- LifeFaults, stray <- leftover, faults <- lifeFaults

Requests == INSTANCE RequestGuard
  WITH MaxTime <- GuardTime, now <- instant, key <- buckets, session <- standing, at <- wayAt

decisions == <<clock, decision, dpc, ask, notices, edits, shownAt, message, updates, seen, lease,
               poller, batch, offset, answered, last, muddled, dfaults>>
links     == <<active, issued, previous, good, owner, starts, sender, bound, stray, lfaults>>
throttle  == <<second, failures, expires, loginAt, owes, early, failedAt, tripped, odd>>
outbox    == <<change, rows, attempts, due, dead, log, rejects, job, ofaults, harmed>>
signing   == <<private, public, named, setting, activeId, signer, loaded, ring, checkpoints,
               verified, swaps>>
readings  == <<events, nextSeq, chainLock, sessionAt, inserted, page, full, pageToken, filter,
               shown, through, ahead>>
erasing   == <<waiting, stock, payload, subjects, account, deleteAt, erased, missed, left,
               reported, twice, tool, filling, efaults>>
versions  == <<mlock, mexpired, mpc, plan, schema, applied, mtorn, usurped, mfaults>>
pki       == <<script, ca, leaf, rootCopy, given, aged, run, keys, ended, ctorn, strewn, cfaults>>
containers == <<joined, pin, addr, file, other, cordon, net, work, cmd, held, clusterReady,
                severed, mixed, abrupt, kfaults>>
intake    == <<recipient, destination, had, taking, intents, queued, doing, again, asked, heard,
               notice, posts, viewed, moves, mishaps>>
processes == <<service, up, busy, signal, look, ready, leftover, lifeFaults>>
requests  == <<sockets, instant, buckets, standing, wayAt, answer, passed, told, misled>>

ASSUME ServicesAssumption ==
  /\ Presses!DecisionsAssumption /\ Links!TelegramLinkAssumption
  /\ Throttle!LoginThrottleAssumption
  /\ Outbox!AuthOutboxAssumption /\ Signing!CheckpointKeysAssumption
  /\ Readings!AuditReadsAssumption /\ Erasing!ErasureAssumption
  /\ Runs!MigrationsAssumption /\ Certified!CertificatesAssumption /\ Kind!ClusterAssumption
  /\ Taking!IntakeAssumption /\ Servers!ServiceLifeAssumption /\ Requests!RequestGuardAssumption
=============================================================================
