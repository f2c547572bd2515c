---------------------------- MODULE AuditOutbox ----------------------------
(***************************************************************************)
(* The outbox in which the API keeps audit events until the audit service  *)
(* has taken them: requests that emit events, and the drains of the API's  *)
(* replicas, each of which claims an event under a lease, sends it and     *)
(* releases, defers or buries it.                                          *)
(*                                                                         *)
(* Every MongoDB call and every call to the audit service is one step.     *)
(* The audit service is the log it implements (AuditChain).                *)
(***************************************************************************)
EXTENDS Naturals, Sequences, FiniteSets

CONSTANTS
  Event,        \* events the API emits, each with an event_id of its own
  Marker,       \* the events among them that only say that others were shed
  Unsupported,  \* those whose schema_version the audit service does not accept
  Drainer,      \* one run_drain per API replica
  None,         \* no event
  MaxPending,   \* AUDIT_OUTBOX_MAX_PENDING
  MaxUnknown,   \* _MAX_UNKNOWN_STATUS_ATTEMPTS
  MaxDead,      \* bound: further dead letters of the same event are not counted
  MaxFaults,    \* bound: crashes, failed calls, lost replies, lapses of a lease in use
  MaxOutages    \* bound: times the audit service becomes unreachable

ASSUME OutboxAssumption ==
  /\ Marker \subseteq Event /\ Unsupported \subseteq Event /\ None \notin Event
  /\ MaxPending \in Nat
  /\ MaxUnknown \in Nat \ {0} /\ MaxDead \in Nat \ {0}
  /\ MaxFaults \in Nat /\ MaxOutages \in Nat

VARIABLES
  emission,  \* how far the request that emits an event is
  pending,   \* audit_outbox
  attempts,  \* its field attempts, up to MaxUnknown
  due,       \* events whose next_attempt_at has come
  claimed,   \* events whose claimed_at is set and within the lease
  dead,      \* audit_outbox_dead: how many documents there are of an event
  old,       \* events the audit service would reject for their age
  log,       \* the audit log
  pc,        \* where each drain is
  job,       \* the event it has claimed
  seen,      \* pending.attempts as it was when the event was claimed
  outcome,   \* the SendOutcome
  up,        \* the audit service is reachable
  faults,
  outages

entry == <<pending, attempts, due, claimed>>
drain == <<pc, job, seen, outcome>>
vars  == <<emission, pending, attempts, due, claimed, dead, old, log, pc, job, seen,
           outcome, up, faults, outages>>

Outcome == {"none", "unreachable", "accepted", "rejected", "limited"}

TypeOK ==
  /\ emission \in [Event -> {"none", "room", "full", "kept", "dropped"}]
  /\ pending \subseteq Event
  /\ attempts \in [Event -> 0..MaxUnknown]
  /\ due \subseteq pending
  /\ claimed \subseteq pending
  /\ dead \in [Event -> 0..MaxDead]
  /\ old \subseteq Event
  /\ log \in Seq(Event)
  /\ pc \in [Drainer -> {"idle", "send", "resolve", "bury"}]
  /\ job \in [Drainer -> Event \cup {None}]
  /\ \A d \in Drainer : pc[d] # "idle" => job[d] \in Event
  /\ seen \in [Drainer -> 0..MaxUnknown]
  /\ outcome \in [Drainer -> Outcome]
  /\ up \in BOOLEAN
  /\ faults \in 0..MaxFaults
  /\ outages \in 0..MaxOutages

Init ==
  /\ emission = [e \in Event |-> "none"]
  /\ pending = {} /\ due = {} /\ claimed = {}
  /\ attempts = [e \in Event |-> 0]
  /\ dead = [e \in Event |-> 0]
  /\ old = {}
  /\ log = <<>>
  /\ pc = [d \in Drainer |-> "idle"]
  /\ job = [d \in Drainer |-> None]
  /\ seen = [d \in Drainer |-> 0]
  /\ outcome = [d \in Drainer |-> "none"]
  /\ up = TRUE
  /\ faults = 0
  /\ outages = 0

Logged(e) == \E n \in DOMAIN log : log[n] = e

UpTo(n, cap) == IF n <= cap THEN n ELSE cap

Fault == faults < MaxFaults /\ faults' = faults + 1

-----------------------------------------------------------------------------
(* AuditClient._enqueue *)

\* pending_count, and its comparison with the limit.
Count(e) ==
  /\ e \notin Marker
  /\ emission[e] = "none"
  /\ emission' = [emission EXCEPT ![e] =
                    IF Cardinality(pending) >= MaxPending THEN "full" ELSE "room"]
  /\ UNCHANGED <<entry, dead, old, log, drain, up, faults, outages>>

\* The new document of an event that is sent as soon as a drain finds it.
Insert(e) ==
  /\ pending' = pending \cup {e}
  /\ due' = due \cup {e}
  /\ UNCHANGED <<attempts, claimed>>

Enqueue(e) ==
  /\ emission[e] = "room"
  /\ Insert(e)
  /\ emission' = [emission EXCEPT ![e] = "kept"]
  /\ UNCHANGED <<dead, old, log, drain, up, faults, outages>>

\* _shed: the event is dropped and a marker takes its place, whatever the count is.
Shed(e) ==
  /\ emission[e] = "full"
  /\ \E m \in Marker :
       /\ emission[m] = "none"
       /\ Insert(m)
       /\ emission' = [emission EXCEPT ![e] = "dropped", ![m] = "kept"]
  /\ UNCHANGED <<dead, old, log, drain, up, faults, outages>>

\* The request dies or the outbox cannot be written: "audit event lost".
EmitFails(e) ==
  /\ emission[e] \in {"room", "full"}
  /\ Fault
  /\ emission' = [emission EXCEPT ![e] = "dropped"]
  /\ UNCHANGED <<entry, dead, old, log, drain, up, outages>>

-----------------------------------------------------------------------------
(* _drain_once *)

Rest(d) ==
  /\ pc' = [pc EXCEPT ![d] = "idle"]
  /\ job' = [job EXCEPT ![d] = None]
  /\ seen' = [seen EXCEPT ![d] = 0]
  /\ outcome' = [outcome EXCEPT ![d] = "none"]

\* Bug: the claim does not look at claimed_at.
ClaimableAnyTime(e) == e \in pending \cap due

\* The filter of claim.
Claimable(e) == e \in (pending \cap due) \ claimed

\* claim, by next_attempt_at: any event that is due may be the first.
Claim(d) ==
  /\ pc[d] = "idle"
  /\ \E e \in Event :
       /\ Claimable(e)
       /\ claimed' = claimed \cup {e}
       /\ job' = [job EXCEPT ![d] = e]
       /\ seen' = [seen EXCEPT ![d] = attempts[e]]
  /\ pc' = [pc EXCEPT ![d] = "send"]
  /\ UNCHANGED <<emission, pending, attempts, due, dead, old, log, outcome, up,
                 faults, outages>>

\* AppendEvent on the other side: the age and the schema are looked at before the event
\* is looked up, so that even a stored event can be rejected.
Acceptable(e) == e \notin old /\ e \notin Unsupported

Service == INSTANCE AuditLog

Store(e) == IF Logged(e) THEN UNCHANGED log ELSE Service!AppendEvent(e)

Answered(d, o) ==
  /\ pc[d] = "send"
  /\ pc' = [pc EXCEPT ![d] = "resolve"]
  /\ outcome' = [outcome EXCEPT ![d] = o]
  /\ UNCHANGED <<emission, entry, dead, old, job, seen, up, outages>>

Accepted(d) ==
  /\ Answered(d, "accepted")
  /\ up /\ Acceptable(job[d])
  /\ Store(job[d])
  /\ UNCHANGED faults

Rejected(d) ==
  /\ Answered(d, "rejected")
  /\ up /\ ~Acceptable(job[d])
  /\ UNCHANGED <<log, faults>>

RateLimited(d) ==
  /\ Answered(d, "limited")
  /\ up /\ Acceptable(job[d])
  /\ UNCHANGED <<log, faults>>

Unreachable(d) ==
  /\ Answered(d, "unreachable")
  /\ ~up
  /\ UNCHANGED <<log, faults>>

\* The reply does not come back in time; the event may have been stored.
ReplyLost(d) ==
  /\ Answered(d, "unreachable")
  /\ up
  /\ Fault
  /\ \/ UNCHANGED log
     \/ Acceptable(job[d]) /\ Store(job[d])

-----------------------------------------------------------------------------
(* _resolve *)

\* Bug: an event that is rate limited is tried for ever.
GivesUpOnlyRejected(d) == outcome[d] = "rejected"

\* The branches of _resolve that bury.
GivesUp(d) ==
  \/ outcome[d] = "rejected"
  \/ outcome[d] = "limited" /\ seen[d] + 1 >= MaxUnknown

\* delete_one.
Delete(e) ==
  /\ pending' = pending \ {e}
  /\ due' = due \ {e}
  /\ claimed' = claimed \ {e}

\* release.
Release(d) ==
  /\ pc[d] = "resolve"
  /\ outcome[d] = "accepted"
  /\ Delete(job[d])
  /\ Rest(d)
  /\ UNCHANGED <<emission, attempts, dead, old, log, up, faults, outages>>

\* defer: one update of the document, if it still exists.
Defer(d) ==
  /\ pc[d] = "resolve"
  /\ outcome[d] # "accepted" /\ ~GivesUp(d)
  /\ IF job[d] \in pending
     THEN /\ attempts' = [attempts EXCEPT ![job[d]] = UpTo(@ + 1, MaxUnknown)]
          /\ due' = due \ {job[d]}
          /\ claimed' = claimed \ {job[d]}
     ELSE UNCHANGED <<attempts, due, claimed>>
  /\ Rest(d)
  /\ UNCHANGED <<emission, pending, dead, old, log, up, faults, outages>>

\* Bug: the document is deleted before the dead letter is written.
BuryDeletesFirst(d) ==
  /\ pc[d] = "resolve"
  /\ GivesUp(d)
  /\ Delete(job[d])
  /\ pc' = [pc EXCEPT ![d] = "bury"]
  /\ UNCHANGED <<emission, attempts, dead, old, log, job, seen, outcome, up, faults,
                 outages>>

\* bury: the dead letter first, then the document in the outbox.
BuryInsert(d) ==
  /\ pc[d] = "resolve"
  /\ GivesUp(d)
  /\ dead' = [dead EXCEPT ![job[d]] = UpTo(@ + 1, MaxDead)]
  /\ pc' = [pc EXCEPT ![d] = "bury"]
  /\ UNCHANGED <<emission, entry, old, log, job, seen, outcome, up, faults, outages>>

\* Bug: the document stays in the outbox.
BuryKeepsDocument(d) ==
  /\ pc[d] = "bury"
  /\ Rest(d)
  /\ UNCHANGED <<emission, entry, dead, old, log, up, faults, outages>>

BuryDelete(d) ==
  /\ pc[d] = "bury"
  /\ Delete(job[d])
  /\ Rest(d)
  /\ UNCHANGED <<emission, attempts, dead, old, log, up, faults, outages>>

-----------------------------------------------------------------------------
(* Time and faults *)

\* The replica dies, or a MongoDB call raises ("audit drain cycle failed").
Crash(d) ==
  /\ pc[d] # "idle"
  /\ Fault
  /\ Rest(d)
  /\ UNCHANGED <<emission, entry, dead, old, log, up, outages>>

\* next_attempt_at passes.
ComesDue(e) ==
  /\ e \in pending \ due
  /\ due' = due \cup {e}
  /\ UNCHANGED <<emission, pending, attempts, claimed, dead, old, log, drain, up,
                 faults, outages>>

InUse(e) == \E d \in Drainer : job[d] = e

\* claimed_at falls behind the lease of 60 seconds.  A drain is done within a few
\* seconds, so it takes a fault for the lease to lapse while it is still at work.
LeaseLapses(e) ==
  /\ e \in claimed
  /\ claimed' = claimed \ {e}
  /\ IF InUse(e) THEN Fault ELSE UNCHANGED faults
  /\ UNCHANGED <<emission, pending, attempts, due, dead, old, log, drain, up, outages>>

\* max_backdate_seconds, a week, have passed since the event occurred.
GrowsOld(e) ==
  /\ e \in pending \ old
  /\ old' = old \cup {e}
  /\ UNCHANGED <<emission, entry, dead, log, drain, up, faults, outages>>

AuditGoesDown ==
  /\ up
  /\ outages < MaxOutages
  /\ up' = FALSE
  /\ outages' = outages + 1
  /\ UNCHANGED <<emission, entry, dead, old, log, drain, faults>>

AuditComesBack ==
  /\ ~up
  /\ up' = TRUE
  /\ UNCHANGED <<emission, entry, dead, old, log, drain, faults, outages>>

-----------------------------------------------------------------------------

Emit(e) == Count(e) \/ Enqueue(e) \/ Shed(e) \/ EmitFails(e)

Send(d) == Accepted(d) \/ Rejected(d) \/ RateLimited(d) \/ Unreachable(d) \/ ReplyLost(d)

Resolve(d) == Release(d) \/ Defer(d) \/ BuryInsert(d) \/ BuryDelete(d)

Next ==
  \/ \E e \in Event : Emit(e) \/ ComesDue(e) \/ LeaseLapses(e) \/ GrowsOld(e)
  \/ \E d \in Drainer : Claim(d) \/ Send(d) \/ Resolve(d) \/ Crash(d)
  \/ AuditGoesDown \/ AuditComesBack

Spec == Init /\ [][Next]_vars

\* run_drain polls for ever; time passes; the audit service comes back.
Fairness ==
  /\ \A d \in Drainer : WF_vars(Claim(d)) /\ WF_vars(Send(d)) /\ WF_vars(Resolve(d))
  /\ \A e \in Event : WF_vars(ComesDue(e)) /\ WF_vars(LeaseLapses(e))
  /\ WF_vars(AuditComesBack)

FairSpec == Spec /\ Fairness

-----------------------------------------------------------------------------
(* Properties *)

\* An event the outbox has taken is never lost: whatever crashes, times out or is done
\* twice, it is in the outbox, in the audit log or among the dead letters.
NothingIsLost ==
  \A e \in Event : emission[e] = "kept" => e \in pending \/ Logged(e) \/ dead[e] > 0

\* Unless a lease lapsed under it, no two drains work on the same event.
OneDrainPerEvent ==
  faults = 0 => \A c, d \in Drainer : job[c] = job[d] /\ job[c] # None => c = d

\* Unless a fault intervened, a dead letter is an event the audit log does not hold, and
\* there is one of it.
DeadIsNotLogged ==
  faults = 0 => \A e \in Event : dead[e] > 0 => ~Logged(e) /\ dead[e] = 1

\* Every event the outbox has taken leaves it in the end.
PendingIsSettled == \A e \in Event : e \in pending ~> e \notin pending
=============================================================================
