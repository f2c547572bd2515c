----------------------------- MODULE AuthOutbox -----------------------------
(***************************************************************************)
(* The outbox in which the auth service keeps audit events. Unlike the one *)
(* of the API it is a table beside the accounts: an event is inserted by   *)
(* the transaction it is about, and a drain keeps the row it has claimed   *)
(* locked until it has sent and resolved it in one transaction.            *)
(***************************************************************************)
EXTENDS Naturals, FiniteSets

CONSTANTS
  Events,      \* events are numbered in the order of their rows, 1 .. Events
  Hashed,      \* those with a digest, which need the pseudonym key
  Drainer,     \* one run_drain for each replica
  MaxUnknown,  \* _MAX_UNKNOWN_STATUS_ATTEMPTS
  MaxFaults    \* bound on what goes wrong

Event == 1 .. Events

AuthOutboxAssumption ==
  /\ Events \in Nat /\ Hashed \subseteq Event /\ MaxUnknown \in Nat \ {0} /\ MaxFaults \in Nat

VARIABLES
  change,    \* the transaction that an event is about
  rows,      \* audit_outbox
  attempts,  \* its column attempts
  due,       \* events whose next_attempt_at has come
  dead,      \* audit_outbox_dead
  log,       \* the events the audit service has accepted
  rejects,   \* those it would reject
  job,       \* what each drain holds, 0 if nothing, and where it is
  faults,
  harmed     \* history: a drain had sent an event and did not get to record it

vars == <<change, rows, attempts, due, dead, log, rejects, job, faults, harmed>>

Idle == [event |-> 0, at |-> "idle"]

Outcomes == {"unreachable", "accepted", "terminal", "unknown"}

TypeOK ==
  /\ change \in [Event -> {"none", "open", "committed", "unrecorded", "rolledBack"}]
  /\ rows \subseteq Event /\ due \subseteq rows /\ dead \subseteq Event
  /\ attempts \in [Event -> 0 .. MaxUnknown]
  /\ log \subseteq Event /\ rejects \subseteq Event
  /\ job \in [Drainer -> [event : Event \cup {0}, at : {"idle", "send"} \cup Outcomes]]
  /\ \A d \in Drainer : job[d].at = "idle" <=> job[d].event = 0
  /\ faults \in 0 .. MaxFaults
  /\ harmed \in BOOLEAN

Init ==
  /\ change = [e \in Event |-> "none"]
  /\ rows = {} /\ due = {} /\ dead = {} /\ log = {} /\ rejects = {}
  /\ attempts = [e \in Event |-> 0]
  /\ job = [d \in Drainer |-> Idle]
  /\ faults = 0 /\ harmed = FALSE

Fault == faults < MaxFaults /\ faults' = faults + 1

-----------------------------------------------------------------------------
(* The transactions that emit events. *)

\* A change is made and its event prepared and inserted, to be seen when both commit.
Enqueue(e) ==
  /\ change[e] = "none" /\ \A f \in 1 .. e - 1 : change[f] # "none"
  /\ change' = [change EXCEPT ![e] = "open"]
  /\ UNCHANGED <<rows, attempts, due, dead, log, rejects, job, faults, harmed>>

\* Without the pseudonym key there is no event, and the change is made all the same.
KeyIsMissing(e) ==
  /\ change[e] = "none" /\ e \in Hashed /\ Fault
  /\ change' = [change EXCEPT ![e] = "unrecorded"]
  /\ UNCHANGED <<rows, attempts, due, dead, log, rejects, job, harmed>>

Commit(e) ==
  /\ change[e] = "open"
  /\ change' = [change EXCEPT ![e] = "committed"]
  /\ rows' = rows \cup {e} /\ due' = due \cup {e}
  /\ UNCHANGED <<attempts, dead, log, rejects, job, faults, harmed>>

Rollback(e) ==
  /\ change[e] = "open" /\ Fault
  /\ change' = [change EXCEPT ![e] = "rolledBack"]
  /\ UNCHANGED <<rows, attempts, due, dead, log, rejects, job, harmed>>

-----------------------------------------------------------------------------
(* _drain_once *)

Locked == {job[d].event : d \in Drainer}

\* Bug: SKIP LOCKED is taken for a mere hint.
SkipsNothing == {}

\* claim: the first row that is due and that no other drain has locked.
Claim(d) ==
  /\ job[d] = Idle
  /\ \E e \in due \ Locked :
       /\ \A f \in due \ Locked : e =< f
       /\ job' = [job EXCEPT ![d] = [event |-> e, at |-> "send"]]
  /\ UNCHANGED <<change, rows, attempts, due, dead, log, rejects, faults, harmed>>

Answers(d, outcome) == job' = [job EXCEPT ![d].at = outcome]

\* _send. The service looks at the age of an event first, and accepts one it has once more,
\* without storing it again.
Send(d) ==
  /\ job[d].at = "send"
  /\ LET e == job[d].event
     IN  \/ /\ e \notin rejects /\ log' = log \cup {e}
            /\ Answers(d, "accepted") /\ UNCHANGED <<faults, harmed>>
         \/ /\ e \notin rejects /\ log' = log \cup {e}
            /\ Answers(d, "unreachable") /\ Fault /\ harmed' = TRUE
         \/ /\ e \in rejects
            /\ Answers(d, "terminal") /\ UNCHANGED <<log, faults, harmed>>
         \/ \E outcome \in {"unreachable", "unknown"} :
              Answers(d, outcome) /\ UNCHANGED <<log, faults, harmed>>
  /\ UNCHANGED <<change, rows, attempts, due, dead, rejects>>

\* _resolve: an event is given up at once or after too many strange replies.
GivesUp(e, outcome) ==
  outcome = "terminal" \/ (outcome = "unknown" /\ attempts[e] + 1 >= MaxUnknown)

\* Bug: an event that is given up is only deleted.
GivenUpSilently(d) ==
  /\ job[d].at \in Outcomes
  /\ LET e == job[d].event
         gone == job[d].at = "accepted" \/ GivesUp(e, job[d].at)
     IN  /\ rows' = IF gone THEN rows \ {e} ELSE rows
         /\ due' = due \ {e}
         /\ attempts' = [attempts EXCEPT ![e] = IF gone \/ @ = MaxUnknown THEN @ ELSE @ + 1]
         /\ UNCHANGED dead
  /\ job' = [job EXCEPT ![d] = Idle]
  /\ UNCHANGED <<change, log, rejects, faults, harmed>>

\* release, defer or bury, and the commit that ends the lock.
Resolve(d) ==
  /\ job[d].at \in Outcomes
  /\ LET e == job[d].event
         buried == GivesUp(e, job[d].at)
         gone == job[d].at = "accepted" \/ buried
     IN  /\ rows' = IF gone THEN rows \ {e} ELSE rows
         /\ due' = due \ {e}
         /\ attempts' = [attempts EXCEPT ![e] = IF gone \/ @ = MaxUnknown THEN @ ELSE @ + 1]
         /\ dead' = IF buried THEN dead \cup {e} ELSE dead
  /\ job' = [job EXCEPT ![d] = Idle]
  /\ UNCHANGED <<change, log, rejects, faults, harmed>>

\* The drain dies or PostgreSQL goes away: the transaction is rolled back, the row is free.
DrainFails(d) ==
  /\ job[d] # Idle /\ Fault
  /\ harmed' = (harmed \/ job[d].at = "accepted")
  /\ job' = [job EXCEPT ![d] = Idle]
  /\ UNCHANGED <<change, rows, attempts, due, dead, log, rejects>>

ComesDue(e) ==
  /\ e \in rows \ due
  /\ due' = due \cup {e}
  /\ UNCHANGED <<change, rows, attempts, dead, log, rejects, job, faults, harmed>>

\* The event gets too old for the audit service.
GrowsOld(e) ==
  /\ change[e] = "committed" /\ e \notin rejects
  /\ rejects' = rejects \cup {e}
  /\ UNCHANGED <<change, rows, attempts, due, dead, log, job, faults, harmed>>

Emit(e) == Enqueue(e) \/ KeyIsMissing(e) \/ Commit(e) \/ Rollback(e)

Drain(d) == Claim(d) \/ Send(d) \/ Resolve(d) \/ DrainFails(d)

Next == (\E e \in Event : Emit(e) \/ ComesDue(e) \/ GrowsOld(e)) \/ \E d \in Drainer : Drain(d)

Spec == Init /\ [][Next]_vars

-----------------------------------------------------------------------------
(* Properties. *)

\* enqueue, release and bury: a change that was committed has its event in the outbox, in the
\* log or among the dead letters, and one that was not has none anywhere.
ChangesAreRecorded ==
  \A e \in Event : change[e] = "committed" <=> e \in rows \cup log \cup dead

\* claim: two drains never hold the same event.
RowsAreHeldOnce == \A c, d \in Drainer : c # d /\ job[c].event = job[d].event => job[c] = Idle

\* bury: a dead letter is an event the log does not have, unless a drain that had sent it
\* could not record that.
BuriedIsNotLogged == harmed \/ dead \cap log = {}
=============================================================================
