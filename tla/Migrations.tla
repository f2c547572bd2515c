----------------------------- MODULE Migrations -----------------------------
(***************************************************************************)
(* The migration runner. Each replica that starts, and each operator, runs *)
(* it; a lease in MongoDB lets one at a time read what is applied, make or *)
(* revert the changes that are left, and record each after it. A heartbeat *)
(* renews the lease and cancels a run that has lost it.                    *)
(***************************************************************************)
EXTENDS Naturals, FiniteSetsExt

CONSTANTS
  Runner,
  Reverting,  \* those that run "down"
  Versions,   \* the migrations are 1..Versions
  None,
  MaxFaults   \* bound: calls that fail, processes that die, leases that lapse

MigrationsAssumption ==
  /\ Reverting \subseteq Runner /\ None \notin Runner
  /\ Versions \in Nat /\ MaxFaults \in Nat

VARIABLES
  lock,     \* who holds _migrations_lock, or None
  expired,  \* its expires_at has passed
  pc,       \* where a runner is: "made" when a change is made and not recorded
  plan,     \* the versions it has left
  schema,   \* the versions whose changes are in the database
  applied,  \* the versions recorded in _migrations
  torn,     \* versions whose change was made or reverted by a run that did not record it
  usurped,  \* a lease lapsed under a runner at work
  faults

vars == <<lock, expired, pc, plan, schema, applied, torn, usurped, faults>>

Version == 1..Versions
Working == {"read", "next", "made", "release"}

TypeOK ==
  /\ lock \in Runner \cup {None} /\ expired \in BOOLEAN /\ (lock = None => ~expired)
  /\ pc \in [Runner -> {"wait", "done", "dead"} \cup Working]
  /\ plan \in [Runner -> SUBSET Version]
  /\ \A r \in Runner : pc[r] \in {"next", "made"} <=> plan[r] # {}
  /\ {schema, applied, torn} \subseteq SUBSET Version
  /\ usurped \in BOOLEAN /\ faults \in 0..MaxFaults

Init ==
  /\ lock = None /\ expired = FALSE
  /\ pc = [r \in Runner |-> "wait"] /\ plan = [r \in Runner |-> {}]
  /\ schema = {} /\ applied = {} /\ torn = {} /\ usurped = FALSE /\ faults = 0

data == <<schema, applied, torn>>

Fault == faults < MaxFaults /\ faults' = faults + 1

\* The version a runner is at.
Current(r) == IF r \in Reverting THEN Max(plan[r]) ELSE Min(plan[r])

\* A run goes on with the versions left, or is over.
GoesOn(r, left) ==
  /\ plan' = [plan EXCEPT ![r] = left]
  /\ pc' = [pc EXCEPT ![r] = IF left = {} THEN "release" ELSE "next"]

\* A run ends at a step, and may tear a version.
Ends(r, step) ==
  /\ plan' = [plan EXCEPT ![r] = {}]
  /\ pc' = [pc EXCEPT ![r] = step]
  /\ torn' = IF pc[r] = "made" THEN torn \cup {Current(r)} ELSE torn

-----------------------------------------------------------------------------
(* _migration_lock *)

\* Bug: the claim does not look at expires_at.
FreeAlways(r) == TRUE

\* _claim: there is no lock, it has expired, or it is the runner's own.
Free(r) == lock = None \/ expired \/ lock = r

Acquire(r) ==
  /\ pc[r] = "wait" /\ Free(r)
  /\ lock' = r /\ expired' = FALSE
  /\ pc' = [pc EXCEPT ![r] = "read"]
  /\ UNCHANGED <<plan, data, usurped, faults>>

\* _WAIT_SECONDS are over.
TimesOut(r) ==
  /\ pc[r] = "wait" /\ ~Free(r)
  /\ pc' = [pc EXCEPT ![r] = "done"]
  /\ UNCHANGED <<lock, expired, plan, data, usurped, faults>>

\* _heartbeat: the claim succeeds, or the run is cancelled at its next await.
Renew(r) ==
  /\ pc[r] \in {"read", "next", "made"}
  /\ IF Free(r)
     THEN lock' = r /\ expired' = FALSE /\ UNCHANGED <<pc, plan, torn>>
     ELSE Ends(r, "release") /\ UNCHANGED <<lock, expired>>
  /\ UNCHANGED <<schema, applied, usurped, faults>>

\* The claim or a call of the run fails, and the run with it.
Fail(r) ==
  /\ pc[r] \in {"read", "next", "made"}
  /\ Fault
  /\ Ends(r, "release")
  /\ UNCHANGED <<lock, expired, schema, applied, usurped>>

\* The runner's own lock is deleted, no other.
Release(r) ==
  /\ pc[r] = "release"
  /\ IF lock = r THEN lock' = None /\ expired' = FALSE ELSE UNCHANGED <<lock, expired>>
  /\ pc' = [pc EXCEPT ![r] = "done"]
  /\ UNCHANGED <<plan, data, usurped, faults>>

\* The process dies, or the lock cannot be deleted: it is left to its lease.
Die(r) ==
  /\ pc[r] \in Working
  /\ Fault
  /\ Ends(r, "dead")
  /\ UNCHANGED <<lock, expired, schema, applied, usurped>>

\* Nobody renews the lease of a runner that is gone.
LeaseLapses ==
  /\ lock # None /\ ~expired /\ pc[lock] \notin Working
  /\ expired' = TRUE
  /\ UNCHANGED <<lock, pc, plan, data, usurped, faults>>

\* A runner at work was held up for longer than _LEASE_SECONDS.
LeaseIsOverrun ==
  /\ lock # None /\ ~expired /\ pc[lock] \in Working
  /\ Fault
  /\ expired' = TRUE /\ usurped' = TRUE
  /\ UNCHANGED <<lock, pc, plan, data>>

-----------------------------------------------------------------------------
(* _run *)

\* _applied_versions, and what is pending or reversible, up or down to a target.
Read(r) ==
  /\ pc[r] = "read"
  /\ \E target \in Version :
       GoesOn(r, IF r \in Reverting THEN applied \cap target..Versions
                                    ELSE (1..target) \ applied)
  /\ UNCHANGED <<lock, expired, data, usurped, faults>>

\* up or down of the module.
Change(r) ==
  /\ pc[r] = "next"
  /\ schema' = IF r \in Reverting THEN schema \ {Current(r)} ELSE schema \cup {Current(r)}
  /\ pc' = [pc EXCEPT ![r] = "made"]
  /\ UNCHANGED <<lock, expired, plan, applied, torn, usurped, faults>>

\* _record.
Record(r) ==
  /\ pc[r] = "made"
  /\ r \in Reverting \/ Current(r) \notin applied
  /\ applied' = IF r \in Reverting THEN applied \ {Current(r)} ELSE applied \cup {Current(r)}
  /\ torn' = torn \ {Current(r)}
  /\ GoesOn(r, plan[r] \ {Current(r)})
  /\ UNCHANGED <<lock, expired, schema, usurped, faults>>

\* The unique index refuses the record, and the run ends.
RecordIsThere(r) ==
  /\ pc[r] = "made" /\ r \notin Reverting /\ Current(r) \in applied
  /\ Ends(r, "release")
  /\ UNCHANGED <<lock, expired, schema, applied, usurped, faults>>

Next ==
  \/ \E r \in Runner :
       \/ Acquire(r) \/ TimesOut(r) \/ Renew(r) \/ Fail(r) \/ Release(r) \/ Die(r)
       \/ Read(r) \/ Change(r) \/ Record(r) \/ RecordIsThere(r)
  \/ LeaseLapses \/ LeaseIsOverrun

Spec == Init /\ [][Next]_vars

-----------------------------------------------------------------------------
(* Properties *)

\* However many runners start, fail and die: as long as no lease was overrun, the versions
\* recorded are the first ones, without a gap, and they are those whose changes the
\* database has, up to a version a runner is at and one a run tore.
MigratedInOrder ==
  ~usurped =>
    /\ \A v \in applied : 1..v \subseteq applied
    /\ \A v \in Version :
         (v \in applied) # (v \in schema)
           => v \in torn \/ \E r \in Runner : pc[r] = "made" /\ Current(r) = v
=============================================================================
