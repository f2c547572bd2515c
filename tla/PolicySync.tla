----------------------------- MODULE PolicySync -----------------------------
(***************************************************************************)
(* The detection policy: versions in MongoDB, written under optimistic     *)
(* concurrency; the newest in a Redis key and on a channel, put there by   *)
(* the request and again by the sync loop of every API replica; applied    *)
(* by the watcher of the AI service.                                       *)
(***************************************************************************)
EXTENDS Naturals, Sequences, FiniteSets

CONSTANTS
  Admin,     \* PUT requests
  Replica,   \* replicas of the API
  MaxFaults  \* bound: calls that fail, connections and processes that are lost

PolicyAssumption == IsFiniteSet(Admin) /\ MaxFaults \in Nat

VARIABLES
  top,       \* the newest version in MongoDB; 0 for none
  pc,        \* where a request is
  expected,  \* the version its form was loaded with
  syncing,   \* what the tick of a replica has read, or 0
  stored,    \* the version under policy:detection:current; 0 for none
  mail,      \* messages on their way to the watcher
  watcher,   \* where it is
  applied,   \* the version the detector runs with; 0 for the defaults
  reported,  \* policy:detection:applied
  faults

vars == <<top, pc, expected, syncing, stored, mail, watcher, applied, reported, faults>>

Version == 0..Cardinality(Admin)

TypeOK ==
  /\ {top, stored, applied, reported} \subseteq Version
  /\ pc \in [Admin -> {"new", "loaded", "append", "publish", "done"}]
  /\ expected \in [Admin -> Version] /\ syncing \in [Replica -> Version]
  /\ mail \in Seq(Version) /\ (watcher \notin {"subscribed", "listening"} => mail = <<>>)
  /\ watcher \in {"starting", "running", "subscribed", "listening"}
  /\ faults \in 0..MaxFaults

Init ==
  /\ top = 0 /\ pc = [a \in Admin |-> "new"] /\ expected = [a \in Admin |-> 0]
  /\ syncing = [r \in Replica |-> 0]
  /\ stored = 0 /\ mail = <<>>
  /\ watcher = "starting" /\ applied = 0 /\ reported = 0 /\ faults = 0

api == <<top, pc, expected, syncing>>
ai  == <<watcher, applied, reported>>

Fault == faults < MaxFaults /\ faults' = faults + 1

-----------------------------------------------------------------------------
(* The API *)

Load(a) ==
  /\ pc[a] = "new"
  /\ expected' = [expected EXCEPT ![a] = top]
  /\ pc' = [pc EXCEPT ![a] = "loaded"]
  /\ UNCHANGED <<top, syncing, stored, mail, ai, faults>>

\* update, up to the insert: the form is refused if the policy has changed since, and
\* nothing is written if the form changes nothing.
Check(a) ==
  /\ pc[a] = "loaded"
  /\ \/ expected[a] = top /\ pc' = [pc EXCEPT ![a] = "append"]
     \/ pc' = [pc EXCEPT ![a] = "done"]
  /\ UNCHANGED <<top, expected, syncing, stored, mail, ai, faults>>

\* append: the unique index refuses a version that is there.
InsertVersion(a) ==
  /\ pc[a] = "append"
  /\ IF expected[a] = top
     THEN top' = top + 1 /\ pc' = [pc EXCEPT ![a] = "publish"]
     ELSE UNCHANGED top /\ pc' = [pc EXCEPT ![a] = "done"]
  /\ UNCHANGED <<expected, syncing, stored, mail, ai, faults>>

\* Bug: the last one to publish wins.
NewerAny(v) == v > 0

\* PUBLISH_NEWER_LUA: its condition.
Newer(v) == stored < v

Subscribed == watcher \in {"subscribed", "listening"}

Put(v) ==
  IF Newer(v)
  THEN stored' = v /\ mail' = IF Subscribed THEN Append(mail, v) ELSE mail
  ELSE UNCHANGED <<stored, mail>>

Publish(a) ==
  /\ pc[a] = "publish"
  /\ Put(expected[a] + 1)
  /\ pc' = [pc EXCEPT ![a] = "done"]
  /\ UNCHANGED <<top, expected, syncing, ai, faults>>

\* The request is answered all the same, or its process dies.
PublishFails(a) ==
  /\ pc[a] = "publish"
  /\ Fault
  /\ pc' = [pc EXCEPT ![a] = "done"]
  /\ UNCHANGED <<top, expected, syncing, stored, mail, ai>>

\* _sync_once reads, then publishes.
SyncRead(r) ==
  /\ syncing[r] = 0 /\ top > 0
  /\ syncing' = [syncing EXCEPT ![r] = top]
  /\ UNCHANGED <<top, pc, expected, stored, mail, ai, faults>>

SyncPublish(r) ==
  /\ syncing[r] > 0
  /\ Put(syncing[r])
  /\ syncing' = [syncing EXCEPT ![r] = 0]
  /\ UNCHANGED <<top, pc, expected, ai, faults>>

-----------------------------------------------------------------------------
(* The watcher *)

\* _apply: an older version, or the same, is ignored. The report may fail.
Apply(v) ==
  IF v > applied
  THEN /\ applied' = v
       /\ \/ reported' = v /\ UNCHANGED faults
          \/ Fault /\ UNCHANGED reported
  ELSE UNCHANGED <<applied, reported, faults>>

Becomes(state) == watcher' = state

Prime ==
  /\ watcher = "starting"
  /\ Apply(stored)
  /\ Becomes("running")
  /\ UNCHANGED <<api, stored, mail>>

PrimeFails ==
  /\ watcher = "starting"
  /\ Fault
  /\ Becomes("running")
  /\ UNCHANGED <<api, stored, mail, applied, reported>>

Subscribe ==
  /\ watcher = "running"
  /\ Becomes("subscribed")
  /\ UNCHANGED <<api, stored, mail, applied, reported, faults>>

\* Bug: the watcher only listens.
CaughtUpNever == 0

\* What _catch_up reads.
CaughtUp == stored

CatchUp ==
  /\ watcher = "subscribed"
  /\ Apply(CaughtUp)
  /\ Becomes("listening")
  /\ UNCHANGED <<api, stored, mail>>

Receive ==
  /\ watcher = "listening" /\ mail # <<>>
  /\ Apply(Head(mail))
  /\ mail' = Tail(mail)
  /\ UNCHANGED <<api, stored, watcher>>

\* "reconnecting": what was on its way is lost.
Disconnect ==
  /\ Subscribed
  /\ Fault
  /\ Becomes("running")
  /\ mail' = <<>>
  /\ UNCHANGED <<api, stored, applied, reported>>

AiRestarts ==
  /\ Fault
  /\ Becomes("starting")
  /\ mail' = <<>> /\ applied' = 0
  /\ UNCHANGED <<api, stored, reported>>

\* Redis comes back empty.
RedisRestarts ==
  /\ Fault
  /\ stored' = 0 /\ mail' = <<>> /\ reported' = 0
  /\ watcher' = IF Subscribed THEN "running" ELSE watcher
  /\ UNCHANGED <<api, applied>>

-----------------------------------------------------------------------------

Sync(r) == SyncRead(r) \/ SyncPublish(r)

Watch == Prime \/ Subscribe \/ CatchUp \/ Receive

Next ==
  \/ \E a \in Admin :
       Load(a) \/ Check(a) \/ InsertVersion(a) \/ Publish(a) \/ PublishFails(a)
  \/ \E r \in Replica : Sync(r)
  \/ Watch \/ PrimeFails \/ Disconnect \/ AiRestarts \/ RedisRestarts

Spec == Init /\ [][Next]_vars

-----------------------------------------------------------------------------
(* Properties *)

\* Whichever replica publishes when, neither Redis nor the detector goes back to an older
\* version, unless Redis or the AI service restarts.
NeverGoesBack ==
  [][ /\ stored' < stored => stored' = 0
      /\ applied' < applied => watcher' = "starting" ]_vars

\* Whatever was lost, the detector runs with the newest version in the end.
PolicyIsApplied == <>[](applied = top)
=============================================================================
