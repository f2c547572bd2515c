----------------------------- MODULE EdgeProofs -----------------------------
(***************************************************************************)
(* Theorems about the modules of the gate, the cameras, the policy and the *)
(* console, which are instances of MCEdge with any constants that keep     *)
(* their assumptions. First of each by itself, then of the specification   *)
(* that the run checks, in which each takes its own steps or rests.        *)
(***************************************************************************)
EXTENDS MCEdge, FiniteSets, FiniteSetTheorems

-----------------------------------------------------------------------------
(* The health of a camera *)

\* The Redis key holds the newest observation published since it appeared, and what was
\* announced last is its state.
NewestInv ==
  /\ Health!NewestIsAnnounced
  /\ key = None => newest = 0

HealthInv == Health!TypeOK /\ NewestInv

\* Every step of the health keeps its types.
LEMMA HealthTypes ==
  ASSUME Health!HealthAssumption, Health!TypeOK, [Health!Next]_(Health!vars)
  PROVE  Health!TypeOK'
<1> USE DEF Health!HealthAssumption, Health!TypeOK
<1>1. CASE Health!TimePasses
  BY <1>1 DEF Health!TimePasses
<1>2. CASE Health!KeyLapses
  BY <1>2 DEF Health!KeyLapses, Health!Fault
<1>3. ASSUME NEW r \in Replica, Health!Begin(r) PROVE Health!TypeOK'
  BY <1>3 DEF Health!Begin, Health!Reading
<1>4. ASSUME NEW r \in Replica, Health!Read(r) PROVE Health!TypeOK'
  <2>1. [tick[r] EXCEPT !.state = actual] \in Health!Observation
    BY <1>4 DEF Health!Read, Health!Reading, Health!Observation, Health!Health
  <2> QED BY <1>4, <2>1 DEF Health!Read
<1>5. ASSUME NEW r \in Replica, Health!ReadFails(r) PROVE Health!TypeOK'
  <2>1. [tick[r] EXCEPT !.state = "unknown"] \in Health!Observation
    BY <1>5 DEF Health!ReadFails, Health!Reading, Health!Observation, Health!Health
  <2> QED BY <1>5, <2>1 DEF Health!ReadFails, Health!Fault
<1>6. ASSUME NEW r \in Replica, Health!Publish(r) PROVE Health!TypeOK'
  <2>1. tick[r].state \in Health!Health /\ tick[r].at \in 0..MaxClock
    BY <1>6 DEF Health!Publish, Health!Observation
  <2> QED BY <1>6, <2>1 DEF Health!Publish
<1>7. ASSUME NEW r \in Replica, Health!PublishFails(r) PROVE Health!TypeOK'
  BY <1>7 DEF Health!PublishFails, Health!Fault
<1>8. CASE UNCHANGED Health!vars
  BY <1>8 DEF Health!vars
<1> QED BY <1>1, <1>2, <1>3, <1>4, <1>5, <1>6, <1>7, <1>8 DEF Health!Next

\* An observation that is not overtaken is newer than all that were published.
LEMMA PublishIsNewest ==
  ASSUME Health!HealthAssumption, HealthInv, NEW r \in Replica, Health!Publish(r)
  PROVE  NewestInv'
<1> USE DEF HealthInv, NewestInv, Health!NewestIsAnnounced, Health!HealthAssumption
<1>1. tick[r] \in Health!Observation /\ tick[r] # None
  BY DEF Health!Publish
<1>2. /\ tick[r].at \in Nat /\ newest \in Nat
      /\ key # None => key.at \in Nat
  BY <1>1 DEF Health!TypeOK, Health!Observation
<1>3. CASE Health!Overtaken(tick[r])
  <2>1. newest' = newest /\ UNCHANGED <<key, announced>>
    BY <1>2, <1>3 DEF Health!Publish, Health!Overtaken
  <2> QED BY <2>1
<1>4. CASE ~Health!Overtaken(tick[r])
  <2>1. key' = tick[r] /\ newest' = tick[r].at
    BY <1>2, <1>4 DEF Health!Publish, Health!Overtaken
  <2>2. announced' = tick[r].state
    BY <1>4 DEF Health!Publish
  <2> QED BY <1>1, <2>1, <2>2
<1> QED BY <1>3, <1>4

\* Every step keeps the order of the observations.
LEMMA HealthStep ==
  ASSUME Health!HealthAssumption, HealthInv, [Health!Next]_(Health!vars)
  PROVE  HealthInv'
<1>1. Health!TypeOK'
  BY HealthTypes DEF HealthInv
<1>2. CASE UNCHANGED <<key, newest, announced>>
  BY <1>1, <1>2 DEF HealthInv, NewestInv, Health!NewestIsAnnounced
<1>3. CASE Health!KeyLapses
  BY <1>1, <1>3 DEF HealthInv, NewestInv, Health!NewestIsAnnounced, Health!KeyLapses
<1>4. ASSUME NEW r \in Replica, Health!Publish(r) PROVE HealthInv'
  BY <1>1, <1>4, PublishIsNewest DEF HealthInv
<1> QED BY <1>2, <1>3, <1>4 DEF Health!Next, Health!vars, Health!TimePasses, Health!Begin,
          Health!Read, Health!ReadFails, Health!PublishFails

\* However many replicas of the API observe a camera and however their ticks interleave,
\* what was announced last is the newest observation that reached the Redis key.
THEOREM HealthHolds ==
  ASSUME Health!HealthAssumption
  PROVE  Health!Spec => [](Health!TypeOK /\ Health!NewestIsAnnounced)
<1>1. Health!Init => HealthInv
  BY DEF Health!HealthAssumption, Health!Init, HealthInv, NewestInv, Health!NewestIsAnnounced,
         Health!TypeOK, Health!State
<1>2. HealthInv /\ [Health!Next]_(Health!vars) => HealthInv'
  BY HealthStep
<1>3. HealthInv => Health!TypeOK /\ Health!NewestIsAnnounced
  BY DEF HealthInv, NewestInv
<1> QED BY <1>1, <1>2, <1>3, PTL DEF Health!Spec

-----------------------------------------------------------------------------
(* The detection policy *)

\* The requests that have written a version.
Written == {a \in Admin : ppc[a] \in {"publish", "done"}}

\* A version that is anywhere is in MongoDB; there is at most one for each request that has
\* come to its end; and a request publishes only what it has written.
VersionsInv ==
  /\ {top, stored, running, reported} \subseteq Nat
  /\ top <= Cardinality(Written)
  /\ stored <= top /\ running <= top /\ reported <= top
  /\ \A a \in Admin :
       /\ expected[a] \in Nat /\ expected[a] <= top
       /\ ppc[a] = "publish" => expected[a] < top
  /\ \A r \in Replica : syncing[r] \in Nat /\ syncing[r] <= top
  /\ \A k \in DOMAIN mail : mail[k] <= top

\* The types that do not depend on how many versions there are.
PolicyShape ==
  /\ ppc \in [Admin -> {"new", "loaded", "append", "publish", "done"}]
  /\ expected \in [Admin -> Nat] /\ syncing \in [Replica -> Nat]
  /\ mail \in Seq(Nat) /\ (watcher \notin {"subscribed", "listening"} => mail = <<>>)
  /\ watcher \in {"starting", "running", "subscribed", "listening"}
  /\ pfaults \in 0..MaxFaults

PolicyInv == PolicyShape /\ VersionsInv

\* What is finite in PolicySync is finite here.
LEMMA SameCounts ==
  /\ Policy!PolicyAssumption <=> IsFiniteSet(Admin) /\ MaxFaults \in Nat
  /\ Policy!Version = 0..Cardinality(Admin)
<1>1. Policy!IsFiniteSet(Admin) <=> IsFiniteSet(Admin)
  BY DEF Policy!IsFiniteSet, IsFiniteSet
<1>2. Policy!Cardinality(Admin) = Cardinality(Admin)
  BY DEF Policy!Cardinality, Cardinality
<1> QED BY <1>1, <1>2 DEF Policy!PolicyAssumption, Policy!Version

\* There are no more versions than requests.
LEMMA VersionsAreBounded ==
  ASSUME Policy!PolicyAssumption, PolicyInv
  PROVE  Policy!TypeOK
<1>1. Written \in SUBSET Admin /\ IsFiniteSet(Admin)
  BY SameCounts DEF Written
<1>2. IsFiniteSet(Written) /\ Cardinality(Written) <= Cardinality(Admin)
  BY <1>1, FS_Subset
<1>3. Cardinality(Admin) \in Nat /\ Cardinality(Written) \in Nat
  BY <1>1, <1>2, FS_CardinalityType
<1>4. \A n \in Nat : n <= top => n \in Policy!Version
  <2>1. top \in Nat /\ top <= Cardinality(Written)
    BY DEF PolicyInv, VersionsInv
  <2> QED BY <1>2, <1>3, <2>1, SameCounts
<1>5. {top, stored, running, reported} \subseteq Policy!Version
  BY <1>4 DEF PolicyInv, VersionsInv
<1>6. expected \in [Admin -> Policy!Version] /\ syncing \in [Replica -> Policy!Version]
  BY <1>4 DEF PolicyInv, VersionsInv, PolicyShape
<1>7. mail \in Seq(Policy!Version)
  <2>1. mail \in Seq(Nat) /\ \A k \in DOMAIN mail : mail[k] <= top
    BY DEF PolicyInv, VersionsInv, PolicyShape
  <2>2. \A k \in 1..Len(mail) : mail[k] \in Policy!Version
    BY <2>1, <1>4
  <2> QED BY <2>1, <2>2
<1> QED BY <1>5, <1>6, <1>7 DEF PolicyInv, PolicyShape, Policy!TypeOK

\* Putting a version under the key never replaces a newer one.
LEMMA PutVersion ==
  ASSUME PolicyInv, NEW v \in Nat, v <= top, Policy!Put(v)
  PROVE  /\ stored' \in Nat /\ stored <= stored' /\ stored' <= top
         /\ mail' \in Seq(Nat) /\ \A k \in DOMAIN mail' : mail'[k] <= top
         /\ watcher \notin {"subscribed", "listening"} => mail' = <<>>
<1>1. /\ stored \in Nat /\ top \in Nat /\ stored <= top /\ mail \in Seq(Nat)
      /\ \A k \in DOMAIN mail : mail[k] <= top
      /\ watcher \notin {"subscribed", "listening"} => mail = <<>>
  BY DEF PolicyInv, PolicyShape, VersionsInv
<1>2. CASE stored < v
  <2>1. stored' = v /\ mail' = IF Policy!Subscribed THEN Append(mail, v) ELSE mail
    BY <1>2 DEF Policy!Put, Policy!Newer
  <2>2. \A k \in DOMAIN mail' : mail'[k] <= top
    BY <1>1, <2>1
  <2> QED BY <1>1, <1>2, <2>1, <2>2 DEF Policy!Subscribed
<1>3. CASE ~(stored < v)
  <2>1. UNCHANGED <<stored, mail>>
    BY <1>3 DEF Policy!Put, Policy!Newer
  <2> QED BY <1>1, <2>1
<1> QED BY <1>2, <1>3

\* The watcher never applies an older version than the one it runs.
LEMMA ApplyVersion ==
  ASSUME Policy!PolicyAssumption, PolicyInv, NEW v \in Nat, v <= top, Policy!Apply(v)
  PROVE  /\ running' \in Nat /\ running <= running' /\ running' <= top
         /\ reported' \in Nat /\ reported' <= top /\ pfaults' \in 0..MaxFaults
BY DEF Policy!PolicyAssumption, PolicyInv, PolicyShape, VersionsInv, Policy!Apply, Policy!Fault

\* A request that ends adds itself to those that may have written a version.
LEMMA WrittenGrows ==
  ASSUME Policy!PolicyAssumption, PolicyShape, NEW a \in Admin,
         NEW step \in {"loaded", "append", "publish", "done"},
         ppc' = [ppc EXCEPT ![a] = step], ppc[a] = "publish" => step = "done", ppc[a] # "done"
  PROVE  /\ Cardinality(Written) \in Nat /\ Cardinality(Written') \in Nat
         /\ Cardinality(Written) <= Cardinality(Written')
         /\ ppc[a] = "append" /\ step = "publish" =>
              Cardinality(Written') = Cardinality(Written) + 1
<1>1. IsFiniteSet(Written) /\ IsFiniteSet(Written')
  <2>1. Written \in SUBSET Admin /\ Written' \in SUBSET Admin /\ IsFiniteSet(Admin)
    BY SameCounts DEF Written
  <2> QED BY <2>1, FS_Subset
<1>2. Written' = IF step \in {"publish", "done"} THEN Written \cup {a} ELSE Written
  BY DEF Written, PolicyShape
<1>3. a \in Written <=> ppc[a] = "publish"
  BY DEF Written
<1>4. Cardinality(Written \cup {a}) =
        IF a \in Written THEN Cardinality(Written) ELSE Cardinality(Written) + 1
  BY <1>1, FS_AddElement
<1>5. Cardinality(Written) \in Nat /\ Cardinality(Written') \in Nat
  BY <1>1, FS_CardinalityType
<1> QED BY <1>2, <1>3, <1>4, <1>5

\* A request is answered step by step; only the one that inserts moves the newest version.
LEMMA AdminStep ==
  ASSUME Policy!PolicyAssumption, PolicyInv, NEW a \in Admin,
         \/ Policy!Load(a) \/ Policy!Check(a) \/ Policy!InsertVersion(a) \/ Policy!Publish(a)
         \/ Policy!PublishFails(a)
  PROVE  PolicyInv'
<1> USE DEF Policy!ai
<1>0. /\ PolicyShape /\ VersionsInv /\ {top, stored, running, reported} \subseteq Nat
      /\ expected[a] \in Nat /\ expected[a] <= top /\ top <= Cardinality(Written)
  BY DEF PolicyInv, VersionsInv
<1>1. PICK step \in {"loaded", "append", "publish", "done"} :
        /\ ppc' = [ppc EXCEPT ![a] = step]
        /\ ppc[a] = "publish" => step = "done"
        /\ ppc[a] # "done"
        /\ step = "publish" => Policy!InsertVersion(a) /\ ppc[a] = "append" /\ top' = top + 1
                                 /\ expected[a] = top
        /\ step # "publish" => UNCHANGED top
  BY <1>0 DEF Policy!Load, Policy!Check, Policy!InsertVersion, Policy!Publish, Policy!PublishFails
<1>2. top' \in Nat /\ top <= top' /\ top' <= Cardinality(Written')
  <2>1. /\ Cardinality(Written) \in Nat /\ Cardinality(Written') \in Nat
        /\ Cardinality(Written) <= Cardinality(Written')
        /\ ppc[a] = "append" /\ step = "publish" =>
             Cardinality(Written') = Cardinality(Written) + 1
    BY <1>0, <1>1, WrittenGrows
  <2> QED BY <1>0, <1>1, <2>1
<1>3. /\ stored' \in Nat /\ stored' <= top /\ mail' \in Seq(Nat)
      /\ \A k \in DOMAIN mail' : mail'[k] <= top
      /\ watcher \notin {"subscribed", "listening"} => mail' = <<>>
  <2>1. CASE Policy!Publish(a)
    <3>1. expected[a] + 1 \in Nat /\ expected[a] + 1 <= top
      BY <1>0, <2>1 DEF Policy!Publish, VersionsInv
    <3>2. Policy!Put(expected[a] + 1)
      BY <2>1 DEF Policy!Publish
    <3> QED BY <3>1, <3>2, PutVersion
  <2>2. CASE ~Policy!Publish(a)
    <3>1. UNCHANGED <<stored, mail>>
      BY <2>2 DEF Policy!Load, Policy!Check, Policy!InsertVersion, Policy!PublishFails
    <3> QED BY <1>0, <3>1 DEF PolicyShape, VersionsInv
  <2> QED BY <2>1, <2>2
<1>4. UNCHANGED <<syncing, watcher, running, reported>>
  BY DEF Policy!Load, Policy!Check, Policy!InsertVersion, Policy!Publish, Policy!PublishFails
<1>5. expected' = expected \/ (ppc[a] = "new" /\ expected' = [expected EXCEPT ![a] = top])
  BY DEF Policy!Load, Policy!Check, Policy!InsertVersion, Policy!Publish, Policy!PublishFails
<1>6. expected' \in [Admin -> Nat] /\ \A b \in Admin : expected'[b] <= top
  <2>1. expected \in [Admin -> Nat] /\ (\A b \in Admin : expected[b] <= top) /\ top \in Nat
    BY <1>0 DEF PolicyShape, VersionsInv
  <2>2. CASE expected' = expected
    BY <2>1, <2>2
  <2>3. CASE expected' = [expected EXCEPT ![a] = top]
    BY <2>1, <2>3
  <2> QED BY <1>5, <2>2, <2>3
<1>7. pfaults' \in 0..MaxFaults
  BY <1>0, SameCounts DEF PolicyShape, Policy!Fault, Policy!Load, Policy!Check,
         Policy!InsertVersion, Policy!Publish, Policy!PublishFails
<1>8. PolicyShape'
  BY <1>0, <1>1, <1>3, <1>4, <1>6, <1>7 DEF PolicyShape
<1>9. \A b \in Admin : ppc'[b] = "publish" => expected'[b] < top'
  <2> SUFFICES ASSUME NEW b \in Admin, ppc'[b] = "publish" PROVE expected'[b] < top'
    OBVIOUS
  <2>1. CASE b = a
    <3>1. step = "publish"
      BY <1>0, <1>1, <2>1 DEF PolicyShape
    <3>2. expected' = expected
      BY <3>1, <1>1, <1>5
    <3> QED BY <1>0, <1>1, <2>1, <3>1, <3>2
  <2>2. CASE b # a
    <3>1. ppc[b] = "publish" /\ expected'[b] = expected[b]
      BY <1>0, <1>1, <1>5, <2>2 DEF PolicyShape
    <3>2. expected[b] < top /\ expected[b] \in Nat
      BY <1>0, <3>1 DEF VersionsInv
    <3> QED BY <1>0, <1>2, <3>1, <3>2
  <2> QED BY <2>1, <2>2
<1>10. VersionsInv'
  <2>1. {top, stored, running, reported}' \subseteq Nat
    BY <1>0, <1>2, <1>3, <1>4
  <2>2. stored' <= top' /\ running' <= top' /\ reported' <= top'
    BY <1>0, <1>2, <1>3, <1>4 DEF VersionsInv
  <2>3. \A b \in Admin : expected'[b] \in Nat /\ expected'[b] <= top'
    BY <1>0, <1>2, <1>6
  <2>4. \A r \in Replica : syncing'[r] \in Nat /\ syncing'[r] <= top'
    BY <1>0, <1>2, <1>4 DEF VersionsInv
  <2>5. \A k \in DOMAIN mail' : mail'[k] <= top'
    BY <1>0, <1>2, <1>3
  <2> QED BY <1>2, <1>9, <2>1, <2>2, <2>3, <2>4, <2>5 DEF VersionsInv
<1> QED BY <1>8, <1>10 DEF PolicyInv

\* The sync loops and the watcher move versions that MongoDB has, and no others.
LEMMA SyncStep ==
  ASSUME Policy!PolicyAssumption, PolicyInv, NEW r \in Replica, Policy!Sync(r)
  PROVE  PolicyInv'
<1>0. PolicyShape /\ VersionsInv /\ UNCHANGED <<top, ppc, expected, watcher, running, reported,
                                                 pfaults>>
  BY DEF PolicyInv, Policy!Sync, Policy!SyncRead, Policy!SyncPublish, Policy!ai
<1>1. Written' = Written
  BY <1>0 DEF Written
<1>2. CASE Policy!SyncRead(r)
  <2>1. UNCHANGED <<stored, mail>> /\ syncing' = [syncing EXCEPT ![r] = top]
    BY <1>2 DEF Policy!SyncRead
  <2> QED BY <1>0, <1>1, <2>1 DEF PolicyInv, PolicyShape, VersionsInv
<1>3. CASE Policy!SyncPublish(r)
  <2>1. syncing[r] \in Nat /\ syncing[r] <= top /\ Policy!Put(syncing[r])
    BY <1>0, <1>3 DEF Policy!SyncPublish, VersionsInv
  <2>2. /\ stored' \in Nat /\ stored' <= top /\ mail' \in Seq(Nat)
        /\ \A k \in DOMAIN mail' : mail'[k] <= top
        /\ watcher \notin {"subscribed", "listening"} => mail' = <<>>
    BY <2>1, PutVersion
  <2>3. syncing' = [syncing EXCEPT ![r] = 0]
    BY <1>3 DEF Policy!SyncPublish
  <2>4. PolicyShape'
    BY <1>0, <2>2, <2>3 DEF PolicyShape
  <2>5. VersionsInv'
    BY <1>0, <1>1, <2>2, <2>3 DEF PolicyShape, VersionsInv
  <2> QED BY <2>4, <2>5 DEF PolicyInv
<1> QED BY <1>2, <1>3 DEF Policy!Sync

\* The watcher, and what restarts about it, keeps the order of the policies.
LEMMA WatcherStep ==
  ASSUME Policy!PolicyAssumption, PolicyInv,
         \/ Policy!Watch \/ Policy!PrimeFails \/ Policy!Disconnect \/ Policy!AiRestarts
         \/ Policy!RedisRestarts
  PROVE  PolicyInv'
<1> USE DEF Policy!api, Policy!ai
<1>0. PolicyShape /\ VersionsInv /\ UNCHANGED <<top, ppc, expected, syncing>>
  BY DEF PolicyInv, Policy!Watch, Policy!Prime, Policy!Subscribe, Policy!CatchUp, Policy!Receive,
         Policy!PrimeFails, Policy!Disconnect, Policy!AiRestarts, Policy!RedisRestarts
<1>1. Written' = Written
  BY <1>0 DEF Written
<1>2. /\ running' \in Nat /\ running' <= top /\ reported' \in Nat /\ reported' <= top
      /\ pfaults' \in 0..MaxFaults
  <2>1. stored \in Nat /\ stored <= top /\ top \in Nat
    BY <1>0 DEF VersionsInv
  <2>2. CASE Policy!Prime \/ Policy!CatchUp
    BY <2>1, <2>2, ApplyVersion DEF Policy!Prime, Policy!CatchUp, Policy!CaughtUp
  <2>3. CASE Policy!Receive
    <3>1. Head(mail) \in Nat /\ Head(mail) <= top
      BY <1>0, <2>3 DEF Policy!Receive, PolicyShape, VersionsInv
    <3> QED BY <2>3, <3>1, ApplyVersion DEF Policy!Receive
  <2>4. CASE Policy!Subscribe \/ Policy!PrimeFails \/ Policy!Disconnect \/ Policy!AiRestarts
              \/ Policy!RedisRestarts
    BY <1>0, <2>1, <2>4, SameCounts
       DEF Policy!Subscribe, Policy!PrimeFails, Policy!Disconnect, Policy!AiRestarts,
           Policy!RedisRestarts, Policy!Fault, PolicyShape, VersionsInv
  <2> QED BY <2>2, <2>3, <2>4 DEF Policy!Watch
<1>3. /\ stored' \in {stored, 0}
      /\ mail' \in {mail, <<>>} \/ (mail # <<>> /\ mail' = Tail(mail))
      /\ watcher' \in {"starting", "running", "subscribed", "listening"}
      /\ watcher' \notin {"subscribed", "listening"} => mail' = <<>>
  BY <1>0 DEF Policy!Watch, Policy!Prime, Policy!Subscribe, Policy!CatchUp, Policy!Receive,
         Policy!PrimeFails, Policy!Disconnect, Policy!AiRestarts, Policy!RedisRestarts,
         Policy!Becomes, Policy!Subscribed, PolicyShape
<1>4. mail' \in Seq(Nat) /\ \A k \in DOMAIN mail' : mail'[k] <= top
  <2>1. mail \in Seq(Nat) /\ \A k \in DOMAIN mail : mail[k] <= top
    BY <1>0 DEF PolicyShape, VersionsInv
  <2>2. CASE mail' = mail
    BY <2>1, <2>2
  <2>3. CASE mail' = <<>>
    <3>1. <<>> \in Seq(Nat) /\ DOMAIN <<>> = {}
      OBVIOUS
    <3> QED BY <2>3, <3>1
  <2>4. CASE mail # <<>> /\ mail' = Tail(mail)
    <3>1. /\ Tail(mail) \in Seq(Nat) /\ Len(Tail(mail)) = Len(mail) - 1
          /\ \A k \in 1..Len(Tail(mail)) : Tail(mail)[k] = mail[k + 1] /\ k + 1 \in DOMAIN mail
      BY <2>1, <2>4
    <3> QED BY <2>1, <2>4, <3>1
  <2> QED BY <1>3, <2>2, <2>3, <2>4
<1>5. PolicyShape'
  BY <1>0, <1>2, <1>3, <1>4 DEF PolicyShape
<1>6. VersionsInv'
  BY <1>0, <1>1, <1>2, <1>3, <1>4 DEF VersionsInv
<1> QED BY <1>5, <1>6 DEF PolicyInv

\* The order of the policies is kept.
LEMMA PolicyHolds ==
  ASSUME Policy!PolicyAssumption
  PROVE  Policy!Spec => []PolicyInv
<1>1. Policy!Init => PolicyInv
  <2> SUFFICES ASSUME Policy!Init PROVE PolicyInv
    OBVIOUS
  <2>1. PolicyShape
    BY SameCounts DEF Policy!Init, PolicyShape
  <2>2. Written = {} /\ Cardinality({}) = 0
    BY FS_EmptySet DEF Policy!Init, Written
  <2>3. VersionsInv
    BY <2>2 DEF Policy!Init, VersionsInv
  <2> QED BY <2>1, <2>3 DEF PolicyInv
<1>2. PolicyInv /\ [Policy!Next]_(Policy!vars) => PolicyInv'
  <2>1. CASE UNCHANGED Policy!vars
    BY <2>1 DEF Policy!vars, PolicyInv, PolicyShape, VersionsInv, Written
  <2> QED BY <2>1, AdminStep, SyncStep, WatcherStep DEF Policy!Next
<1> QED BY <1>1, <1>2, PTL DEF Policy!Spec

\* No version is ever anywhere that MongoDB does not have, and MongoDB has no more of them
\* than there were requests: optimistic concurrency lets one of those that race write.
THEOREM PolicyTypes ==
  ASSUME Policy!PolicyAssumption
  PROVE  Policy!Spec => []Policy!TypeOK
<1>1. PolicyInv => Policy!TypeOK
  BY VersionsAreBounded
<1> QED BY <1>1, PolicyHolds, PTL

\* Whichever replica publishes when, and whatever the watcher misses and catches up with,
\* neither Redis nor the detector goes back to an older version unless it restarts.
THEOREM PolicyGoesForward ==
  ASSUME Policy!PolicyAssumption
  PROVE  Policy!Spec => Policy!NeverGoesBack
<1> DEFINE Forward == /\ stored' < stored => stored' = 0
                      /\ running' < running => watcher' = "starting"
<1>1. PolicyInv /\ [Policy!Next]_(Policy!vars) => [Forward]_(Policy!vars)
  <2> SUFFICES ASSUME PolicyInv, Policy!Next PROVE Forward
    OBVIOUS
  <2> USE DEF Policy!api, Policy!ai
  <2>0. {top, stored, running, reported} \subseteq Nat /\ stored <= top
    BY DEF PolicyInv, VersionsInv
  <2>1. CASE UNCHANGED <<stored, running>>
    BY <2>0, <2>1
  <2>2. ASSUME NEW a \in Admin, Policy!Publish(a) PROVE Forward
    <3>1. expected[a] + 1 \in Nat /\ expected[a] + 1 <= top
      BY <2>0, <2>2 DEF Policy!Publish, PolicyInv, VersionsInv
    <3>2. stored <= stored' /\ stored' \in Nat /\ running' = running
      BY <2>2, <3>1, PutVersion DEF Policy!Publish
    <3> QED BY <2>0, <3>2
  <2>3. ASSUME NEW r \in Replica, Policy!SyncPublish(r) PROVE Forward
    <3>1. syncing[r] \in Nat /\ syncing[r] <= top
      BY <2>3 DEF PolicyInv, VersionsInv
    <3>2. stored <= stored' /\ stored' \in Nat /\ running' = running
      BY <2>3, <3>1, PutVersion DEF Policy!SyncPublish
    <3> QED BY <2>0, <3>2
  <2>4. CASE Policy!Prime \/ Policy!CatchUp
    <3>1. running <= running' /\ running' \in Nat /\ stored' = stored
      BY <2>0, <2>4, ApplyVersion DEF Policy!Prime, Policy!CatchUp, Policy!CaughtUp
    <3> QED BY <2>0, <3>1
  <2>5. CASE Policy!Receive
    <3>1. Head(mail) \in Nat /\ Head(mail) <= top
      BY <2>5 DEF Policy!Receive, PolicyInv, PolicyShape, VersionsInv
    <3>2. running <= running' /\ running' \in Nat /\ stored' = stored
      BY <2>5, <3>1, ApplyVersion DEF Policy!Receive
    <3> QED BY <2>0, <3>2
  <2>6. CASE Policy!AiRestarts \/ Policy!RedisRestarts
    BY <2>0, <2>6 DEF Policy!AiRestarts, Policy!RedisRestarts, Policy!Becomes
  <2> QED BY <2>1, <2>2, <2>3, <2>4, <2>5, <2>6
       DEF Policy!Next, Policy!Load, Policy!Check, Policy!InsertVersion, Policy!PublishFails,
           Policy!Sync, Policy!SyncRead, Policy!Watch, Policy!Subscribe, Policy!PrimeFails,
           Policy!Disconnect
<1> QED BY <1>1, PolicyHolds, PTL DEF Policy!Spec, Policy!NeverGoesBack

-----------------------------------------------------------------------------
(* The presence gate *)

HasEdge(q) == \E k \in DOMAIN q : Room!IsEdge(q[k])

\* The last edge of q is an entry.
EndsEntered(q) ==
  \E k \in DOMAIN q : /\ q[k].kind = "entered"
                      /\ \A j \in DOMAIN q : j > k => ~Room!IsEdge(q[j])

\* While the gate sees somebody, the last edge that is on its way to the AI service says so;
\* and when none is on its way, the AI service last heard so, forgot all it had heard, or
\* the edge is one of those the code loses.
AbsentInv ==
  gate = "present" =>
    \/ EndsEntered(queue)
    \/ ~HasEdge(queue) /\ EndsEntered(wire)
    \/ ~HasEdge(queue) /\ ~HasEdge(wire) /\ (heard # "absent" \/ missed)

RoomInv == Room!TypeOK /\ AbsentInv

\* An entry at the end of a queue is its last edge; a heartbeat changes nothing.
LEMMA LastEdge ==
  ASSUME NEW q \in Seq(Room!Event), NEW e \in Room!Event
  PROVE  /\ Append(q, e) \in Seq(Room!Event)
         /\ e.kind = "entered" => EndsEntered(Append(q, e))
         /\ ~Room!IsEdge(e) => /\ HasEdge(Append(q, e)) <=> HasEdge(q)
                               /\ EndsEntered(q) => EndsEntered(Append(q, e))
<1>1. /\ Append(q, e) \in Seq(Room!Event) /\ Len(Append(q, e)) = Len(q) + 1
      /\ \A k \in 1..Len(q) : Append(q, e)[k] = q[k]
      /\ Append(q, e)[Len(q) + 1] = e
  OBVIOUS
<1>2. DOMAIN q = 1..Len(q) /\ DOMAIN Append(q, e) = 1..(Len(q) + 1) /\ Len(q) \in Nat
  BY <1>1
<1>3. e.kind = "entered" => EndsEntered(Append(q, e))
  BY <1>1, <1>2 DEF EndsEntered
<1>4. ~Room!IsEdge(e) => (HasEdge(Append(q, e)) <=> HasEdge(q))
  BY <1>1, <1>2 DEF HasEdge
<1>5. ~Room!IsEdge(e) => (EndsEntered(q) => EndsEntered(Append(q, e)))
  BY <1>1, <1>2 DEF EndsEntered
<1> QED BY <1>1, <1>3, <1>4, <1>5

\* What is left of a queue whose head was taken.
LEMMA HeadTaken ==
  ASSUME NEW q \in Seq(Room!Event), q # <<>>
  PROVE  /\ Tail(q) \in Seq(Room!Event) /\ Head(q) \in Room!Event
         /\ HasEdge(Tail(q)) => HasEdge(q)
         /\ HasEdge(q) => Room!IsEdge(Head(q)) \/ HasEdge(Tail(q))
         /\ EndsEntered(q) => \/ EndsEntered(Tail(q))
                              \/ ~HasEdge(Tail(q)) /\ Head(q).kind = "entered"
<1>1. /\ Tail(q) \in Seq(Room!Event) /\ Head(q) \in Room!Event
      /\ Len(Tail(q)) = Len(q) - 1 /\ Len(q) \in Nat \ {0} /\ Head(q) = q[1]
      /\ \A k \in 1..Len(Tail(q)) : Tail(q)[k] = q[k + 1]
  OBVIOUS
<1>2. DOMAIN q = 1..Len(q) /\ DOMAIN Tail(q) = 1..(Len(q) - 1)
  BY <1>1
<1>3. \A k \in DOMAIN q : k # 1 => k - 1 \in DOMAIN Tail(q) /\ q[k] = Tail(q)[k - 1]
  BY <1>1, <1>2
<1>4. HasEdge(Tail(q)) => HasEdge(q)
  BY <1>1, <1>2 DEF HasEdge
<1>5. HasEdge(q) => Room!IsEdge(Head(q)) \/ HasEdge(Tail(q))
  BY <1>1, <1>3 DEF HasEdge
<1>6. ASSUME EndsEntered(q)
      PROVE  EndsEntered(Tail(q)) \/ (~HasEdge(Tail(q)) /\ Head(q).kind = "entered")
  <2>1. PICK k \in DOMAIN q : /\ q[k].kind = "entered"
                              /\ \A j \in DOMAIN q : j > k => ~Room!IsEdge(q[j])
    BY <1>6 DEF EndsEntered
  <2>2. \A j \in DOMAIN Tail(q) : j + 1 > k => ~Room!IsEdge(Tail(q)[j])
    BY <1>1, <1>2, <2>1
  <2>3. CASE k = 1
    <3>1. ~HasEdge(Tail(q))
      BY <1>2, <2>2, <2>3 DEF HasEdge
    <3> QED BY <1>1, <2>1, <2>3, <3>1
  <2>4. CASE k # 1
    <3>1. k - 1 \in DOMAIN Tail(q) /\ Tail(q)[k - 1].kind = "entered"
      BY <1>3, <2>1, <2>4
    <3>2. \A j \in DOMAIN Tail(q) : j > k - 1 => ~Room!IsEdge(Tail(q)[j])
      BY <1>2, <2>1, <2>2
    <3> QED BY <3>1, <3>2 DEF EndsEntered
  <2> QED BY <2>3, <2>4
<1> QED BY <1>1, <1>4, <1>5, <1>6

\* An entry that is a last edge is an edge.
LEMMA EndsHas ==
  ASSUME NEW q, EndsEntered(q)
  PROVE  HasEdge(q) /\ \E k \in DOMAIN q : q[k].kind = "entered"
BY DEF EndsEntered, HasEdge, Room!IsEdge

\* A frame: whatever the queue drops to make room, the newest edge is its last one.
LEMMA FrameStep ==
  ASSUME Room!PresenceAssumption, RoomInv, NEW person \in BOOLEAN, NEW beating \in BOOLEAN,
         Room!Frame(person, beating)
  PROVE  RoomInv'
<1> DEFINE after == seq + (IF beating THEN 1 ELSE 0)
           beats == IF beating THEN Room!Beaten(queue, after) ELSE queue
           edge  == Room!Edge(person)
           event == [kind |-> edge, id |-> after + 1]
<1>1. /\ seq \in 0..MaxSeq /\ queue \in Seq(Room!Event) /\ Len(queue) <= Depth
      /\ Depth \in Nat \ {0} /\ MaxSeq \in Nat /\ Debounce \in Nat \ {0}
      /\ gate \in {"unknown", "absent", "present"} /\ streak \in 0..Debounce
  BY DEF RoomInv, Room!TypeOK, Room!PresenceAssumption
<1>2. /\ after + 1 <= MaxSeq
      /\ streak' = Room!Streak(person)
      /\ gate' = CASE edge = "entered" -> "present" [] edge = "left" -> "absent" [] OTHER -> gate
      /\ seq' = IF edge = "none" THEN after ELSE after + 1
      /\ queue' = IF edge = "none" THEN beats ELSE Room!Submitted(beats, edge, after + 1)
      /\ UNCHANGED <<stream, wire, heard, fresh, settled, seen, missed, gfaults>>
  BY DEF Room!Frame, Room!ai
<1>3. after \in Nat /\ after + 1 \in 1..MaxSeq /\ (beating => after \in 1..MaxSeq)
  BY <1>1, <1>2
<1>4. /\ beats \in Seq(Room!Event) /\ Len(beats) <= Depth
      /\ HasEdge(beats) <=> HasEdge(queue)
      /\ EndsEntered(queue) => EndsEntered(beats)
  <2>1. CASE beating /\ Len(queue) < Depth
    <3> DEFINE pulse == [kind |-> "heartbeat", id |-> after]
    <3>1. pulse \in Room!Event
      BY <1>3, <2>1 DEF Room!Event, Room!Kind
    <3>2. beats = Append(queue, pulse)
      BY <2>1 DEF Room!Beaten
    <3>3. ~Room!IsEdge(pulse)
      BY DEF Room!IsEdge
    <3> HIDE DEF pulse, beats
    <3>4. /\ Append(queue, pulse) \in Seq(Room!Event)
          /\ HasEdge(Append(queue, pulse)) <=> HasEdge(queue)
          /\ EndsEntered(queue) => EndsEntered(Append(queue, pulse))
      BY <1>1, <3>1, <3>3, LastEdge
    <3>5. Len(beats) = Len(queue) + 1
      BY <1>1, <3>1, <3>2
    <3> QED BY <1>1, <2>1, <3>2, <3>4, <3>5
  <2>2. CASE ~(beating /\ Len(queue) < Depth)
    <3>1. beats = queue
      BY <2>2 DEF Room!Beaten
    <3> QED BY <1>1, <3>1
  <2> QED BY <2>1, <2>2
<1>5. edge \in {"none", "entered", "left"}
  BY DEF Room!Edge
<1>6. edge # "none" => /\ queue' \in Seq(Room!Event) /\ Len(queue') <= Depth
                       /\ edge = "entered" => EndsEntered(queue')
  <2> SUFFICES ASSUME edge # "none"
               PROVE  /\ queue' \in Seq(Room!Event) /\ Len(queue') <= Depth
                      /\ edge = "entered" => EndsEntered(queue')
    OBVIOUS
  <2>1. event \in Room!Event /\ event.kind = edge
    BY <1>3, <1>5 DEF Room!Event, Room!Kind
  <2>2. PICK q \in Seq(Room!Event) : Len(q) + 1 <= Depth /\ queue' = Append(q, event)
    <3> DEFINE rest == IF Len(beats) = Depth THEN Tail(beats) ELSE beats
    <3> HIDE DEF beats
    <3>1. rest \in Seq(Room!Event) /\ Len(rest) + 1 <= Depth
      <4>1. CASE Len(beats) = Depth
        <5>1. Len(beats) # 0 /\ beats # <<>>
          BY <1>1, <1>4, <4>1
        <5>2. Tail(beats) \in Seq(Room!Event) /\ Len(Tail(beats)) = Len(beats) - 1
          BY <1>4, <5>1
        <5> QED BY <1>1, <4>1, <5>2
      <4>2. CASE Len(beats) # Depth
        <5>1. Len(beats) \in Nat
          BY <1>4
        <5> QED BY <1>1, <1>4, <4>2, <5>1
      <4> QED BY <4>1, <4>2
    <3>2. queue' = Append(rest, event)
      BY <1>2 DEF Room!Submitted
    <3> QED BY <3>1, <3>2
  <2>3. Len(queue') = Len(q) + 1
    BY <2>1, <2>2
  <2> QED BY <2>1, <2>2, <2>3, LastEdge
<1>7. Room!TypeOK'
  <2>1. queue' \in Seq(Room!Event) /\ Len(queue') <= Depth
    BY <1>2, <1>4, <1>6
  <2>2. gate' \in {"unknown", "absent", "present"} /\ seq' \in 0..MaxSeq
    BY <1>1, <1>2, <1>3, <1>5
  <2>3. streak' \in 0..Debounce
    BY <1>1, <1>2 DEF Room!Streak
  <2> QED BY <1>2, <2>1, <2>2, <2>3 DEF RoomInv, Room!TypeOK
<1>8. AbsentInv'
  <2> SUFFICES ASSUME gate' = "present"
               PROVE  \/ EndsEntered(queue')
                      \/ ~HasEdge(queue') /\ EndsEntered(wire')
                      \/ ~HasEdge(queue') /\ ~HasEdge(wire') /\ (heard' # "absent" \/ missed')
    BY DEF AbsentInv, EndsEntered, HasEdge
  <2>1. CASE edge = "entered"
    BY <1>6, <2>1
  <2>2. CASE edge = "none"
    <3>1. gate = "present" /\ queue' = beats
      BY <1>2, <2>2
    <3> HIDE DEF beats
    <3>2. wire' = wire /\ heard' = heard /\ missed' = missed
      BY <1>2
    <3> QED BY <1>4, <3>1, <3>2 DEF RoomInv, AbsentInv
  <2>3. edge # "left"
    BY <1>2
  <2> QED BY <1>5, <2>1, <2>2, <2>3
<1> QED BY <1>7, <1>8 DEF RoomInv

\* An event goes from the end of one queue to the start of the other.
LEMMA SendStep ==
  ASSUME Room!PresenceAssumption, RoomInv, Room!Send
  PROVE  RoomInv'
<1>1. /\ stream /\ queue # <<>> /\ wire' = Append(wire, Head(queue)) /\ queue' = Tail(queue)
      /\ UNCHANGED <<gate, streak, seq, stream, heard, fresh, settled, seen, missed, gfaults>>
  BY DEF Room!Send, Room!ai
<1>2. queue \in Seq(Room!Event) /\ wire \in Seq(Room!Event) /\ Len(queue) <= Depth
      /\ Depth \in Nat
  BY DEF RoomInv, Room!TypeOK, Room!PresenceAssumption
<1>3. /\ Tail(queue) \in Seq(Room!Event) /\ Head(queue) \in Room!Event
      /\ HasEdge(Tail(queue)) => HasEdge(queue)
      /\ HasEdge(queue) => Room!IsEdge(Head(queue)) \/ HasEdge(Tail(queue))
      /\ EndsEntered(queue) => \/ EndsEntered(Tail(queue))
                               \/ ~HasEdge(Tail(queue)) /\ Head(queue).kind = "entered"
  BY <1>1, <1>2, HeadTaken
<1>4. Len(Tail(queue)) <= Depth
  <2>1. Len(Tail(queue)) = Len(queue) - 1
    BY <1>1, <1>2
  <2> QED BY <1>2, <2>1
<1>5. /\ wire' \in Seq(Room!Event)
      /\ Head(queue).kind = "entered" => EndsEntered(wire')
      /\ ~Room!IsEdge(Head(queue)) => /\ HasEdge(wire') <=> HasEdge(wire)
                                      /\ EndsEntered(wire) => EndsEntered(wire')
  BY <1>1, <1>2, <1>3, LastEdge
<1>6. Room!TypeOK'
  BY <1>1, <1>3, <1>4, <1>5 DEF RoomInv, Room!TypeOK
<1>7. ~HasEdge(queue) => ~Room!IsEdge(Head(queue))
  <2>1. 1 \in DOMAIN queue /\ Head(queue) = queue[1]
    BY <1>1, <1>2
  <2> QED BY <2>1 DEF HasEdge
<1>8. AbsentInv'
  <2> SUFFICES ASSUME gate' = "present"
               PROVE  \/ EndsEntered(queue')
                      \/ ~HasEdge(queue') /\ EndsEntered(wire')
                      \/ ~HasEdge(queue') /\ ~HasEdge(wire') /\ (heard' # "absent" \/ missed')
    BY DEF AbsentInv, EndsEntered, HasEdge
  <2>1. gate = "present" /\ heard' = heard /\ missed' = missed /\ queue' = Tail(queue)
    BY <1>1
  <2>2. CASE EndsEntered(queue)
    BY <1>3, <1>5, <2>1, <2>2
  <2>3. CASE ~HasEdge(queue) /\ EndsEntered(wire)
    BY <1>3, <1>5, <1>7, <2>1, <2>3
  <2>4. CASE ~HasEdge(queue) /\ ~HasEdge(wire) /\ (heard # "absent" \/ missed)
    BY <1>3, <1>5, <1>7, <2>1, <2>4
  <2> QED BY <2>1, <2>2, <2>3, <2>4 DEF RoomInv, AbsentInv
<1> QED BY <1>6, <1>8 DEF RoomInv

\* The head of the wire is heard.
LEMMA HandleStep ==
  ASSUME Room!PresenceAssumption, RoomInv, Room!Handle
  PROVE  RoomInv'
<1> DEFINE event == Head(wire)
<1>1. /\ wire # <<>> /\ wire' = Tail(wire)
      /\ UNCHANGED <<gate, streak, seq, queue, stream, gfaults>>
      /\ \/ Room!HeartbeatHeard(event) \/ Room!DuplicateHeard(event) \/ Room!EdgeHeard(event)
  BY DEF Room!Handle
<1>2. /\ wire \in Seq(Room!Event) /\ gate \in {"unknown", "absent", "present"}
      /\ heard \in {None, "absent", "present"} /\ fresh \in BOOLEAN /\ settled \in BOOLEAN
      /\ seen \subseteq 1..MaxSeq /\ missed \in BOOLEAN /\ (~stream => wire = <<>>)
  BY DEF RoomInv, Room!TypeOK
<1>3. /\ Tail(wire) \in Seq(Room!Event) /\ event \in Room!Event
      /\ HasEdge(Tail(wire)) => HasEdge(wire)
      /\ EndsEntered(wire) => \/ EndsEntered(Tail(wire))
                              \/ ~HasEdge(Tail(wire)) /\ event.kind = "entered"
  BY <1>1, <1>2, HeadTaken
<1>4. event.kind \in {"entered", "left", "heartbeat"} /\ event.id \in 1..MaxSeq
  BY <1>3 DEF Room!Event, Room!Kind
<1>5. Room!IsEdge(event) => HasEdge(wire)
  <2>1. 1 \in DOMAIN wire /\ event = wire[1]
    BY <1>1, <1>2
  <2> QED BY <2>1 DEF HasEdge
<1> HIDE DEF event
<1>6. /\ heard' \in {None, "absent", "present"} /\ fresh' \in BOOLEAN /\ settled' \in BOOLEAN
      /\ seen' \subseteq 1..MaxSeq /\ missed' \in BOOLEAN
  BY <1>1, <1>2, <1>4 DEF Room!HeartbeatHeard, Room!DuplicateHeard, Room!EdgeHeard, Room!ai
<1>7. Room!TypeOK'
  BY <1>1, <1>2, <1>3, <1>6 DEF RoomInv, Room!TypeOK
<1>8. /\ Room!IsEdge(event) /\ event.kind = "entered" => heard' = "present" \/ missed'
      /\ ~Room!IsEdge(event) => heard' = heard /\ missed' = missed
  BY <1>1, <1>2 DEF Room!HeartbeatHeard, Room!DuplicateHeard, Room!EdgeHeard
<1>9. AbsentInv'
  <2> SUFFICES ASSUME gate' = "present"
               PROVE  \/ EndsEntered(queue')
                      \/ ~HasEdge(queue') /\ EndsEntered(wire')
                      \/ ~HasEdge(queue') /\ ~HasEdge(wire') /\ (heard' # "absent" \/ missed')
    BY DEF AbsentInv, EndsEntered, HasEdge
  <2>1. gate = "present" /\ queue' = queue /\ wire' = Tail(wire)
    BY <1>1
  <2>2. CASE EndsEntered(queue)
    BY <2>1, <2>2
  <2>3. CASE ~HasEdge(queue) /\ EndsEntered(wire)
    <3>1. CASE EndsEntered(Tail(wire))
      BY <2>1, <2>3, <3>1
    <3>2. CASE ~HasEdge(Tail(wire)) /\ event.kind = "entered"
      <4>1. Room!IsEdge(event)
        BY <3>2 DEF Room!IsEdge
      <4>2. heard' # "absent" \/ missed'
        BY <1>8, <3>2, <4>1
      <4> QED BY <2>1, <2>3, <3>2, <4>2
    <3> QED BY <1>3, <2>3, <3>1, <3>2
  <2>4. CASE ~HasEdge(queue) /\ ~HasEdge(wire) /\ (heard # "absent" \/ missed)
    <3>1. ~Room!IsEdge(event)
      BY <1>5, <2>4
    <3> QED BY <1>3, <1>8, <2>1, <2>4, <3>1
  <2> QED BY <2>1, <2>2, <2>3, <2>4 DEF RoomInv, AbsentInv
<1> QED BY <1>7, <1>9 DEF RoomInv

\* Streams that break, processes that restart, and time.
LEMMA RoomBreaks ==
  ASSUME Room!PresenceAssumption, RoomInv,
         \/ Room!Connect \/ Room!StreamBreaks \/ Room!GateRestarts \/ Room!LeaseLapses
         \/ Room!HoldoffPasses \/ Room!AiRestarts
  PROVE  RoomInv'
<1> USE DEF Room!ai
<1>0. <<>> \in Seq(Room!Event) /\ Len(<<>>) = 0 /\ ~HasEdge(<<>>) /\ ~EndsEntered(<<>>)
  BY DEF HasEdge, EndsEntered
<1>1. Room!Fault => gfaults' \in 0..MaxFaults
  BY DEF Room!Fault, RoomInv, Room!TypeOK, Room!PresenceAssumption
<1>2. CASE Room!Connect \/ Room!LeaseLapses \/ Room!HoldoffPasses
  <2>1. Room!TypeOK'
    BY <1>2 DEF Room!Connect, Room!LeaseLapses, Room!HoldoffPasses, RoomInv, Room!TypeOK
  <2>2. AbsentInv'
    BY <1>2 DEF Room!Connect, Room!LeaseLapses, Room!HoldoffPasses, RoomInv, AbsentInv,
                HasEdge, EndsEntered
  <2> QED BY <2>1, <2>2 DEF RoomInv
<1>3. CASE Room!StreamBreaks
  <2>1. Room!TypeOK'
    BY <1>0, <1>1, <1>3 DEF Room!StreamBreaks, RoomInv, Room!TypeOK
  <2>2. missed' = (missed \/ HasEdge(wire)) /\ wire' = <<>>
        /\ UNCHANGED <<gate, queue, heard>>
    BY <1>3 DEF Room!StreamBreaks, HasEdge
  <2>3. EndsEntered(wire) => HasEdge(wire)
    BY EndsHas
  <2>4. AbsentInv'
    BY <1>0, <2>2, <2>3 DEF RoomInv, AbsentInv
  <2> QED BY <2>1, <2>4 DEF RoomInv
<1>4. CASE Room!GateRestarts
  <2>1. Room!TypeOK'
    <3>1. 0 \in 0..Debounce /\ 0 \in 0..MaxSeq /\ 0 <= Depth
      BY DEF Room!PresenceAssumption
    <3>2. /\ gate' = "unknown" /\ streak' = 0 /\ seq' = 0 /\ queue' = <<>>
          /\ stream' = FALSE /\ wire' = <<>> /\ gfaults' \in 0..MaxFaults
          /\ UNCHANGED <<heard, fresh, settled, seen, missed>>
      BY <1>1, <1>4 DEF Room!GateRestarts
    <3> QED BY <1>0, <3>1, <3>2 DEF RoomInv, Room!TypeOK
  <2>2. AbsentInv'
    BY <1>4 DEF Room!GateRestarts, AbsentInv
  <2> QED BY <2>1, <2>2 DEF RoomInv
<1>5. CASE Room!AiRestarts
  <2>1. Room!TypeOK'
    BY <1>0, <1>1, <1>5 DEF Room!AiRestarts, RoomInv, Room!TypeOK
  <2>2. /\ gate' = gate /\ queue' = queue /\ wire' = <<>> /\ heard' = None
        /\ None # "absent"
    BY <1>5 DEF Room!AiRestarts, Room!PresenceAssumption
  <2>3. AbsentInv'
    BY <1>0, <2>2 DEF RoomInv, AbsentInv
  <2> QED BY <2>1, <2>3 DEF RoomInv
<1> QED BY <1>2, <1>3, <1>4, <1>5

\* An edge of the wire or of the queue is on its way.
LEMMA OnTheWay ==
  ASSUME Room!TypeOK, EndsEntered(queue) \/ EndsEntered(wire)
  PROVE  Room!OnItsWay("entered")
<1>1. wire \in Seq(Room!Event) /\ queue \in Seq(Room!Event)
  BY DEF Room!TypeOK
<1>2. /\ DOMAIN (wire \o queue) = 1..(Len(wire) + Len(queue))
      /\ \A k \in 1..Len(wire) : (wire \o queue)[k] = wire[k]
      /\ \A k \in 1..Len(queue) : (wire \o queue)[k + Len(wire)] = queue[k]
      /\ Len(wire) \in Nat /\ Len(queue) \in Nat
      /\ DOMAIN wire = 1..Len(wire) /\ DOMAIN queue = 1..Len(queue)
  BY <1>1
<1>3. CASE EndsEntered(wire)
  <2>1. PICK k \in DOMAIN wire : wire[k].kind = "entered"
    BY <1>3 DEF EndsEntered
  <2>2. k \in DOMAIN (wire \o queue) /\ (wire \o queue)[k].kind = "entered"
    BY <1>2, <2>1
  <2> QED BY <2>2 DEF Room!OnItsWay
<1>4. CASE EndsEntered(queue)
  <2>1. PICK k \in DOMAIN queue : queue[k].kind = "entered"
    BY <1>4 DEF EndsEntered
  <2>2. /\ k + Len(wire) \in DOMAIN (wire \o queue)
        /\ (wire \o queue)[k + Len(wire)].kind = "entered"
    BY <1>2, <2>1
  <2> QED BY <2>2 DEF Room!OnItsWay
<1> QED BY <1>3, <1>4

\* However full the queue of the gate was, however often the stream broke and both processes
\* restarted: while the gate sees somebody, the AI service spares the pose model only as long
\* as it has yet to hear of the entry, or when the entry was one of those the code loses.
THEOREM PresenceHolds ==
  ASSUME Room!PresenceAssumption
  PROVE  Room!Spec => [](Room!TypeOK /\ Room!AbsentIsTrue)
<1>1. Room!Init => RoomInv
  <2> SUFFICES ASSUME Room!Init PROVE RoomInv
    OBVIOUS
  <2>1. Room!TypeOK
    <3>1. <<>> \in Seq(Room!Event) /\ Len(<<>>) = 0
      OBVIOUS
    <3>2. 0 \in 0..Debounce /\ 0 \in 0..MaxSeq /\ 0 <= Depth /\ 0 \in 0..MaxFaults
      BY DEF Room!PresenceAssumption
    <3> QED BY <3>1, <3>2 DEF Room!Init, Room!TypeOK
  <2>2. AbsentInv
    BY DEF Room!Init, AbsentInv
  <2> QED BY <2>1, <2>2 DEF RoomInv
<1>2. RoomInv /\ [Room!Next]_(Room!vars) => RoomInv'
  <2>1. CASE UNCHANGED Room!vars
    BY <2>1 DEF Room!vars, RoomInv, Room!TypeOK, AbsentInv, HasEdge, EndsEntered
  <2> QED BY <2>1, FrameStep, SendStep, HandleStep, RoomBreaks DEF Room!Next
<1>3. RoomInv => Room!TypeOK /\ Room!AbsentIsTrue
  <2> SUFFICES ASSUME RoomInv PROVE Room!AbsentIsTrue
    BY DEF RoomInv
  <2>1. EndsEntered(queue) \/ EndsEntered(wire) => Room!OnItsWay("entered")
    BY OnTheWay DEF RoomInv
  <2> QED BY <2>1 DEF RoomInv, AbsentInv, Room!AbsentIsTrue, Room!Absent
<1> QED BY <1>1, <1>2, <1>3, PTL DEF Room!Spec

-----------------------------------------------------------------------------
(* The frames of a camera *)

FlowShape ==
  /\ buffer \in Seq(Nat) /\ Len(buffer) <= MaxDepth
  /\ frames \in Seq(Nat) /\ Len(frames) <= QueueDepth
  /\ counted \in [{"captured", "overflow", "stale", "forwarded", "failed"} -> Nat]
  /\ tallied \in [{"published", "overflow", "failed"} -> Nat]
  /\ counted.captured <= MaxFrames
  /\ {aged, forwarding, analyzed, publishing, added} \subseteq 0..counted.captured
  /\ pace \in {"idle", "active"} /\ dwelling \in BOOLEAN /\ (dwelling => pace = "active")

\* Frames that wait were captured, and wait in the order they were captured in.
OrderInv ==
  /\ \A k \in DOMAIN buffer : buffer[k] \in 1..counted.captured
  /\ \A k \in DOMAIN frames : frames[k] \in 1..counted.captured
  /\ \A j, k \in DOMAIN frames : j < k => frames[j] < frames[k]

FlowInv == FlowShape /\ OrderInv /\ Frames!FramesAreAccounted

\* A full queue drops its oldest frame for the new one; the others stay in order.
LEMMA PushedFrame ==
  ASSUME NEW depth \in Nat \ {0}, NEW q \in Seq(Nat), Len(q) <= depth, NEW f \in Nat,
         NEW p, p = Frames!Pushed(q, depth, f)
  PROVE  /\ p \in Seq(Nat) /\ Len(p) <= depth
         /\ Len(p) = IF Len(q) = depth THEN Len(q) ELSE Len(q) + 1
         /\ \A k \in DOMAIN p : p[k] = f \/ \E j \in DOMAIN q : p[k] = q[j]
         /\ /\ \A k \in DOMAIN q : q[k] < f
            /\ \A j, k \in DOMAIN q : j < k => q[j] < q[k]
            => \A j, k \in DOMAIN p : j < k => p[j] < p[k]
<1> DEFINE rest == IF Len(q) = depth THEN Tail(q) ELSE q
           off  == IF Len(q) = depth THEN 1 ELSE 0
<1>1. Len(q) \in Nat /\ DOMAIN q = 1..Len(q) /\ off \in 0..1
  OBVIOUS
<1>2. /\ rest \in Seq(Nat) /\ Len(rest) = Len(q) - off
      /\ \A k \in 1..Len(rest) : k + off \in DOMAIN q /\ rest[k] = q[k + off]
  <2>1. CASE Len(q) = depth
    <3>1. q # <<>> /\ rest = Tail(q) /\ off = 1
      BY <2>1
    <3>2. Tail(q) \in Seq(Nat) /\ Len(Tail(q)) = Len(q) - 1
          /\ \A k \in 1..Len(Tail(q)) : Tail(q)[k] = q[k + 1]
      BY <3>1
    <3> HIDE DEF rest, off
    <3>3. \A k \in 1..Len(rest) : k + off \in DOMAIN q
      BY <1>1, <3>1, <3>2
    <3> QED BY <3>1, <3>2, <3>3
  <2>2. CASE Len(q) # depth
    <3>1. rest = q /\ off = 0
      BY <2>2
    <3> HIDE DEF rest, off
    <3>2. \A k \in 1..Len(rest) : k + off = k /\ k + off \in DOMAIN q
      BY <1>1, <3>1
    <3>3. Len(rest) = Len(q) - off
      BY <1>1, <3>1
    <3> QED BY <3>1, <3>2, <3>3
  <2> QED BY <2>1, <2>2
<1>0. off = IF Len(q) = depth THEN 1 ELSE 0
  OBVIOUS
<1> HIDE DEF rest, off
<1>3. p = Append(rest, f)
  BY DEF Frames!Pushed, rest
<1>4. /\ p \in Seq(Nat) /\ Len(p) = Len(rest) + 1 /\ DOMAIN p = 1..(Len(rest) + 1)
      /\ p[Len(rest) + 1] = f /\ \A k \in 1..Len(rest) : p[k] = rest[k]
      /\ Len(rest) \in Nat
  <2>1. rest \in Seq(Nat) /\ p = Append(rest, f)
    BY <1>2, <1>3
  <2>2. Len(rest) \in Nat
    BY <2>1
  <2>3. p \in Seq(Nat) /\ Len(p) = Len(rest) + 1 /\ DOMAIN p = 1..(Len(rest) + 1)
    BY <2>1
  <2>4. p[Len(rest) + 1] = f /\ \A k \in 1..Len(rest) : p[k] = rest[k]
    BY <2>1
  <2> QED BY <2>2, <2>3, <2>4
<1>5. \A k \in DOMAIN p : \/ k = Len(rest) + 1 /\ p[k] = f
                          \/ k \in 1..Len(rest) /\ k + off \in DOMAIN q /\ p[k] = q[k + off]
  <2> SUFFICES ASSUME NEW k \in DOMAIN p, k # Len(rest) + 1
               PROVE  k \in 1..Len(rest) /\ k + off \in DOMAIN q /\ p[k] = q[k + off]
    BY <1>4
  <2>1. k \in 1..Len(rest)
    BY <1>4
  <2> QED BY <1>2, <1>4, <2>1
<1>6. ASSUME \A k \in DOMAIN q : q[k] < f, \A j, k \in DOMAIN q : j < k => q[j] < q[k],
             NEW j \in DOMAIN p, NEW k \in DOMAIN p, j < k
      PROVE  p[j] < p[k]
  <2>1. j \in 1..Len(rest) /\ j + off \in DOMAIN q /\ p[j] = q[j + off]
    BY <1>4, <1>5, <1>6
  <2>2. CASE k = Len(rest) + 1
    BY <1>4, <1>6, <2>1, <2>2
  <2>3. CASE k \in 1..Len(rest) /\ k + off \in DOMAIN q /\ p[k] = q[k + off]
    <3>1. j + off < k + off
      BY <1>1, <1>6, <2>1, <2>3
    <3> QED BY <1>6, <2>1, <2>3, <3>1
  <2> QED BY <1>5, <2>2, <2>3
<1>7. Len(p) <= depth /\ Len(p) = IF Len(q) = depth THEN Len(q) ELSE Len(q) + 1
  <2>1. Len(p) = Len(rest) + 1 /\ Len(rest) = Len(q) - off
    BY <1>2, <1>4
  <2>2. Len(q) \in Nat
    OBVIOUS
  <2>3. CASE Len(q) = depth
    <3>1. off = 1
      BY <1>0, <2>3
    <3> QED BY <2>1, <2>2, <2>3, <3>1
  <2>4. CASE Len(q) # depth
    <3>1. off = 0
      BY <1>0, <2>4
    <3>2. Len(p) = Len(q) + 1
      BY <2>1, <2>2, <3>1
    <3>3. Len(q) + 1 <= depth
      BY <2>2, <2>4
    <3> QED BY <2>4, <3>2, <3>3
  <2> QED BY <2>3, <2>4
<1> QED BY <1>4, <1>3, <1>5, <1>6, <1>7

\* A part of a sum is bounded like the sum.
LEMMA PartsOfSum ==
  ASSUME NEW a \in Nat, NEW b \in Nat, NEW c \in Nat, NEW d \in Nat, NEW e \in Nat,
         NEW f \in Nat, NEW m \in Nat, m = a + b + c + d + e + f
  PROVE  c <= m /\ d <= m /\ e <= m /\ f <= m
OBVIOUS

\* A sequence is one over any set that has its elements.
LEMMA SequenceOver ==
  ASSUME NEW S, NEW q \in Seq(Nat), \A k \in DOMAIN q : q[k] \in S
  PROVE  q \in Seq(S)
OBVIOUS

\* The counters never exceed the frames: they count each once.
LEMMA FlowTypes ==
  ASSUME Frames!FrameAssumption, FlowInv
  PROVE  Frames!TypeOK
<1>1. /\ Len(buffer) \in Nat /\ Len(frames) \in Nat
      /\ Frames!InFlight(forwarding) \in Nat /\ Frames!InFlight(publishing) \in Nat
      /\ MaxFrames \in Nat
  <2>1. Frames!InFlight(forwarding) \in Nat /\ Frames!InFlight(publishing) \in Nat
    BY DEF Frames!InFlight
  <2>2. buffer \in Seq(Nat) /\ frames \in Seq(Nat)
    BY DEF FlowInv, FlowShape
  <2> QED BY <2>1, <2>2 DEF Frames!FrameAssumption
<1>2. \A c \in {"captured", "overflow", "stale", "forwarded", "failed"} :
        counted[c] \in 0..MaxFrames
  <2>1. /\ counted.captured \in Nat /\ counted.overflow \in Nat /\ counted.stale \in Nat
        /\ counted.forwarded \in Nat /\ counted.failed \in Nat /\ counted.captured <= MaxFrames
    BY DEF FlowInv, FlowShape
  <2>2. counted.captured = Len(buffer) + Frames!InFlight(forwarding) + counted.overflow
                             + counted.stale + counted.forwarded + counted.failed
    BY DEF FlowInv, Frames!FramesAreAccounted
  <2> DEFINE waits == Len(buffer)
             flies == Frames!InFlight(forwarding)
  <2>3. waits \in Nat /\ flies \in Nat
    BY <1>1
  <2> HIDE DEF waits, flies
  <2>4. /\ counted.overflow <= counted.captured /\ counted.stale <= counted.captured
        /\ counted.forwarded <= counted.captured /\ counted.failed <= counted.captured
    BY <2>1, <2>2, <2>3, PartsOfSum DEF waits, flies
  <2> QED BY <1>1, <2>1, <2>4
<1>3. \A c \in {"published", "overflow", "failed"} : tallied[c] \in 0..MaxFrames
  <2>1. /\ counted.captured \in Nat /\ counted.captured <= MaxFrames
        /\ tallied.overflow \in Nat /\ tallied.published \in Nat /\ tallied.failed \in Nat
    BY DEF FlowInv, FlowShape
  <2>2. counted.captured = Len(frames) + Frames!InFlight(publishing) + tallied.overflow
                             + tallied.published + tallied.failed
    BY DEF FlowInv, Frames!FramesAreAccounted
  <2>3. /\ tallied.overflow <= MaxFrames /\ tallied.published <= MaxFrames
        /\ tallied.failed <= MaxFrames
    <3> DEFINE waits == Len(frames)
               flies == Frames!InFlight(publishing)
    <3>1. waits \in Nat /\ flies \in Nat
      BY <1>1
    <3> HIDE DEF waits, flies
    <3>2. counted.captured = 0 + waits + flies + tallied.overflow + tallied.published
                               + tallied.failed
      BY <2>1, <2>2, <3>1 DEF waits, flies
    <3>3. /\ tallied.overflow <= counted.captured /\ tallied.published <= counted.captured
          /\ tallied.failed <= counted.captured
      BY <2>1, <3>1, <3>2, PartsOfSum
    <3> QED BY <1>1, <2>1, <3>3
  <2> QED BY <1>1, <2>1, <2>3
<1>4. buffer \in Seq(Frames!Frame) /\ frames \in Seq(Frames!Frame)
  <2>1. /\ buffer \in Seq(Nat) /\ frames \in Seq(Nat)
        /\ counted.captured \in Nat /\ counted.captured <= MaxFrames
        /\ \A k \in DOMAIN buffer : buffer[k] \in 1..counted.captured
        /\ \A k \in DOMAIN frames : frames[k] \in 1..counted.captured
    BY DEF FlowInv, FlowShape, OrderInv
  <2>2. 1..counted.captured \subseteq Frames!Frame
    BY <1>1, <2>1 DEF Frames!Frame
  <2> QED BY <2>1, <2>2, SequenceOver
<1>5. {aged, forwarding, analyzed, publishing, added} \subseteq 0..MaxFrames
  <2>1. /\ {aged, forwarding, analyzed, publishing, added} \subseteq 0..counted.captured
        /\ counted.captured \in Nat /\ counted.captured <= MaxFrames
    BY DEF FlowInv, FlowShape
  <2>2. 0..counted.captured \subseteq 0..MaxFrames
    BY <1>1, <2>1
  <2> QED BY <2>1, <2>2
<1>6. /\ counted \in [{"captured", "overflow", "stale", "forwarded", "failed"} -> 0..MaxFrames]
      /\ tallied \in [{"published", "overflow", "failed"} -> 0..MaxFrames]
  BY <1>2, <1>3 DEF FlowInv, FlowShape
<1> QED BY <1>4, <1>5, <1>6 DEF FlowInv, FlowShape, Frames!TypeOK

\* What the invariant says of the counters, and of the queues.
LEMMA FlowCounts ==
  ASSUME FlowInv
  PROVE  /\ counted.captured \in Nat /\ counted.overflow \in Nat /\ counted.stale \in Nat
         /\ counted.forwarded \in Nat /\ counted.failed \in Nat
         /\ tallied.published \in Nat /\ tallied.overflow \in Nat /\ tallied.failed \in Nat
         /\ {aged, forwarding, analyzed, publishing, added} \subseteq 0..counted.captured
BY DEF FlowInv, FlowShape

\* The queues and their bounds.
LEMMA FlowQueues ==
  ASSUME Frames!FrameAssumption, FlowInv
  PROVE  /\ buffer \in Seq(Nat) /\ Len(buffer) <= MaxDepth /\ MaxDepth \in Nat \ {0}
         /\ frames \in Seq(Nat) /\ Len(frames) <= QueueDepth /\ QueueDepth \in Nat \ {0}
BY DEF Frames!FrameAssumption, FlowInv, FlowShape

\* The sums of the frames, without the queues they come from.
LEMMA FlowSums ==
  ASSUME FlowInv
  PROVE  /\ Len(buffer) \in Nat /\ Len(frames) \in Nat
         /\ Frames!InFlight(forwarding) \in Nat /\ Frames!InFlight(publishing) \in Nat
         /\ counted.captured = Len(buffer) + Frames!InFlight(forwarding) + counted.overflow
                                 + counted.stale + counted.forwarded + counted.failed
         /\ counted.captured = Len(frames) + Frames!InFlight(publishing) + tallied.overflow
                                 + tallied.published + tallied.failed
<1>1. Len(buffer) \in Nat /\ Len(frames) \in Nat
  <2>1. buffer \in Seq(Nat) /\ frames \in Seq(Nat)
    BY DEF FlowInv, FlowShape
  <2> QED BY <2>1
<1>2. Frames!InFlight(forwarding) \in Nat /\ Frames!InFlight(publishing) \in Nat
  BY DEF Frames!InFlight
<1> QED BY <1>1, <1>2 DEF FlowInv, Frames!FramesAreAccounted

\* A captured frame is newer than all before it, takes its place at the end of both queues,
\* and the frames it drives out are counted.
LEMMA CaptureStep ==
  ASSUME Frames!FrameAssumption, FlowInv, Frames!Capture
  PROVE  FlowInv'
<1> DEFINE f == counted.captured + 1
<1>1. /\ f \in 1..MaxFrames
      /\ buffer' = Frames!Pushed(buffer, MaxDepth, f)
      /\ counted' = [counted EXCEPT !.captured = f,
                       !.overflow = IF Len(buffer) = MaxDepth THEN @ + 1 ELSE @]
      /\ frames' = Frames!Pushed(frames, QueueDepth, f)
      /\ tallied' = [tallied EXCEPT !.overflow = IF Len(frames) = QueueDepth THEN @ + 1 ELSE @]
      /\ UNCHANGED <<aged, forwarding, analyzed, publishing, added, pace, dwelling>>
  BY DEF Frames!Capture, Frames!Frame, Frames!forwarder, Frames!rate
<1>2. f \in Nat /\ counted.captured \in Nat /\ counted.captured < f /\ f = counted.captured + 1
  BY FlowCounts
<1> HIDE DEF f
<1>3. /\ counted' \in [{"captured", "overflow", "stale", "forwarded", "failed"} -> Nat]
      /\ counted'.captured = f
      /\ counted'.overflow = IF Len(buffer) = MaxDepth THEN counted.overflow + 1
                                                       ELSE counted.overflow
      /\ counted'.stale = counted.stale /\ counted'.forwarded = counted.forwarded
      /\ counted'.failed = counted.failed
  <2>1. counted \in [{"captured", "overflow", "stale", "forwarded", "failed"} -> Nat]
    BY DEF FlowInv, FlowShape
  <2>2. counted.overflow \in Nat /\ counted.overflow + 1 \in Nat
    BY <2>1
  <2> DEFINE full == Len(buffer) = MaxDepth
  <2>3. counted' = [counted EXCEPT !.captured = f,
                                   !.overflow = IF full THEN @ + 1 ELSE @]
    BY <1>1
  <2> HIDE DEF full
  <2>4. counted'.overflow = IF full THEN counted.overflow + 1 ELSE counted.overflow
    BY <2>1, <2>3
  <2> QED BY <1>2, <2>1, <2>2, <2>3, <2>4 DEF full
<1>4. /\ tallied' \in [{"published", "overflow", "failed"} -> Nat]
      /\ tallied'.overflow = IF Len(frames) = QueueDepth THEN tallied.overflow + 1
                                                        ELSE tallied.overflow
      /\ tallied'.published = tallied.published /\ tallied'.failed = tallied.failed
  <2>1. tallied \in [{"published", "overflow", "failed"} -> Nat]
    BY DEF FlowInv, FlowShape
  <2>2. tallied.overflow \in Nat /\ tallied.overflow + 1 \in Nat
    BY <2>1
  <2> DEFINE full == Len(frames) = QueueDepth
  <2>3. tallied' = [tallied EXCEPT !.overflow = IF full THEN @ + 1 ELSE @]
    BY <1>1
  <2> HIDE DEF full
  <2>4. tallied'.overflow = IF full THEN tallied.overflow + 1 ELSE tallied.overflow
    BY <2>1, <2>3
  <2> QED BY <2>1, <2>2, <2>3, <2>4 DEF full
<1>5. /\ buffer' \in Seq(Nat) /\ Len(buffer') <= MaxDepth
      /\ Len(buffer') = IF Len(buffer) = MaxDepth THEN Len(buffer) ELSE Len(buffer) + 1
      /\ \A k \in DOMAIN buffer' : buffer'[k] = f \/ \E j \in DOMAIN buffer : buffer'[k] = buffer[j]
  <2> DEFINE p == buffer'
  <2>1. /\ buffer \in Seq(Nat) /\ Len(buffer) <= MaxDepth /\ MaxDepth \in Nat \ {0} /\ f \in Nat
        /\ p = Frames!Pushed(buffer, MaxDepth, f)
    BY <1>1, <1>2, FlowQueues
  <2> HIDE DEF p
  <2>2. /\ p \in Seq(Nat) /\ Len(p) <= MaxDepth
        /\ Len(p) = IF Len(buffer) = MaxDepth THEN Len(buffer) ELSE Len(buffer) + 1
        /\ \A k \in DOMAIN p : p[k] = f \/ \E j \in DOMAIN buffer : p[k] = buffer[j]
        /\ /\ \A k \in DOMAIN buffer : buffer[k] < f
           /\ \A j, k \in DOMAIN buffer : j < k => buffer[j] < buffer[k]
           => \A j, k \in DOMAIN p : j < k => p[j] < p[k]
    BY <2>1, PushedFrame, SMTT(30)
  <2> QED BY <2>2 DEF p
<1>6. /\ frames' \in Seq(Nat) /\ Len(frames') <= QueueDepth
      /\ Len(frames') = IF Len(frames) = QueueDepth THEN Len(frames) ELSE Len(frames) + 1
      /\ \A k \in DOMAIN frames' : frames'[k] = f \/ \E j \in DOMAIN frames : frames'[k] = frames[j]
      /\ /\ \A k \in DOMAIN frames : frames[k] < f
         /\ \A j, k \in DOMAIN frames : j < k => frames[j] < frames[k]
         => \A j, k \in DOMAIN frames' : j < k => frames'[j] < frames'[k]
  <2> DEFINE p == frames'
  <2>1. /\ frames \in Seq(Nat) /\ Len(frames) <= QueueDepth /\ QueueDepth \in Nat \ {0} /\ f \in Nat
        /\ p = Frames!Pushed(frames, QueueDepth, f)
    BY <1>1, <1>2, FlowQueues
  <2> HIDE DEF p
  <2>2. /\ p \in Seq(Nat) /\ Len(p) <= QueueDepth
        /\ Len(p) = IF Len(frames) = QueueDepth THEN Len(frames) ELSE Len(frames) + 1
        /\ \A k \in DOMAIN p : p[k] = f \/ \E j \in DOMAIN frames : p[k] = frames[j]
        /\ /\ \A k \in DOMAIN frames : frames[k] < f
           /\ \A j, k \in DOMAIN frames : j < k => frames[j] < frames[k]
           => \A j, k \in DOMAIN p : j < k => p[j] < p[k]
    BY <2>1, PushedFrame, SMTT(30)
  <2> QED BY <2>2 DEF p
<1>7. /\ \A k \in DOMAIN buffer : buffer[k] \in 1..counted.captured /\ buffer[k] > analyzed
      /\ \A k \in DOMAIN frames : /\ frames[k] \in 1..counted.captured
                                  /\ frames[k] > added /\ frames[k] > publishing
      /\ \A j, k \in DOMAIN frames : j < k => frames[j] < frames[k]
  BY DEF FlowInv, OrderInv, Frames!FramesAreAccounted
<1>8. {aged, forwarding, analyzed, publishing, added} \subseteq 0..counted.captured
  BY FlowCounts
<1>9. FlowShape'
  <2>1. {aged, forwarding, analyzed, publishing, added}' \subseteq 0..f
    BY <1>1, <1>2, <1>8
  <2>2. f <= MaxFrames
    BY <1>1 DEF Frames!FrameAssumption
  <2>3. pace' \in {"idle", "active"} /\ dwelling' \in BOOLEAN /\ (dwelling' => pace' = "active")
    BY <1>1 DEF FlowInv, FlowShape
  <2> QED BY <1>3, <1>4, <1>5, <1>6, <2>1, <2>2, <2>3 DEF FlowShape
<1>10. /\ \A k \in DOMAIN buffer' : buffer'[k] \in 1..f /\ buffer'[k] > analyzed
       /\ \A k \in DOMAIN frames' : /\ frames'[k] \in 1..f
                                    /\ frames'[k] > added /\ frames'[k] > publishing
  <2>1. f \in 1..f /\ f > analyzed /\ f > added /\ f > publishing
    BY <1>2, <1>8
  <2>2. 1..counted.captured \subseteq 1..f
    BY <1>2
  <2> QED BY <1>5, <1>6, <1>7, <2>1, <2>2
<1>11. OrderInv'
  <2>1. \A k \in DOMAIN frames : frames[k] < f
    BY <1>2, <1>7
  <2> QED BY <1>3, <1>6, <1>7, <1>10, <2>1 DEF OrderInv
<1>12. Frames!FramesAreAccounted'
  <2> DEFINE waits == Len(buffer)
             queued == Len(frames)
             flies == Frames!InFlight(forwarding)
             adds == Frames!InFlight(publishing)
  <2>1. /\ waits \in Nat /\ queued \in Nat /\ flies \in Nat /\ adds \in Nat
        /\ counted.captured = waits + flies + counted.overflow
                                 + counted.stale + counted.forwarded + counted.failed
        /\ counted.captured = queued + adds + tallied.overflow
                                 + tallied.published + tallied.failed
    BY FlowSums
  <2>2. Frames!InFlight(forwarding') = flies /\ Frames!InFlight(publishing') = adds
    BY <1>1
  <2>3. /\ Len(buffer') \in Nat /\ Len(frames') \in Nat
        /\ counted'.overflow \in Nat /\ tallied'.overflow \in Nat
    <3>1. Len(buffer') \in Nat
      BY <1>5
    <3>2. Len(frames') \in Nat
      BY <1>6
    <3>3. counted'.overflow \in Nat
      BY <1>3
    <3>4. tallied'.overflow \in Nat
      BY <1>4
    <3> QED BY <3>1, <3>2, <3>3, <3>4
  <2>4. \/ Len(buffer') = waits /\ counted'.overflow = counted.overflow + 1
        \/ Len(buffer') = waits + 1 /\ counted'.overflow = counted.overflow
    BY <1>3, <1>5
  <2>5. \/ Len(frames') = queued /\ tallied'.overflow = tallied.overflow + 1
        \/ Len(frames') = queued + 1 /\ tallied'.overflow = tallied.overflow
    BY <1>4, <1>6
  <2> HIDE DEF waits, queued, flies, adds
  <2>6. f = Len(buffer') + flies + counted'.overflow
              + counted.stale + counted.forwarded + counted.failed
    <3> DEFINE w2 == Len(buffer')
               o2 == counted'.overflow
    <3>1. w2 \in Nat /\ o2 \in Nat
      BY <2>3
    <3>2. \/ w2 = waits /\ o2 = counted.overflow + 1
          \/ w2 = waits + 1 /\ o2 = counted.overflow
      BY <2>4
    <3>3. /\ counted.overflow \in Nat /\ counted.stale \in Nat /\ counted.forwarded \in Nat
          /\ counted.failed \in Nat
      BY FlowCounts
    <3> HIDE DEF w2, o2
    <3>4. f = w2 + flies + o2 + counted.stale + counted.forwarded + counted.failed
      <4>1. f = (waits + flies + counted.overflow + counted.stale + counted.forwarded
                   + counted.failed) + 1
        BY <1>2, <2>1
      <4>2. waits \in Nat /\ flies \in Nat
        BY <2>1
      <4>3. CASE w2 = waits /\ o2 = counted.overflow + 1
        BY <3>3, <4>1, <4>2, <4>3
      <4>4. CASE w2 = waits + 1 /\ o2 = counted.overflow
        BY <3>3, <4>1, <4>2, <4>4
      <4> QED BY <3>2, <4>3, <4>4
    <3> QED BY <3>4 DEF w2, o2
  <2>7. f = Len(frames') + adds + tallied'.overflow + tallied.published + tallied.failed
    <3> DEFINE q2 == Len(frames')
               o2 == tallied'.overflow
    <3>1. q2 \in Nat /\ o2 \in Nat
      BY <2>3
    <3>2. \/ q2 = queued /\ o2 = tallied.overflow + 1
          \/ q2 = queued + 1 /\ o2 = tallied.overflow
      BY <2>5
    <3>3. tallied.overflow \in Nat /\ tallied.published \in Nat /\ tallied.failed \in Nat
      BY FlowCounts
    <3> HIDE DEF q2, o2
    <3>4. f = q2 + adds + o2 + tallied.published + tallied.failed
      BY <1>2, <2>1, <3>1, <3>2, <3>3
    <3> QED BY <3>4 DEF q2, o2
  <2>8. /\ counted'.captured = Len(buffer') + Frames!InFlight(forwarding') + counted'.overflow
                                 + counted'.stale + counted'.forwarded + counted'.failed
        /\ counted'.captured = Len(frames') + Frames!InFlight(publishing') + tallied'.overflow
                                 + tallied'.published + tallied'.failed
    BY <1>3, <1>4, <2>2, <2>6, <2>7
  <2>9. \A k \in DOMAIN buffer' : buffer'[k] > analyzed'
    BY <1>1, <1>10
  <2>10. \A k \in DOMAIN frames' : frames'[k] > added' /\ frames'[k] > publishing'
    BY <1>1, <1>10
  <2> QED BY <2>8, <2>9, <2>10 DEF Frames!FramesAreAccounted
<1> QED BY <1>9, <1>11, <1>12 DEF FlowInv

\* What is taken from the buffer leaves it empty; whatever is not sent is counted as stale.
LEMMA PopStep ==
  ASSUME Frames!FrameAssumption, FlowInv, Frames!Pop
  PROVE  FlowInv'
<1> DEFINE f == Frames!Last(buffer)
           young == f > aged
           one == IF young THEN 1 ELSE 0
           waits == Len(buffer)
<1>1. /\ forwarding = 0 /\ buffer # <<>> /\ buffer' = <<>>
      /\ forwarding' = IF young THEN f ELSE 0
      /\ analyzed' = IF young THEN f ELSE analyzed
      /\ counted' = [counted EXCEPT !.stale = @ + waits - one]
      /\ UNCHANGED <<aged, frames, publishing, added, tallied, pace, dwelling>>
  BY DEF Frames!Pop, Frames!Left, Frames!publisher, Frames!rate
<1>2. f \in 1..counted.captured /\ waits \in Nat /\ waits > 0
  <2>1. buffer \in Seq(Nat) /\ buffer # <<>>
    BY <1>1, FlowQueues
  <2>2. Len(buffer) \in DOMAIN buffer /\ Len(buffer) \in Nat /\ Len(buffer) > 0
    BY <2>1
  <2> QED BY <2>2 DEF FlowInv, OrderInv, Frames!Last
<1>3. one \in 0..1 /\ one = IF young THEN 1 ELSE 0
  OBVIOUS
<1>4. /\ waits + counted.overflow + counted.stale + counted.forwarded + counted.failed
           = counted.captured
      /\ counted.captured = Len(frames) + Frames!InFlight(publishing) + tallied.overflow
                              + tallied.published + tallied.failed
  BY <1>1, <1>2, FlowSums, FlowCounts DEF Frames!InFlight
<1>5. Frames!InFlight(forwarding') = one
  BY <1>1, <1>2, FlowCounts DEF Frames!InFlight
<1>6. <<>> \in Seq(Nat) /\ Len(<<>>) = 0 /\ DOMAIN <<>> = {}
  OBVIOUS
<1> HIDE DEF f, young, waits, one
<1>7. /\ counted' \in [{"captured", "overflow", "stale", "forwarded", "failed"} -> Nat]
      /\ counted'.captured = counted.captured /\ counted'.overflow = counted.overflow
      /\ counted'.stale = counted.stale + waits - one
      /\ counted'.forwarded = counted.forwarded /\ counted'.failed = counted.failed
  <2>1. counted \in [{"captured", "overflow", "stale", "forwarded", "failed"} -> Nat]
    BY DEF FlowInv, FlowShape
  <2>2. counted.stale + waits - one \in Nat
    BY <1>2, <1>3, <2>1
  <2> DEFINE sum == counted.stale + waits - one
  <2>3. counted' = [counted EXCEPT !.stale = sum] /\ sum \in Nat
    BY <1>1, <2>2
  <2> HIDE DEF sum
  <2>4. /\ counted' \in [{"captured", "overflow", "stale", "forwarded", "failed"} -> Nat]
        /\ counted'.captured = counted.captured /\ counted'.overflow = counted.overflow
        /\ counted'.stale = sum
        /\ counted'.forwarded = counted.forwarded /\ counted'.failed = counted.failed
    BY <2>1, <2>3
  <2> QED BY <2>4 DEF sum
<1>8. FlowShape'
  <2>1. {aged, forwarding, analyzed, publishing, added}' \subseteq 0..counted.captured
    BY <1>1, <1>2, FlowCounts
  <2> QED BY <1>1, <1>6, <1>7, <2>1, FlowQueues DEF FlowInv, FlowShape
<1>9. OrderInv'
  <2>1. /\ \A k \in DOMAIN frames : frames[k] \in 1..counted.captured
        /\ \A j, k \in DOMAIN frames : j < k => frames[j] < frames[k]
        /\ frames' = frames /\ counted'.captured = counted.captured
        /\ DOMAIN buffer' = {}
    BY <1>1, <1>6, <1>7 DEF FlowInv, OrderInv
  <2> QED BY <2>1 DEF OrderInv
<1>10. Frames!FramesAreAccounted'
  <2>1. /\ counted.captured \in Nat /\ counted.overflow \in Nat /\ counted.stale \in Nat
        /\ counted.forwarded \in Nat /\ counted.failed \in Nat
    BY FlowCounts
  <2>2. counted.captured = 0 + one + counted.overflow + (counted.stale + waits - one)
                             + counted.forwarded + counted.failed
    BY <1>2, <1>3, <1>4, <2>1
  <2>3. counted'.captured = Len(buffer') + Frames!InFlight(forwarding') + counted'.overflow
                              + counted'.stale + counted'.forwarded + counted'.failed
    BY <1>1, <1>5, <1>6, <1>7, <2>2
  <2>4. counted'.captured = Len(frames') + Frames!InFlight(publishing') + tallied'.overflow
                              + tallied'.published + tallied'.failed
    BY <1>1, <1>4, <1>7
  <2>5. \A k \in DOMAIN frames : frames[k] > added /\ frames[k] > publishing
    BY DEF FlowInv, Frames!FramesAreAccounted
  <2>6. /\ \A k \in DOMAIN buffer' : buffer'[k] > analyzed'
        /\ \A k \in DOMAIN frames' : frames'[k] > added' /\ frames'[k] > publishing'
    BY <1>1, <1>6, <2>5
  <2> QED BY <2>3, <2>4, <2>6 DEF Frames!FramesAreAccounted
<1> QED BY <1>8, <1>9, <1>10 DEF FlowInv

\* The end of a call moves its frame to one of the counters of the forwarder.
LEMMA CallEnds ==
  ASSUME FlowInv, (\E present \in BOOLEAN : Frames!Analyzed(present)) \/ Frames!AnalyzeFails
  PROVE  FlowInv'
<1>1. /\ forwarding > 0 /\ forwarding' = 0
      /\ UNCHANGED <<buffer, aged, analyzed, frames, publishing, added, tallied>>
      /\ pace' \in {"idle", "active"} /\ dwelling' \in BOOLEAN /\ (dwelling' => pace' = "active")
  <2>1. /\ pace \in {"idle", "active"} /\ dwelling \in BOOLEAN
        /\ (dwelling => pace = "active") /\ aged \in Nat
    BY DEF FlowInv, FlowShape
  <2>2. ASSUME NEW present \in BOOLEAN, Frames!Analyzed(present)
        PROVE  /\ forwarding > 0 /\ forwarding' = 0
               /\ UNCHANGED <<buffer, aged, analyzed, frames, publishing, added, tallied>>
               /\ pace' \in {"idle", "active"} /\ dwelling' \in BOOLEAN
               /\ (dwelling' => pace' = "active")
    BY <2>1, <2>2 DEF Frames!Analyzed, Frames!publisher
  <2>3. CASE Frames!AnalyzeFails
    BY <2>1, <2>3 DEF Frames!AnalyzeFails, Frames!publisher, Frames!rate
  <2> QED BY <2>2, <2>3
<1>2. \/ counted' = [counted EXCEPT !.forwarded = @ + 1]
      \/ counted' = [counted EXCEPT !.failed = @ + 1]
  BY DEF Frames!Analyzed, Frames!AnalyzeFails
<1>3. /\ counted' \in [{"captured", "overflow", "stale", "forwarded", "failed"} -> Nat]
      /\ counted'.captured = counted.captured /\ counted'.overflow = counted.overflow
      /\ counted'.stale = counted.stale
      /\ \/ counted'.forwarded = counted.forwarded + 1 /\ counted'.failed = counted.failed
         \/ counted'.forwarded = counted.forwarded /\ counted'.failed = counted.failed + 1
  <2>1. /\ counted \in [{"captured", "overflow", "stale", "forwarded", "failed"} -> Nat]
        /\ counted.forwarded + 1 \in Nat /\ counted.failed + 1 \in Nat
    <3>1. counted \in [{"captured", "overflow", "stale", "forwarded", "failed"} -> Nat]
      BY DEF FlowInv, FlowShape
    <3> QED BY <3>1
  <2>2. CASE counted' = [counted EXCEPT !.forwarded = @ + 1]
    BY <2>1, <2>2
  <2>3. CASE counted' = [counted EXCEPT !.failed = @ + 1]
    BY <2>1, <2>3
  <2> QED BY <1>2, <2>2, <2>3
<1>4. Frames!InFlight(forwarding) = 1 /\ Frames!InFlight(forwarding') = 0
  BY <1>1, FlowCounts DEF Frames!InFlight
<1>5. FlowShape'
  BY <1>1, <1>3, FlowCounts DEF FlowInv, FlowShape
<1>6. OrderInv'
  BY <1>1, <1>3 DEF FlowInv, OrderInv
<1>7. Frames!FramesAreAccounted'
  <2> DEFINE waits == Len(buffer)
  <2>1. /\ counted.captured \in Nat /\ counted.overflow \in Nat /\ counted.stale \in Nat
        /\ counted.forwarded \in Nat /\ counted.failed \in Nat /\ waits \in Nat
        /\ counted.captured = waits + 1 + counted.overflow
                                + counted.stale + counted.forwarded + counted.failed
    BY <1>4, FlowCounts, FlowSums
  <2>2. waits = Len(buffer')
    BY <1>1
  <2> HIDE DEF waits
  <2>3. counted'.captured = waits + 0 + counted'.overflow
                              + counted'.stale + counted'.forwarded + counted'.failed
    BY <1>3, <2>1
  <2> QED BY <1>1, <1>3, <1>4, <2>2, <2>3 DEF FlowInv, Frames!FramesAreAccounted
<1> QED BY <1>5, <1>6, <1>7 DEF FlowInv

\* The publisher takes the oldest frame that waits: those behind it are newer.
LEMMA TakeStep ==
  ASSUME Frames!FrameAssumption, FlowInv, Frames!Take
  PROVE  FlowInv'
<1>1. /\ publishing = 0 /\ frames # <<>> /\ publishing' = Head(frames) /\ frames' = Tail(frames)
      /\ UNCHANGED <<buffer, aged, forwarding, analyzed, counted, added, tallied, pace, dwelling>>
  BY DEF Frames!Take, Frames!forwarder, Frames!rate
<1>2. /\ frames \in Seq(Nat) /\ Len(frames) <= QueueDepth
      /\ \A k \in DOMAIN frames : frames[k] \in 1..counted.captured /\ frames[k] > added
      /\ \A j, k \in DOMAIN frames : j < k => frames[j] < frames[k]
  BY DEF FlowInv, FlowShape, OrderInv, Frames!FramesAreAccounted
<1>3. /\ 1 \in DOMAIN frames /\ Head(frames) = frames[1] /\ Len(frames) \in Nat
  BY <1>1, <1>2
<1>4. /\ Tail(frames) \in Seq(Nat) /\ Len(Tail(frames)) = Len(frames) - 1
      /\ \A k \in DOMAIN Tail(frames) : /\ k + 1 \in DOMAIN frames
                                        /\ Tail(frames)[k] = frames[k + 1]
                                        /\ k \in Nat \ {0}
  BY <1>1, <1>2
<1> DEFINE rest == Tail(frames)
<1>5. /\ rest \in Seq(Nat) /\ Len(rest) = Len(frames) - 1 /\ frames' = rest
      /\ \A k \in DOMAIN rest : /\ k + 1 \in DOMAIN frames /\ rest[k] = frames[k + 1]
                                /\ k \in Nat \ {0}
  BY <1>1, <1>4
<1> HIDE DEF rest
<1>6. publishing' = frames[1] /\ publishing' \in 1..counted.captured
  BY <1>1, <1>2, <1>3
<1>7. /\ \A k \in DOMAIN rest : /\ rest[k] \in 1..counted.captured
                                /\ rest[k] > added /\ frames[1] < rest[k]
      /\ \A j, k \in DOMAIN rest : j < k => rest[j] < rest[k]
  <2>1. ASSUME NEW k \in DOMAIN rest
        PROVE  /\ rest[k] \in 1..counted.captured
               /\ rest[k] > added /\ frames[1] < rest[k]
    <3>1. k + 1 \in DOMAIN frames /\ rest[k] = frames[k + 1] /\ 1 < k + 1
      BY <1>5
    <3> QED BY <1>2, <1>3, <3>1
  <2>2. ASSUME NEW j \in DOMAIN rest, NEW k \in DOMAIN rest, j < k
        PROVE  rest[j] < rest[k]
    <3>1. /\ j + 1 \in DOMAIN frames /\ rest[j] = frames[j + 1]
          /\ k + 1 \in DOMAIN frames /\ rest[k] = frames[k + 1] /\ j + 1 < k + 1
      BY <1>5, <2>2
    <3> QED BY <1>2, <3>1
  <2> QED BY <2>1, <2>2
<1>8. FlowShape'
  <2>1. Len(rest) <= QueueDepth
    BY <1>2, <1>3, <1>5, FlowQueues
  <2>2. {aged, forwarding, analyzed, publishing, added}' \subseteq 0..counted.captured
    BY <1>1, <1>6, FlowCounts
  <2> QED BY <1>1, <1>5, <2>1, <2>2 DEF FlowInv, FlowShape
<1>9. OrderInv'
  BY <1>1, <1>5, <1>7 DEF FlowInv, OrderInv
<1>10. Frames!FramesAreAccounted'
  <2>1. Frames!InFlight(publishing) = 0 /\ Frames!InFlight(publishing') = 1
    BY <1>1, <1>6, FlowCounts DEF Frames!InFlight
  <2>2. /\ counted.captured = Len(frames) + 0 + tallied.overflow
                                + tallied.published + tallied.failed
        /\ Len(frames) \in Nat
        /\ tallied.published \in Nat /\ tallied.overflow \in Nat /\ tallied.failed \in Nat
    BY <2>1, FlowSums, FlowCounts
  <2>3. counted.captured = (Len(frames) - 1) + 1 + tallied.overflow
                             + tallied.published + tallied.failed
    BY <2>2
  <2>4. counted'.captured = Len(frames') + Frames!InFlight(publishing') + tallied'.overflow
                              + tallied'.published + tallied'.failed
    BY <1>1, <1>5, <2>1, <2>3
  <2>5. \A k \in DOMAIN frames' : frames'[k] > added' /\ frames'[k] > publishing'
    <3>1. ASSUME NEW k \in DOMAIN rest PROVE rest[k] > added /\ rest[k] > frames[1]
      <4>1. rest[k] \in Nat /\ frames[1] \in Nat
        BY <1>2, <1>3, <1>5
      <4> QED BY <1>7, <4>1
    <3> QED BY <1>1, <1>5, <1>6, <3>1
  <2>6. counted'.captured = Len(buffer') + Frames!InFlight(forwarding') + counted'.overflow
                              + counted'.stale + counted'.forwarded + counted'.failed
        /\ \A k \in DOMAIN buffer' : buffer'[k] > analyzed'
    BY <1>1 DEF FlowInv, Frames!FramesAreAccounted
  <2> QED BY <2>4, <2>5, <2>6 DEF Frames!FramesAreAccounted
<1> QED BY <1>8, <1>9, <1>10 DEF FlowInv

\* The end of an XADD moves its frame to one of the counters of the publisher; the stream may
\* hold the frame although the call failed.
LEMMA AddEnds ==
  ASSUME FlowInv, Frames!Add \/ Frames!AddFails
  PROVE  FlowInv'
<1>1. /\ publishing > 0 /\ publishing' = 0 /\ (added' = added \/ added' = publishing)
      /\ UNCHANGED <<buffer, aged, forwarding, analyzed, counted, frames, pace, dwelling>>
  BY DEF Frames!Add, Frames!AddFails, Frames!forwarder, Frames!rate
<1>2. \/ tallied' = [tallied EXCEPT !.published = @ + 1]
      \/ tallied' = [tallied EXCEPT !.failed = @ + 1]
  BY DEF Frames!Add, Frames!AddFails
<1>3. /\ tallied' \in [{"published", "overflow", "failed"} -> Nat]
      /\ tallied'.overflow = tallied.overflow
      /\ \/ tallied'.published = tallied.published + 1 /\ tallied'.failed = tallied.failed
         \/ tallied'.published = tallied.published /\ tallied'.failed = tallied.failed + 1
  <2>1. /\ tallied \in [{"published", "overflow", "failed"} -> Nat]
        /\ tallied.published + 1 \in Nat /\ tallied.failed + 1 \in Nat
    <3>1. tallied \in [{"published", "overflow", "failed"} -> Nat]
      BY DEF FlowInv, FlowShape
    <3> QED BY <3>1
  <2>2. CASE tallied' = [tallied EXCEPT !.published = @ + 1]
    BY <2>1, <2>2
  <2>3. CASE tallied' = [tallied EXCEPT !.failed = @ + 1]
    BY <2>1, <2>3
  <2> QED BY <1>2, <2>2, <2>3
<1>4. Frames!InFlight(publishing) = 1 /\ Frames!InFlight(publishing') = 0
  BY <1>1, FlowCounts DEF Frames!InFlight
<1>5. FlowShape'
  <2>1. {aged, forwarding, analyzed, publishing, added}' \subseteq 0..counted.captured
    BY <1>1, FlowCounts
  <2> QED BY <1>1, <1>3, <2>1 DEF FlowInv, FlowShape
<1>6. OrderInv'
  BY <1>1 DEF FlowInv, OrderInv
<1>7. Frames!FramesAreAccounted'
  <2> DEFINE waits == Len(frames)
  <2>1. /\ counted.captured \in Nat /\ tallied.overflow \in Nat
        /\ tallied.published \in Nat /\ tallied.failed \in Nat /\ waits \in Nat
        /\ counted.captured = waits + 1 + tallied.overflow + tallied.published + tallied.failed
    BY <1>4, FlowCounts, FlowSums
  <2>2. waits = Len(frames')
    BY <1>1
  <2> HIDE DEF waits
  <2>3. counted.captured = waits + 0 + tallied'.overflow + tallied'.published + tallied'.failed
    BY <1>3, <2>1
  <2>4. \A k \in DOMAIN frames : /\ frames[k] > added /\ frames[k] > publishing
                                 /\ frames[k] \in Nat \ {0}
    <3>1. \A k \in DOMAIN frames : frames[k] \in 1..counted.captured
      BY DEF FlowInv, OrderInv
    <3>2. \A k \in DOMAIN frames : frames[k] > added /\ frames[k] > publishing
      BY DEF FlowInv, Frames!FramesAreAccounted
    <3> QED BY <2>1, <3>1, <3>2
  <2>5. \A k \in DOMAIN frames' : frames'[k] > added' /\ frames'[k] > publishing'
    BY <1>1, <2>4
  <2>6. counted'.captured = Len(frames') + Frames!InFlight(publishing') + tallied'.overflow
                              + tallied'.published + tallied'.failed
    BY <1>1, <1>4, <2>2, <2>3
  <2>7. counted'.captured = Len(buffer') + Frames!InFlight(forwarding') + counted'.overflow
                              + counted'.stale + counted'.forwarded + counted'.failed
        /\ \A k \in DOMAIN buffer' : buffer'[k] > analyzed'
    BY <1>1 DEF FlowInv, Frames!FramesAreAccounted
  <2> QED BY <2>5, <2>6, <2>7 DEF Frames!FramesAreAccounted
<1> QED BY <1>5, <1>6, <1>7 DEF FlowInv

\* For queues of any depth, calls that fail and frames that get old: every captured frame is
\* in one place or counter of the forwarder and of the publisher, and neither sends a frame
\* after a newer one.
THEOREM FlowHolds ==
  ASSUME Frames!FrameAssumption
  PROVE  Frames!Spec => [](Frames!TypeOK /\ Frames!FramesAreAccounted)
<1>1. Frames!Init => FlowInv
  <2> SUFFICES ASSUME Frames!Init PROVE FlowInv
    OBVIOUS
  <2>1. <<>> \in Seq(Nat) /\ Len(<<>>) = 0 /\ DOMAIN <<>> = {}
    OBVIOUS
  <2>2. /\ buffer = <<>> /\ frames = <<>> /\ aged = 0 /\ forwarding = 0 /\ analyzed = 0
        /\ publishing = 0 /\ added = 0 /\ pace = "idle" /\ dwelling = FALSE
        /\ counted = [c \in {"captured", "overflow", "stale", "forwarded", "failed"} |-> 0]
        /\ tallied = [c \in {"published", "overflow", "failed"} |-> 0]
    BY DEF Frames!Init
  <2>3. FlowShape
    <3>1. counted \in [{"captured", "overflow", "stale", "forwarded", "failed"} -> Nat]
          /\ counted.captured = 0
      BY <2>2
    <3>2. tallied \in [{"published", "overflow", "failed"} -> Nat]
      BY <2>2
    <3>3. Len(buffer) <= MaxDepth /\ Len(frames) <= QueueDepth /\ 0 <= MaxFrames
      BY <2>1, <2>2 DEF Frames!FrameAssumption
    <3>4. /\ buffer \in Seq(Nat) /\ frames \in Seq(Nat)
          /\ {aged, forwarding, analyzed, publishing, added} \subseteq 0..counted.captured
      BY <2>1, <2>2, <3>1
    <3> QED BY <2>2, <3>1, <3>2, <3>3, <3>4 DEF FlowShape
  <2>4. OrderInv
    BY <2>1, <2>2 DEF OrderInv
  <2>5. Frames!FramesAreAccounted
    BY <2>1, <2>2 DEF Frames!FramesAreAccounted, Frames!InFlight
  <2> QED BY <2>3, <2>4, <2>5 DEF FlowInv
<1>2. FlowInv /\ [Frames!Next]_(Frames!vars) => FlowInv'
  <2> SUFFICES ASSUME FlowInv, [Frames!Next]_(Frames!vars) PROVE FlowInv'
    OBVIOUS
  <2>1. CASE Frames!Age \/ Frames!DwellPasses \/ UNCHANGED Frames!vars
    <3>1. UNCHANGED <<buffer, forwarding, analyzed, counted, frames, publishing, added, tallied>>
      BY <2>1 DEF Frames!Age, Frames!DwellPasses, Frames!vars, Frames!publisher, Frames!forwarder
    <3>2. aged' \in 0..counted.captured
      <4>1. aged \in 0..counted.captured /\ counted.captured \in Nat
        BY FlowCounts
      <4>2. aged' = aged \/ aged' \in (aged + 1)..counted.captured
        BY <2>1 DEF Frames!Age, Frames!DwellPasses, Frames!vars, Frames!forwarder
      <4> QED BY <4>1, <4>2
    <3>3. pace' \in {"idle", "active"} /\ dwelling' \in BOOLEAN /\ (dwelling' => pace' = "active")
      <4>1. pace \in {"idle", "active"} /\ dwelling \in BOOLEAN /\ (dwelling => pace = "active")
        BY DEF FlowInv, FlowShape
      <4>2. pace' = pace /\ (dwelling' = dwelling \/ dwelling' = FALSE)
        BY <2>1 DEF Frames!Age, Frames!DwellPasses, Frames!vars, Frames!rate
      <4>3. dwelling' \in BOOLEAN /\ (dwelling' => dwelling)
        <5>1. CASE dwelling' = dwelling
          <6>1. dwelling' \in BOOLEAN
            BY <4>1, <5>1, Zenon
          <6> QED BY <5>1, <6>1
        <5>2. CASE dwelling' = FALSE
          BY <5>2
        <5> QED BY <4>2, <5>1, <5>2
      <4> QED BY <4>1, <4>2, <4>3
    <3>4. FlowShape'
      BY <3>1, <3>2, <3>3 DEF FlowInv, FlowShape
    <3>5. OrderInv' /\ Frames!FramesAreAccounted'
      BY <3>1 DEF FlowInv, OrderInv, Frames!FramesAreAccounted
    <3> QED BY <3>4, <3>5 DEF FlowInv
  <2> QED BY <2>1, CaptureStep, PopStep, CallEnds, TakeStep, AddEnds DEF Frames!Next
<1>3. FlowInv => Frames!TypeOK /\ Frames!FramesAreAccounted
  BY FlowTypes DEF FlowInv
<1> QED BY <1>1, <1>2, <1>3, PTL DEF Frames!Spec

-----------------------------------------------------------------------------
(* The session of the console *)

\* An answer, or a redirect without its cookies, that brings a navigation the newest token.
Brings(n) == nav[n].at \in {"ok", "redirected"} /\ nav[n].token = newestToken

\* The newest token is in the cookies, or in an answer that is on its way to them; or it was
\* dropped with a redirect, and the navigation is to bring another.
NewestIsKept ==
  \/ jar.token = newestToken
  \/ \E t \in Tab : tab[t].at = "ok" /\ tab[t].token = newestToken
  \/ \E n \in Nav : Brings(n) \/ nav[n].at = "sent"

\* While the session is live there are cookies, and the web server is not refused.
JarInv == jar.token # 0 /\ \A n \in Nav : nav[n].at # "refused"

\* Unless something was behind, the cookies and the tokens on their way are young.
YoungInv ==
  ~behind => /\ NewestIsKept /\ jar.token > grace
             /\ \A t \in Tab : tab[t].at \in {"sent", "ok"} /\ tab[t].token # 0 =>
                  tab[t].token > grace
             /\ \A n \in Nav : nav[n].at \in {"sent", "ok"} => nav[n].token > grace

\* Unless something failed, a tab sends the CSRF token that it has read, and is not refused.
HeaderInv ==
  ~failed => \A t \in Tab : /\ tab[t].at = "reads" => tab[t].csrf = jar.token
                            /\ tab[t].at = "sent" => tab[t].csrf = tab[t].token
                            /\ tab[t].at # "refused"

LiveInv == session = "live" => JarInv /\ YoungInv /\ HeaderInv

\* What is on its way was issued, and no answer or navigation is without a token.
CarriedInv ==
  /\ \A t \in Tab : /\ tab[t].at \in {"sent", "ok"} => tab[t].token <= newestToken
                    /\ tab[t].at = "ok" => tab[t].token # 0
                    /\ tab[t].at \in {"reads", "sent"} => tab[t].csrf # 0
  /\ \A n \in Nav : nav[n].at \in {"sent", "ok"} => nav[n].token # 0 /\ nav[n].token <= newestToken

ConsoleInv == /\ Console!TypeOK /\ CarriedInv /\ LiveInv
              /\ Console!OwnRenewalsAreNoReuse /\ Console!LoginIsNeeded

TabState == [at : {"idle", "waits", "reads", "sent", "ok", "refused", "retries", "login"},
             csrf : Console!Token, token : Console!Token]
NavState == [at : {"idle", "sent", "ok", "refused", "redirected", "login"},
             token : Console!Token, root : BOOLEAN]
Holding  == {"reads", "sent", "ok", "refused"}

\* The types of the console, field by field.
LEMMA ConsoleShape ==
  ASSUME Console!ConsoleAuthAssumption, Console!TypeOK
  PROVE  /\ MaxTokens \in Nat \ {0} /\ MaxHops \in Nat /\ MaxLosses \in Nat
         /\ None \notin Tab \cup Nav
         /\ newestToken \in Nat /\ grace \in Nat /\ grace < newestToken /\ newestToken <= MaxTokens
         /\ jar.token \in Nat /\ jar.token <= newestToken /\ jar.access \in BOOLEAN
         /\ tab \in [Tab -> TabState] /\ nav \in [Nav -> NavState]
         /\ \A t \in Tab : tablock = t <=> tab[t].at \in Holding
         /\ \A t \in Tab : tab[t].csrf \in Nat /\ tab[t].token \in Nat
         /\ \A n \in Nav : nav[n].token \in Nat
<1>1. tab \in [Tab -> TabState] /\ nav \in [Nav -> NavState]
  BY DEF Console!TypeOK, TabState, NavState
<1>2. \A k \in Console!Token : k \in Nat /\ k <= MaxTokens
  BY DEF Console!Token, Console!ConsoleAuthAssumption
<1>3. /\ \A t \in Tab : tab[t].csrf \in Nat /\ tab[t].token \in Nat
      /\ \A n \in Nav : nav[n].token \in Nat
  BY <1>1, <1>2 DEF TabState, NavState
<1>4. /\ newestToken \in Nat /\ grace \in Nat /\ grace < newestToken /\ newestToken <= MaxTokens
      /\ jar.token \in Nat /\ jar.token <= newestToken /\ jar.access \in BOOLEAN
  BY <1>2 DEF Console!TypeOK
<1>5. \A t \in Tab : tablock = t <=> tab[t].at \in Holding
  BY DEF Console!TypeOK, Holding
<1>6. MaxTokens \in Nat \ {0} /\ MaxHops \in Nat /\ MaxLosses \in Nat /\ None \notin Tab \cup Nav
  BY DEF Console!ConsoleAuthAssumption
<1> QED BY <1>1, <1>3, <1>4, <1>5, <1>6

\* A tab goes from one step to another, with the lock, for it or without it.
LEMMA TabMoves ==
  ASSUME Console!ConsoleAuthAssumption, Console!TypeOK, NEW t \in Tab, NEW r \in TabState,
         tab' = [tab EXCEPT ![t] = r],
         \/ tablock' = tablock /\ (tab[t].at \in Holding <=> r.at \in Holding)
         \/ tablock' = None /\ tablock = t /\ r.at \notin Holding
         \/ tablock' = t /\ tablock = None /\ r.at \in Holding
  PROVE  /\ tab' \in [Tab -> TabState] /\ tab'[t] = r /\ \A s \in Tab \ {t} : tab'[s] = tab[s]
         /\ tablock' \in Tab \cup {None}
         /\ \A s \in Tab : tablock' = s <=> tab'[s].at \in Holding
<1>1. /\ tab \in [Tab -> TabState] /\ tablock \in Tab \cup {None} /\ None \notin Tab
      /\ \A s \in Tab : tablock = s <=> tab[s].at \in Holding
  BY ConsoleShape DEF Console!TypeOK
<1>2. tab' \in [Tab -> TabState] /\ tab'[t] = r /\ \A s \in Tab \ {t} : tab'[s] = tab[s]
  BY <1>1
<1>3. \A s \in Tab : tablock' = s <=> tab'[s].at \in Holding
  <2>1. tablock' = t <=> tab'[t].at \in Holding
    BY <1>1, <1>2
  <2>2. ASSUME NEW s \in Tab \ {t} PROVE tablock' = s <=> tab'[s].at \in Holding
    BY <1>1, <1>2
  <2> QED BY <2>1, <2>2
<1>4. tablock' \in Tab \cup {None}
  BY <1>1
<1> QED BY <1>2, <1>3, <1>4

\* What the answers to a token are to the session and to the newest token.
LEMMA AnswerShape ==
  ASSUME Console!ConsoleAuthAssumption, Console!TypeOK, NEW k \in Nat, Console!Answered(k)
  PROVE  /\ newestToken' \in {newestToken, newestToken + 1} /\ newestToken' <= MaxTokens
         /\ session' \in {"live", "ended", "reused"}
         /\ Console!Rotates(k) => newestToken' = newestToken + 1 /\ session' = session
         /\ ~Console!Rotates(k) => /\ newestToken' = newestToken /\ session' # "live"
                                   /\ session' = "reused" => \/ session = "reused"
                                                             \/ session = "live"
                                                                  /\ ~Console!Usable(k)
<1>1. /\ Console!Rotates(k) => newestToken < MaxTokens
      /\ newestToken' = IF Console!Rotates(k) THEN newestToken + 1 ELSE newestToken
      /\ session' = IF session = "live" /\ ~Console!Usable(k) THEN "reused" ELSE session
  BY DEF Console!Answered
<1>2. Console!Rotates(k) <=> session = "live" /\ Console!Usable(k)
  BY DEF Console!Rotates
<1>3. session \in {"live", "ended", "reused"}
  BY DEF Console!TypeOK
<1>4. newestToken \in Nat /\ MaxTokens \in Nat /\ newestToken <= MaxTokens
  BY ConsoleShape
<1>5. newestToken' \in {newestToken, newestToken + 1} /\ newestToken' <= MaxTokens
  <2>1. CASE Console!Rotates(k)
    BY <1>1, <1>4, <2>1
  <2>2. CASE ~Console!Rotates(k)
    BY <1>1, <1>4, <2>2
  <2> QED BY <2>1, <2>2
<1>6. session' \in {"live", "ended", "reused"}
  BY <1>1, <1>3
<1>7. Console!Rotates(k) => newestToken' = newestToken + 1 /\ session' = session
  BY <1>1, <1>2
<1>8. ~Console!Rotates(k) => /\ newestToken' = newestToken /\ session' # "live"
                             /\ session' = "reused" => \/ session = "reused"
                                                       \/ session = "live" /\ ~Console!Usable(k)
  BY <1>1, <1>2
<1> QED BY <1>5, <1>6, <1>7, <1>8

\* A step of a tab, and of a navigation, is one to a state of it.
LEMMA PageShape ==
  ASSUME Console!ConsoleAuthAssumption, Console!TypeOK, NEW t \in Tab, Console!Page(t)
  PROVE  \E r \in TabState :
           /\ tab' = [tab EXCEPT ![t] = r]
           /\ \/ tablock' = tablock /\ (tab[t].at \in Holding <=> r.at \in Holding)
              \/ tablock' = None /\ tablock = t /\ r.at \notin Holding
              \/ tablock' = t /\ tablock = None /\ r.at \in Holding
<1>1. /\ tab \in [Tab -> TabState] /\ tab[t] \in TabState /\ jar.token \in Console!Token
      /\ (tablock = t <=> tab[t].at \in Holding) /\ 0 \in Console!Token
      /\ newestToken \in Nat /\ newestToken <= MaxTokens
      /\ MaxTokens \in Nat
  BY ConsoleShape DEF Console!TypeOK, Console!Token
<1>2. CASE Console!Asks(t)
  <2> DEFINE r == [Console!Idle EXCEPT !.at = "waits", !.csrf = jar.token]
  <2>1. r \in TabState /\ r.at = "waits" /\ tab[t].at = "idle"
    BY <1>1, <1>2 DEF Console!Idle, TabState, Console!Asks
  <2>2. tab' = [tab EXCEPT ![t] = r] /\ tablock' = tablock
    BY <1>2 DEF Console!Asks
  <2> HIDE DEF r
  <2> QED BY <2>1, <2>2 DEF Holding
<1>3. CASE Console!Locked(t)
  <2>1. tab[t].at = "waits" /\ tablock = None
    BY <1>3 DEF Console!Locked
  <2>2. \A a \in {"retries", "login", "reads"} : [tab[t] EXCEPT !.at = a] \in TabState
                                                 /\ [tab[t] EXCEPT !.at = a].at = a
    BY <1>1 DEF TabState
  <2>3. \/ \E a \in {"retries", "login"} : tab' = [tab EXCEPT ![t] = [tab[t] EXCEPT !.at = a]]
                                           /\ tablock' = tablock
        \/ tab' = [tab EXCEPT ![t] = [tab[t] EXCEPT !.at = "reads"]] /\ tablock' = t
    BY <1>3 DEF Console!Locked
  <2> QED BY <2>1, <2>2, <2>3 DEF Holding
<1>4. CASE Console!Sends(t)
  <2> DEFINE r == [tab[t] EXCEPT !.at = "sent", !.token = jar.token]
  <2>1. r \in TabState /\ r.at = "sent" /\ tab[t].at = "reads"
    BY <1>1, <1>4 DEF TabState, Console!Sends
  <2>2. tab' = [tab EXCEPT ![t] = r] /\ tablock' = tablock
    BY <1>4 DEF Console!Sends
  <2> HIDE DEF r
  <2> QED BY <2>1, <2>2 DEF Holding
<1>5. CASE Console!Served(t)
  <2> DEFINE one == [tab[t] EXCEPT !.at = "ok", !.token = newestToken + 1]
             two == [tab[t] EXCEPT !.at = "refused"]
  <2>1. two \in TabState /\ two.at = "refused" /\ tab[t].at = "sent"
    BY <1>1, <1>5 DEF TabState, Console!Served
  <2>2. one.at = "ok" /\ (newestToken < MaxTokens => one \in TabState)
    <3>1. newestToken < MaxTokens => newestToken + 1 \in Console!Token
      BY <1>1 DEF Console!Token
    <3>2. one.at = "ok"
      BY <1>1 DEF TabState
    <3> QED BY <1>1, <3>1, <3>2 DEF TabState
  <2>3. \/ tab' = [tab EXCEPT ![t] = one] /\ newestToken < MaxTokens
        \/ tab' = [tab EXCEPT ![t] = two]
    BY <1>5 DEF Console!Served, Console!Reply, Console!Answered
  <2>4. tablock' = tablock
    BY <1>5 DEF Console!Served
  <2> HIDE DEF one, two
  <2> QED BY <2>1, <2>2, <2>3, <2>4 DEF Holding
<1>6. CASE Console!Hears(t) \/ Console!Lost(t)
  <2>1. \A a \in {"retries", "login", "idle"} : [Console!Idle EXCEPT !.at = a] \in TabState
                                                /\ [Console!Idle EXCEPT !.at = a].at = a
    BY <1>1 DEF TabState, Console!Idle
  <2>2. Console!Idle = [Console!Idle EXCEPT !.at = "idle"]
    BY DEF Console!Idle
  <2>3. \E a \in {"retries", "login", "idle"} :
          tab' = [tab EXCEPT ![t] = [Console!Idle EXCEPT !.at = a]]
    BY <1>6, <2>2 DEF Console!Hears, Console!Lost
  <2>4. tablock' = None /\ tab[t].at \in Holding
    BY <1>6 DEF Console!Hears, Console!Lost, Holding
  <2> QED BY <1>1, <2>1, <2>3, <2>4 DEF Holding
<1>7. CASE Console!Retries(t)
  <2>1. \A a \in {"login", "idle"} : [Console!Idle EXCEPT !.at = a] \in TabState
                                     /\ [Console!Idle EXCEPT !.at = a].at = a
    BY <1>1 DEF TabState, Console!Idle
  <2>2. Console!Idle = [Console!Idle EXCEPT !.at = "idle"]
    BY DEF Console!Idle
  <2>3. \E a \in {"login", "idle"} : tab' = [tab EXCEPT ![t] = [Console!Idle EXCEPT !.at = a]]
    BY <1>7, <2>2 DEF Console!Retries
  <2>4. tablock' = tablock /\ tab[t].at = "retries"
    BY <1>7 DEF Console!Retries
  <2> QED BY <2>1, <2>3, <2>4 DEF Holding
<1> QED BY <1>2, <1>3, <1>4, <1>5, <1>6, <1>7 DEF Console!Page

\* What the proxy does to a navigation.
LEMMA ProxyShape ==
  ASSUME Console!ConsoleAuthAssumption, Console!TypeOK, NEW n \in Nav, Console!Proxy(n)
  PROVE  \E r \in NavState : nav' = [nav EXCEPT ![n] = r]
<1>1. /\ nav \in [Nav -> NavState] /\ nav[n] \in NavState /\ jar.token \in Console!Token
      /\ 0 \in Console!Token
      /\ newestToken \in Nat /\ newestToken <= MaxTokens
      /\ MaxTokens \in Nat
  BY ConsoleShape DEF Console!TypeOK, Console!Token
<1>2. CASE Console!Navigates(n)
  <2>1. \A a \in {"login", "sent"}, root \in BOOLEAN :
          [at |-> a, token |-> jar.token, root |-> root] \in NavState
    BY <1>1 DEF NavState
  <2>2. \E a \in {"login", "sent"}, root \in BOOLEAN :
          nav' = [nav EXCEPT ![n] = [at |-> a, token |-> jar.token, root |-> root]]
    BY <1>2 DEF Console!Navigates
  <2> QED BY <2>1, <2>2
<1>3. CASE Console!Renewed(n)
  <2> DEFINE one == [nav[n] EXCEPT !.at = "ok", !.token = newestToken + 1]
             two == [nav[n] EXCEPT !.at = "refused"]
  <2>1. two \in NavState /\ (newestToken < MaxTokens => one \in NavState)
    <3>1. newestToken < MaxTokens => newestToken + 1 \in Console!Token
      BY <1>1 DEF Console!Token
    <3> QED BY <1>1, <3>1 DEF NavState
  <2>2. \/ nav' = [nav EXCEPT ![n] = one] /\ newestToken < MaxTokens
        \/ nav' = [nav EXCEPT ![n] = two]
    BY <1>3 DEF Console!Renewed, Console!Reply, Console!Answered
  <2> HIDE DEF one, two
  <2> QED BY <2>1, <2>2
<1>4. CASE Console!Arrives(n) \/ Console!Follows(n) \/ Console!TimesOut(n) \/ Console!Abandoned(n)
  <2>1. /\ Console!Here \in NavState /\ [Console!Here EXCEPT !.at = "login"] \in NavState
        /\ [nav[n] EXCEPT !.at = "redirected"] \in NavState
        /\ \A a \in {"login", "sent"} :
              [at |-> a, token |-> jar.token, root |-> FALSE] \in NavState
    BY <1>1 DEF NavState, Console!Here
  <2>2. \/ nav' = [nav EXCEPT ![n] = Console!Here]
        \/ nav' = [nav EXCEPT ![n] = [Console!Here EXCEPT !.at = "login"]]
        \/ nav' = [nav EXCEPT ![n] = [nav[n] EXCEPT !.at = "redirected"]]
        \/ \E a \in {"login", "sent"} :
             nav' = [nav EXCEPT ![n] = [at |-> a, token |-> jar.token, root |-> FALSE]]
    BY <1>4 DEF Console!Arrives, Console!Follows, Console!TimesOut, Console!Abandoned
  <2> QED BY <2>1, <2>2
<1> QED BY <1>2, <1>3, <1>4 DEF Console!Proxy

\* The types of what is shared.
LEMMA SharedTypes ==
  ASSUME Console!ConsoleAuthAssumption, Console!TypeOK, CarriedInv, [Console!Next]_(Console!vars)
  PROVE  /\ session' \in {"live", "ended", "reused"}
         /\ newestToken' \in Console!Token /\ grace' \in Console!Token /\ grace' < newestToken'
         /\ jar' \in [access : BOOLEAN, token : Console!Token] /\ jar'.token <= newestToken'
         /\ behind' \in BOOLEAN /\ failed' \in BOOLEAN /\ cfaults' \in 0..MaxLosses
<1>1. /\ session \in {"live", "ended", "reused"} /\ 0 \in Console!Token
      /\ newestToken \in Console!Token /\ grace \in Console!Token /\ grace < newestToken
      /\ jar \in [access : BOOLEAN, token : Console!Token] /\ jar.token <= newestToken
      /\ behind \in BOOLEAN /\ failed \in BOOLEAN /\ cfaults \in 0..MaxLosses
      /\ MaxLosses \in Nat /\ MaxTokens \in Nat
      /\ \A k \in Nat : k <= MaxTokens <=> k \in Console!Token
      /\ \A k \in Console!Token : k \in Nat
  BY ConsoleShape DEF Console!TypeOK, Console!Token
<1>2. CASE Console!EndsElsewhere \/ UNCHANGED Console!vars
  BY <1>1, <1>2 DEF Console!EndsElsewhere, Console!vars
<1>3. CASE Console!CookiesCleared \/ Console!AccessExpires
  <2>1. UNCHANGED <<session, newestToken, grace, behind, failed, cfaults>>
    BY <1>3 DEF Console!CookiesCleared, Console!AccessExpires
  <2>2. jar' = [access |-> FALSE, token |-> 0] \/ jar' = [jar EXCEPT !.access = FALSE]
    BY <1>3 DEF Console!CookiesCleared, Console!AccessExpires
  <2>3. jar' \in [access : BOOLEAN, token : Console!Token] /\ jar'.token \in {0, jar.token}
    <3>1. CASE jar' = [access |-> FALSE, token |-> 0]
      BY <1>1, <3>1
    <3>2. CASE jar' = [jar EXCEPT !.access = FALSE]
      <4>1. jar \in [access : BOOLEAN, token : Console!Token]
        BY <1>1
      <4>2. jar' \in [access : BOOLEAN, token : Console!Token] /\ jar'.token = jar.token
        BY <3>2, <4>1
      <4> QED BY <4>2
    <3> QED BY <2>2, <3>1, <3>2
  <2>4. jar'.token <= newestToken
    BY <1>1, <2>3
  <2> QED BY <1>1, <2>1, <2>3, <2>4
<1>4. CASE Console!Ages
  <2>1. /\ UNCHANGED <<session, newestToken, jar, failed>>
        /\ grace' = grace + 1 /\ grace + 1 < newestToken
        /\ behind' \in {TRUE, behind}
        /\ (cfaults' = cfaults \/ (cfaults < MaxLosses /\ cfaults' = cfaults + 1))
    BY <1>4 DEF Console!Ages, Console!Fault
  <2>2. grace' \in Console!Token /\ cfaults' \in 0..MaxLosses
    BY <1>1, <2>1
  <2> QED BY <1>1, <2>1, <2>2
<1>5. ASSUME NEW k \in Nat, Console!Stored(k), k <= newestToken
      PROVE  jar' \in [access : BOOLEAN, token : Console!Token] /\ jar'.token <= newestToken
               /\ behind' \in BOOLEAN
  <2>1. k \in Console!Token
    BY <1>1, <1>5
  <2> QED BY <1>1, <1>5, <2>1 DEF Console!Stored
<1>6. ASSUME NEW t \in Tab, Console!Page(t)
      PROVE  /\ session' \in {"live", "ended", "reused"}
             /\ newestToken' \in Console!Token /\ grace' \in Console!Token /\ grace' < newestToken'
             /\ jar' \in [access : BOOLEAN, token : Console!Token] /\ jar'.token <= newestToken'
             /\ behind' \in BOOLEAN /\ failed' \in BOOLEAN /\ cfaults' \in 0..MaxLosses
  <2>1. CASE Console!Asks(t) \/ Console!Locked(t) \/ Console!Sends(t)
    BY <1>1, <2>1 DEF Console!Asks, Console!Locked, Console!Sends
  <2>2. CASE Console!Served(t)
    <3>1. UNCHANGED <<grace, jar, failed, cfaults>> /\ behind' \in BOOLEAN
      BY <1>1, <2>2 DEF Console!Served, Console!Crowded
    <3>2. \/ UNCHANGED <<session, newestToken>> \/ Console!Answered(tab[t].token)
      BY <2>2 DEF Console!Served
    <3>3. /\ newestToken' \in {newestToken, newestToken + 1} /\ newestToken' <= MaxTokens
          /\ session' \in {"live", "ended", "reused"}
      BY <1>1, <3>2, AnswerShape, ConsoleShape
    <3>4. newestToken' \in Console!Token /\ grace < newestToken' /\ jar.token <= newestToken'
      BY <1>1, <3>3
    <3> QED BY <1>1, <3>1, <3>3, <3>4
  <2>3. CASE Console!Hears(t)
    <3>1. UNCHANGED <<session, newestToken, grace, failed, cfaults>>
      BY <2>3 DEF Console!Hears
    <3>2. UNCHANGED <<jar, behind>> \/ (tab[t].at = "ok" /\ Console!Stored(tab[t].token))
      BY <2>3 DEF Console!Hears
    <3>3. tab[t].token \in Nat /\ (tab[t].at = "ok" => tab[t].token <= newestToken)
      BY ConsoleShape DEF CarriedInv
    <3> QED BY <1>1, <1>5, <3>1, <3>2, <3>3
  <2>4. CASE Console!Lost(t)
    <3>1. UNCHANGED <<session, newestToken, grace, jar, failed>> /\ behind' \in BOOLEAN
          /\ cfaults < MaxLosses /\ cfaults' = cfaults + 1
      BY <1>1, <2>4 DEF Console!Lost, Console!Fault
    <3> QED BY <1>1, <3>1
  <2>5. CASE Console!Retries(t)
    BY <1>1, <2>5 DEF Console!Retries
  <2> QED BY <1>6, <2>1, <2>2, <2>3, <2>4, <2>5 DEF Console!Page
<1>7. ASSUME NEW n \in Nav, Console!Proxy(n)
      PROVE  /\ session' \in {"live", "ended", "reused"}
             /\ newestToken' \in Console!Token /\ grace' \in Console!Token /\ grace' < newestToken'
             /\ jar' \in [access : BOOLEAN, token : Console!Token] /\ jar'.token <= newestToken'
             /\ behind' \in BOOLEAN /\ failed' \in BOOLEAN /\ cfaults' \in 0..MaxLosses
  <2>1. CASE Console!Navigates(n)
    BY <1>1, <2>1 DEF Console!Navigates
  <2>2. CASE Console!Renewed(n)
    <3>1. UNCHANGED <<grace, jar, failed, cfaults>> /\ behind' \in BOOLEAN
      BY <1>1, <2>2 DEF Console!Renewed, Console!Crowded
    <3>2. Console!Answered(nav[n].token)
      BY <2>2 DEF Console!Renewed
    <3>3. /\ newestToken' \in {newestToken, newestToken + 1} /\ newestToken' <= MaxTokens
          /\ session' \in {"live", "ended", "reused"}
      BY <1>1, <3>2, AnswerShape, ConsoleShape
    <3>4. newestToken' \in Console!Token /\ grace < newestToken' /\ jar.token <= newestToken'
      BY <1>1, <3>3
    <3> QED BY <1>1, <3>1, <3>3, <3>4
  <2>3. CASE Console!Arrives(n)
    <3>1. UNCHANGED <<session, newestToken, grace, cfaults>> /\ failed' \in BOOLEAN
      BY <1>1, <2>3 DEF Console!Arrives
    <3>2. UNCHANGED <<jar, behind>> \/ (nav[n].at = "ok" /\ Console!Stored(nav[n].token))
      BY <2>3 DEF Console!Arrives
    <3>3. nav[n].token \in Nat /\ (nav[n].at = "ok" => nav[n].token <= newestToken)
      BY ConsoleShape DEF CarriedInv
    <3> QED BY <1>1, <1>5, <3>1, <3>2, <3>3
  <2>4. CASE Console!TimesOut(n) \/ Console!Abandoned(n)
    <3>1. UNCHANGED <<session, newestToken, grace, jar>> /\ behind' \in BOOLEAN
            /\ failed' \in BOOLEAN
          /\ cfaults < MaxLosses /\ cfaults' = cfaults + 1
      BY <1>1, <2>4 DEF Console!TimesOut, Console!Abandoned, Console!Fault
    <3> QED BY <1>1, <3>1
  <2>5. CASE Console!Follows(n)
    <3>1. UNCHANGED <<session, newestToken, grace, jar, failed, cfaults>>
      BY <2>5 DEF Console!Follows
    <3>2. behind' = (behind \/ (jar.access /\ jar.token < nav[n].token))
      BY <2>5 DEF Console!Follows
    <3>3. behind' \in BOOLEAN
      BY <3>2, Zenon
    <3> QED BY <1>1, <3>1, <3>3
  <2> QED BY <1>7, <2>1, <2>2, <2>3, <2>4, <2>5 DEF Console!Proxy
<1> QED BY <1>2, <1>3, <1>4, <1>6, <1>7 DEF Console!Next, Console!Outside

\* Every step of the console keeps its types.
LEMMA ConsoleTypes ==
  ASSUME Console!ConsoleAuthAssumption, Console!TypeOK, CarriedInv, [Console!Next]_(Console!vars)
  PROVE  Console!TypeOK'
<1>1. /\ tab' \in [Tab -> TabState] /\ tablock' \in Tab \cup {None}
      /\ \A t \in Tab : tablock' = t <=> tab'[t].at \in Holding
  <2>1. ASSUME NEW t \in Tab, Console!Page(t)
        PROVE  /\ tab' \in [Tab -> TabState] /\ tablock' \in Tab \cup {None}
               /\ \A s \in Tab : tablock' = s <=> tab'[s].at \in Holding
    BY <2>1, PageShape, TabMoves
  <2>2. CASE UNCHANGED <<tab, tablock>>
    BY <2>2, ConsoleShape DEF Console!TypeOK
  <2>3. ASSUME NEW n \in Nav, Console!Proxy(n) PROVE UNCHANGED <<tab, tablock>>
    BY <2>3 DEF Console!Proxy, Console!Navigates, Console!Renewed, Console!Arrives,
                Console!Follows, Console!TimesOut, Console!Abandoned
  <2>4. CASE Console!Outside \/ UNCHANGED Console!vars
    BY <2>2, <2>4 DEF Console!Outside, Console!EndsElsewhere, Console!CookiesCleared,
                      Console!AccessExpires, Console!Ages, Console!vars
  <2> QED BY <2>1, <2>2, <2>3, <2>4 DEF Console!Next
<1>2. nav' \in [Nav -> NavState]
  <2>1. ASSUME NEW n \in Nav, Console!Proxy(n) PROVE nav' \in [Nav -> NavState]
    BY <2>1, ProxyShape, ConsoleShape
  <2>2. CASE UNCHANGED nav
    BY <2>2, ConsoleShape
  <2>3. ASSUME NEW t \in Tab, Console!Page(t) PROVE UNCHANGED nav
    BY <2>3 DEF Console!Page, Console!Asks, Console!Locked, Console!Sends, Console!Served,
                Console!Hears, Console!Lost, Console!Retries
  <2>4. CASE Console!Outside \/ UNCHANGED Console!vars
    BY <2>2, <2>4 DEF Console!Outside, Console!EndsElsewhere, Console!CookiesCleared,
                      Console!AccessExpires, Console!Ages, Console!vars
  <2> QED BY <2>1, <2>2, <2>3, <2>4 DEF Console!Next
<1> QED BY <1>1, <1>2, SharedTypes DEF Console!TypeOK, TabState, NavState, Holding

\* What the newest token and the session do.
LEMMA NewestGrows ==
  ASSUME Console!ConsoleAuthAssumption, Console!TypeOK, [Console!Next]_(Console!vars)
  PROVE  newestToken' \in {newestToken, newestToken + 1} /\ (session' = "live" => session = "live")
<1>1. ASSUME NEW k \in Nat, Console!Answered(k)
      PROVE  newestToken' \in {newestToken, newestToken + 1}
               /\ (session' = "live" => session = "live")
  BY <1>1, AnswerShape
<1>2. CASE Console!Outside \/ UNCHANGED Console!vars
  BY <1>2 DEF Console!Outside, Console!EndsElsewhere, Console!CookiesCleared,
              Console!AccessExpires, Console!Ages, Console!vars
<1>3. ASSUME NEW t \in Tab, Console!Page(t)
      PROVE  newestToken' \in {newestToken, newestToken + 1}
               /\ (session' = "live" => session = "live")
  <2>1. CASE Console!Served(t)
    BY <1>1, <2>1, ConsoleShape DEF Console!Served
  <2>2. CASE ~Console!Served(t)
    BY <1>3, <2>2 DEF Console!Page, Console!Asks, Console!Locked, Console!Sends, Console!Hears,
                      Console!Lost, Console!Retries
  <2> QED BY <2>1, <2>2
<1>4. ASSUME NEW n \in Nav, Console!Proxy(n)
      PROVE  newestToken' \in {newestToken, newestToken + 1}
               /\ (session' = "live" => session = "live")
  <2>1. CASE Console!Renewed(n)
    BY <1>1, <2>1, ConsoleShape DEF Console!Renewed
  <2>2. CASE ~Console!Renewed(n)
    BY <1>4, <2>2 DEF Console!Proxy, Console!Navigates, Console!Arrives, Console!Follows,
                      Console!TimesOut, Console!Abandoned
  <2> QED BY <2>1, <2>2
<1> QED BY <1>2, <1>3, <1>4 DEF Console!Next

\* What a step of a tab makes of it.
LEMMA TabSteps ==
  ASSUME Console!ConsoleAuthAssumption, Console!TypeOK, NEW t \in Tab, Console!Page(t)
  PROVE  /\ nav' = nav /\ grace' = grace /\ \A s \in Tab \ {t} : tab'[s] = tab[s]
         /\ Console!Asks(t) => tab[t].at = "idle" /\ tab'[t].at = "waits"
         /\ Console!Locked(t) =>
              /\ tab[t].at = "waits" /\ tab'[t].at \in {"retries", "login", "reads"}
              /\ tab'[t].at = "reads" => tab'[t].csrf = jar.token /\ jar.token # 0
              /\ tab'[t].at = "login" => jar.token = 0
         /\ Console!Sends(t) => /\ tab[t].at = "reads" /\ tab'[t].at = "sent"
                                /\ tab'[t].csrf = tab[t].csrf /\ tab'[t].token = jar.token
         /\ Console!Served(t) =>
              /\ tab[t].at = "sent" /\ tab'[t].csrf = tab[t].csrf
              /\ \/ /\ tab'[t].at = "ok" /\ tab'[t].token = newestToken + 1
                    /\ newestToken' = newestToken + 1
                 \/ /\ tab'[t].at = "refused" /\ newestToken' = newestToken
                    /\ session' = "live" => tab[t].csrf # tab[t].token
         /\ Console!Hears(t) => tab'[t].at = IF tab[t].at = "ok" THEN "retries" ELSE "login"
         /\ Console!Lost(t) => tab'[t].at = "idle"
         /\ Console!Retries(t) => tab[t].at = "retries" /\ tab'[t].at \in {"idle", "login"}
<1>1. tab \in [Tab -> TabState] /\ tab[t] \in TabState
  BY ConsoleShape
<1>2. PICK r \in TabState : tab' = [tab EXCEPT ![t] = r]
  BY PageShape
<1>3. tab'[t] = r /\ \A s \in Tab \ {t} : tab'[s] = tab[s]
  BY <1>1, <1>2
<1>4. nav' = nav /\ grace' = grace
  BY DEF Console!Page, Console!Asks, Console!Locked, Console!Sends, Console!Served,
         Console!Hears, Console!Lost, Console!Retries
<1>5. Console!Asks(t) => tab[t].at = "idle" /\ tab'[t].at = "waits"
  BY <1>1 DEF Console!Asks, Console!Idle
<1>6. Console!Locked(t) =>
        /\ tab[t].at = "waits" /\ tab'[t].at \in {"retries", "login", "reads"}
        /\ tab'[t].at = "reads" => tab'[t].csrf = jar.token /\ jar.token # 0
        /\ tab'[t].at = "login" => jar.token = 0
  BY <1>1 DEF Console!Locked, TabState
<1>7. Console!Sends(t) => /\ tab[t].at = "reads" /\ tab'[t].at = "sent"
                          /\ tab'[t].csrf = tab[t].csrf /\ tab'[t].token = jar.token
  BY <1>1 DEF Console!Sends, TabState
<1>8. ASSUME Console!Served(t)
      PROVE  /\ tab[t].at = "sent" /\ tab'[t].csrf = tab[t].csrf
             /\ \/ /\ tab'[t].at = "ok" /\ tab'[t].token = newestToken + 1
                   /\ newestToken' = newestToken + 1
                \/ /\ tab'[t].at = "refused" /\ newestToken' = newestToken
                   /\ session' = "live" => tab[t].csrf # tab[t].token
  <2>1. CASE tab[t].csrf = tab[t].token
    <3>1. tab'[t] = Console!Reply(tab[t]) /\ Console!Answered(tab[t].token) /\ tab[t].at = "sent"
      BY <1>1, <1>8, <2>1 DEF Console!Served
    <3>2. CASE Console!Rotates(tab[t].token)
      <4>1. tab'[t] = [tab[t] EXCEPT !.at = "ok", !.token = newestToken + 1]
        BY <3>1, <3>2 DEF Console!Reply
      <4>2. tab'[t].at = "ok" /\ tab'[t].token = newestToken + 1 /\ tab'[t].csrf = tab[t].csrf
        BY <1>1, <4>1 DEF TabState
      <4> QED BY <3>1, <3>2, <4>2, AnswerShape, ConsoleShape
    <3>3. CASE ~Console!Rotates(tab[t].token)
      <4>1. tab'[t] = [tab[t] EXCEPT !.at = "refused"]
        BY <3>1, <3>3 DEF Console!Reply
      <4>2. tab'[t].at = "refused" /\ tab'[t].csrf = tab[t].csrf
        BY <1>1, <4>1 DEF TabState
      <4> QED BY <3>1, <3>3, <4>2, AnswerShape, ConsoleShape
    <3> QED BY <3>2, <3>3
  <2>2. CASE tab[t].csrf # tab[t].token
    <3>1. /\ tab' = [tab EXCEPT ![t].at = "refused"] /\ newestToken' = newestToken
          /\ tab[t].at = "sent"
      BY <1>8, <2>2 DEF Console!Served
    <3>2. tab'[t].at = "refused" /\ tab'[t].csrf = tab[t].csrf
      BY <1>1, <3>1 DEF TabState
    <3> QED BY <2>2, <3>1, <3>2
  <2> QED BY <2>1, <2>2
<1>9. Console!Hears(t) => tab'[t].at = IF tab[t].at = "ok" THEN "retries" ELSE "login"
  BY <1>1 DEF Console!Hears, Console!Idle
<1>10. Console!Lost(t) => tab'[t].at = "idle"
  BY <1>1 DEF Console!Lost, Console!Idle
<1>11. Console!Retries(t) => tab[t].at = "retries" /\ tab'[t].at \in {"idle", "login"}
  BY <1>1 DEF Console!Retries, Console!Idle
<1> QED BY <1>3, <1>4, <1>5, <1>6, <1>7, <1>8, <1>9, <1>10, <1>11

\* And one of a navigation.
LEMMA NavSteps ==
  ASSUME Console!ConsoleAuthAssumption, Console!TypeOK, NEW n \in Nav, Console!Proxy(n)
  PROVE  /\ tab' = tab /\ grace' = grace /\ \A m \in Nav \ {n} : nav'[m] = nav[m]
         /\ Console!Navigates(n) => /\ nav[n].at = "idle" /\ nav'[n].token = jar.token
                                    /\ nav'[n].at = IF jar.token = 0 THEN "login" ELSE "sent"
         /\ Console!Renewed(n) =>
              /\ nav[n].at = "sent"
              /\ \/ /\ nav'[n].at = "ok" /\ nav'[n].token = newestToken + 1
                    /\ newestToken' = newestToken + 1
                 \/ nav'[n].at = "refused" /\ newestToken' = newestToken /\ session' # "live"
         /\ Console!Arrives(n) =>
              \/ nav[n].at = "refused" /\ nav'[n].at = "login"
              \/ nav[n].at = "ok" /\ ~nav[n].root /\ nav'[n].at = "idle"
              \/ /\ nav[n].at = "ok" /\ nav[n].root
                 /\ nav'[n].at = "redirected" /\ nav'[n].token = nav[n].token
         /\ Console!Follows(n) =>
              \/ jar.access /\ nav'[n].at = "idle"
              \/ jar.token = 0 /\ nav'[n].at = "login"
              \/ jar.token # 0 /\ nav'[n].at = "sent" /\ nav'[n].token = jar.token
         /\ Console!TimesOut(n) => nav'[n].at = "login"
         /\ Console!Abandoned(n) => nav'[n].at = "idle"
<1>1. nav \in [Nav -> NavState] /\ nav[n] \in NavState
  BY ConsoleShape
<1>2. PICK r \in NavState : nav' = [nav EXCEPT ![n] = r]
  BY ProxyShape
<1>3. nav'[n] = r /\ \A m \in Nav \ {n} : nav'[m] = nav[m]
  BY <1>1, <1>2
<1>4. tab' = tab /\ grace' = grace
  BY DEF Console!Proxy, Console!Navigates, Console!Renewed, Console!Arrives, Console!Follows,
         Console!TimesOut, Console!Abandoned
<1>5. Console!Navigates(n) => /\ nav[n].at = "idle" /\ nav'[n].token = jar.token
                              /\ nav'[n].at = IF jar.token = 0 THEN "login" ELSE "sent"
  BY <1>1 DEF Console!Navigates
<1>6. ASSUME Console!Renewed(n)
      PROVE  /\ nav[n].at = "sent"
             /\ \/ /\ nav'[n].at = "ok" /\ nav'[n].token = newestToken + 1
                   /\ newestToken' = newestToken + 1
                \/ nav'[n].at = "refused" /\ newestToken' = newestToken /\ session' # "live"
  <2>1. nav'[n] = Console!Reply(nav[n]) /\ Console!Answered(nav[n].token) /\ nav[n].at = "sent"
    BY <1>1, <1>6 DEF Console!Renewed
  <2>2. CASE Console!Rotates(nav[n].token)
    <3>1. nav'[n] = [nav[n] EXCEPT !.at = "ok", !.token = newestToken + 1]
      BY <2>1, <2>2 DEF Console!Reply
    <3>2. nav'[n].at = "ok" /\ nav'[n].token = newestToken + 1
      BY <1>1, <3>1 DEF NavState
    <3> QED BY <2>1, <2>2, <3>2, AnswerShape, ConsoleShape
  <2>3. CASE ~Console!Rotates(nav[n].token)
    <3>1. nav'[n] = [nav[n] EXCEPT !.at = "refused"]
      BY <2>1, <2>3 DEF Console!Reply
    <3>2. nav'[n].at = "refused"
      BY <1>1, <3>1 DEF NavState
    <3> QED BY <2>1, <2>3, <3>2, AnswerShape, ConsoleShape
  <2> QED BY <2>2, <2>3
<1>7. Console!Arrives(n) =>
        \/ nav[n].at = "refused" /\ nav'[n].at = "login"
        \/ nav[n].at = "ok" /\ ~nav[n].root /\ nav'[n].at = "idle"
        \/ /\ nav[n].at = "ok" /\ nav[n].root
           /\ nav'[n].at = "redirected" /\ nav'[n].token = nav[n].token
  BY <1>1 DEF Console!Arrives, Console!Here, NavState
<1>8. Console!TimesOut(n) => nav'[n].at = "login"
  BY <1>1 DEF Console!TimesOut, Console!Here
<1>9. Console!Abandoned(n) => nav'[n].at = "idle"
  BY <1>1 DEF Console!Abandoned, Console!Here
<1>10. Console!Follows(n) =>
         \/ jar.access /\ nav'[n].at = "idle"
         \/ jar.token = 0 /\ nav'[n].at = "login"
         \/ jar.token # 0 /\ nav'[n].at = "sent" /\ nav'[n].token = jar.token
  BY <1>1 DEF Console!Follows, Console!Here
<1> QED BY <1>3, <1>4, <1>5, <1>6, <1>7, <1>8, <1>9, <1>10

\* Every step keeps what is said of the tokens that are carried.
LEMMA CarriedStep ==
  ASSUME Console!ConsoleAuthAssumption, Console!TypeOK, CarriedInv, [Console!Next]_(Console!vars)
  PROVE  CarriedInv'
<1>1. newestToken' \in {newestToken, newestToken + 1} /\ newestToken \in Nat
  BY NewestGrows, ConsoleShape
<1>2. /\ jar.token \in Nat /\ jar.token <= newestToken
      /\ \A t \in Tab : tab[t].token \in Nat
      /\ \A n \in Nav : nav[n].token \in Nat
  BY ConsoleShape
<1>3. CASE UNCHANGED <<tab, nav>>
  BY <1>1, <1>2, <1>3 DEF CarriedInv
<1>4. CASE Console!Outside \/ UNCHANGED Console!vars
  BY <1>3, <1>4 DEF Console!Outside, Console!EndsElsewhere, Console!CookiesCleared,
                    Console!AccessExpires, Console!Ages, Console!vars
<1>5. ASSUME NEW t \in Tab, Console!Page(t) PROVE CarriedInv'
  <2>1. /\ tab'[t].at \in {"sent", "ok"} => tab'[t].token <= newestToken'
        /\ tab'[t].at = "ok" => tab'[t].token # 0
        /\ tab'[t].at \in {"reads", "sent"} => tab'[t].csrf # 0
    <3>1. CASE Console!Asks(t) \/ Console!Hears(t) \/ Console!Lost(t) \/ Console!Retries(t)
      <4>1. tab'[t].at \notin {"reads", "sent", "ok"}
        BY <1>5, <3>1, TabSteps
      <4> QED BY <4>1
    <3>2. CASE Console!Locked(t)
      <4>1. tab'[t].at \notin {"sent", "ok"} /\ (tab'[t].at = "reads" => tab'[t].csrf # 0)
        BY <1>5, <3>2, TabSteps
      <4> QED BY <4>1
    <3>3. CASE Console!Sends(t)
      <4>1. /\ tab[t].at = "reads" /\ tab'[t].at = "sent"
            /\ tab'[t].csrf = tab[t].csrf /\ tab'[t].token = jar.token
        BY <1>5, <3>3, TabSteps
      <4> QED BY <1>1, <1>2, <4>1 DEF CarriedInv
    <3>4. CASE Console!Served(t)
      <4>1. \/ tab'[t].at = "refused"
            \/ /\ tab'[t].at = "ok" /\ tab'[t].token = newestToken + 1
               /\ newestToken' = newestToken + 1
        BY <1>5, <3>4, TabSteps
      <4> QED BY <1>1, <4>1
    <3> QED BY <1>5, <3>1, <3>2, <3>3, <3>4 DEF Console!Page
  <2>2. nav' = nav /\ \A s \in Tab \ {t} : tab'[s] = tab[s]
    BY <1>5, TabSteps
  <2> QED BY <1>1, <1>2, <2>1, <2>2 DEF CarriedInv
<1>6. ASSUME NEW n \in Nav, Console!Proxy(n) PROVE CarriedInv'
  <2>1. nav'[n].at \in {"sent", "ok"} => nav'[n].token # 0 /\ nav'[n].token <= newestToken'
    <3>1. CASE Console!Navigates(n)
      <4>1. nav'[n].token = jar.token /\ nav'[n].at = IF jar.token = 0 THEN "login" ELSE "sent"
        BY <1>6, <3>1, NavSteps
      <4> QED BY <1>1, <1>2, <4>1
    <3>2. CASE Console!Renewed(n)
      <4>1. \/ nav'[n].at = "refused"
            \/ /\ nav'[n].at = "ok" /\ nav'[n].token = newestToken + 1
               /\ newestToken' = newestToken + 1
        BY <1>6, <3>2, NavSteps
      <4> QED BY <1>1, <4>1
    <3>3. CASE Console!Arrives(n) \/ Console!TimesOut(n) \/ Console!Abandoned(n)
      <4>1. nav'[n].at \notin {"sent", "ok"}
        BY <1>6, <3>3, NavSteps
      <4> QED BY <4>1
    <3>4. CASE Console!Follows(n)
      <4>1. /\ newestToken' = newestToken
            /\ nav'[n].at \notin {"sent", "ok"} \/ (jar.token # 0 /\ nav'[n].token = jar.token)
        BY <1>6, <3>4, NavSteps DEF Console!Follows
      <4> QED BY <1>2, <4>1
    <3> QED BY <1>6, <3>1, <3>2, <3>3, <3>4 DEF Console!Proxy
  <2>2. tab' = tab /\ \A m \in Nav \ {n} : nav'[m] = nav[m]
    BY <1>6, NavSteps
  <2> QED BY <1>1, <1>2, <2>1, <2>2 DEF CarriedInv
<1> QED BY <1>4, <1>5, <1>6 DEF Console!Next

\* What keeps the newest token: an answer that is stored in order, or whatever else is left.
LEMMA StillKept ==
  ASSUME NewestIsKept, newestToken' = newestToken, jar.token \in Nat, newestToken \in Nat,
         jar.token <= newestToken, NEW k \in Nat, jar.token <= k, k <= newestToken,
         jar'.token = k,
         \A t \in Tab : tab[t].at = "ok" /\ tab[t].token = newestToken
                          => tab'[t] = tab[t] \/ k = newestToken,
         \A n \in Nav : Brings(n) \/ nav[n].at = "sent"
                          => \/ nav'[n] = nav[n] \/ k = newestToken
                             \/ (Brings(n) \/ nav[n].at = "sent")'
  PROVE  NewestIsKept'
<1>1. CASE jar.token = newestToken
  BY <1>1 DEF NewestIsKept
<1>2. CASE \E t \in Tab : tab[t].at = "ok" /\ tab[t].token = newestToken
  BY <1>2 DEF NewestIsKept
<1>3. CASE \E n \in Nav : Brings(n) \/ nav[n].at = "sent"
  BY <1>3 DEF NewestIsKept, Brings
<1> QED BY <1>1, <1>2, <1>3 DEF NewestIsKept

\* While the session stays live.
LEMMA LiveTab ==
  ASSUME Console!ConsoleAuthAssumption, Console!TypeOK, CarriedInv, LiveInv,
         NEW t \in Tab, Console!Page(t), session' = "live"
  PROVE  LiveInv'
<1>1. /\ session = "live" /\ newestToken' \in {newestToken, newestToken + 1}
      /\ JarInv /\ YoungInv /\ HeaderInv
  BY NewestGrows DEF LiveInv, Console!Next
<1>2. /\ nav' = nav /\ grace' = grace /\ \A s \in Tab \ {t} : tab'[s] = tab[s]
  BY TabSteps
<1>3. /\ newestToken \in Nat /\ grace \in Nat /\ grace < newestToken
      /\ jar.token \in Nat /\ jar.token <= newestToken
      /\ tab[t].token \in Nat /\ tab[t].csrf \in Nat
  BY ConsoleShape
<1>4. CASE \/ Console!Asks(t) \/ Console!Locked(t) \/ Console!Sends(t) \/ Console!Retries(t)
           \/ Console!Lost(t)
  <2>1. /\ jar' = jar /\ newestToken' = newestToken
        /\ (behind => behind') /\ (failed => failed')
    <3>1. CASE Console!Lost(t)
      <4>1. (behind => behind') /\ (failed => failed')
        BY <3>1, Zenon DEF Console!Lost
      <4> QED BY <3>1, <4>1 DEF Console!Lost
    <3>2. CASE Console!Retries(t)
      <4>1. (behind => behind') /\ (failed => failed')
        BY <3>2, Zenon DEF Console!Retries
      <4> QED BY <3>2, <4>1 DEF Console!Retries
    <3>3. CASE Console!Asks(t) \/ Console!Locked(t) \/ Console!Sends(t)
      BY <3>3 DEF Console!Asks, Console!Locked, Console!Sends
    <3> QED BY <1>4, <3>1, <3>2, <3>3
  <2>2. /\ tab'[t].at \in {"waits", "retries", "login", "idle", "reads", "sent"}
        /\ tab'[t].at = "reads" => tab'[t].csrf = jar.token
        /\ tab'[t].at = "sent" => /\ tab[t].at = "reads" /\ tab'[t].csrf = tab[t].csrf
                                  /\ tab'[t].token = jar.token
    BY <1>4, TabSteps
  <2>3. tab[t].at = "ok" => behind'
    <3>1. CASE Console!Lost(t)
      BY <3>1, Zenon DEF Console!Lost
    <3>2. CASE Console!Asks(t) \/ Console!Locked(t) \/ Console!Sends(t) \/ Console!Retries(t)
      BY <3>2, TabSteps
    <3> QED BY <1>4, <3>1, <3>2
  <2>4. JarInv'
    BY <1>1, <1>2, <2>1 DEF JarInv
  <2>5. ASSUME ~behind' PROVE NewestIsKept'
    <3>1. NewestIsKept /\ tab[t].at # "ok"
      BY <1>1, <2>1, <2>3, <2>5 DEF YoungInv
    <3> QED BY <1>2, <1>3, <2>1, <3>1, StillKept
  <2>6. YoungInv'
    BY <1>1, <1>2, <2>1, <2>2, <2>5 DEF YoungInv
  <2>7. HeaderInv'
    BY <1>1, <1>2, <2>1, <2>2 DEF HeaderInv
  <2> QED BY <2>4, <2>6, <2>7 DEF LiveInv
<1>5. CASE Console!Served(t)
  <2>1. jar' = jar /\ (behind => behind') /\ failed' = failed
    BY <1>5 DEF Console!Served
  <2>2. /\ tab[t].at = "sent" /\ tab'[t].csrf = tab[t].csrf
        /\ \/ /\ tab'[t].at = "ok" /\ tab'[t].token = newestToken + 1
              /\ newestToken' = newestToken + 1
           \/ /\ tab'[t].at = "refused" /\ newestToken' = newestToken
              /\ tab[t].csrf # tab[t].token
    BY <1>5, TabSteps
  <2>3. JarInv'
    BY <1>1, <1>2, <2>1 DEF JarInv
  <2>4. ASSUME ~behind' PROVE NewestIsKept'
    <3>1. CASE tab'[t].at = "ok" /\ tab'[t].token = newestToken'
      BY <3>1 DEF NewestIsKept
    <3>2. CASE newestToken' = newestToken
      <4>1. NewestIsKept /\ tab[t].at # "ok"
        BY <1>1, <2>1, <2>2, <2>4 DEF YoungInv
      <4> QED BY <1>2, <1>3, <2>1, <3>2, <4>1, StillKept
    <3> QED BY <2>2, <3>1, <3>2
  <2>5. YoungInv'
    <3>1. tab'[t].at \in {"sent", "ok"} => tab'[t].token > grace
      BY <1>3, <2>2
    <3> QED BY <1>1, <1>2, <2>1, <2>4, <3>1 DEF YoungInv
  <2>6. HeaderInv'
    <3>1. tab'[t].at = "refused" => failed
      BY <1>1, <2>2 DEF HeaderInv
    <3> QED BY <1>1, <1>2, <2>1, <2>2, <3>1 DEF HeaderInv
  <2> QED BY <2>3, <2>5, <2>6 DEF LiveInv
<1>6. CASE Console!Hears(t)
  <2>1. newestToken' = newestToken /\ failed' = failed
    BY <1>6 DEF Console!Hears
  <2>2. tab'[t].at \in {"retries", "login"}
    BY <1>6, TabSteps
  <2>3. CASE tab[t].at = "ok"
    <3>1. jar'.token = tab[t].token /\ behind' = (behind \/ jar.token > tab[t].token)
      BY <1>6, <2>3 DEF Console!Hears, Console!Stored
    <3>2. tab[t].token # 0 /\ tab[t].token <= newestToken
      BY <2>3 DEF CarriedInv
    <3>3. \A s \in Tab \ {t} : tab[s].at # "reads"
      BY <2>3, ConsoleShape DEF Holding
    <3>4. JarInv'
      BY <1>1, <1>2, <3>1, <3>2 DEF JarInv
    <3>5. ASSUME ~behind' PROVE NewestIsKept' /\ ~behind /\ tab[t].token > grace
      <4>1. ~behind /\ ~(jar.token > tab[t].token)
        BY <3>1, <3>5, Zenon
      <4>2. NewestIsKept /\ tab[t].token > grace /\ jar.token <= tab[t].token
        BY <1>1, <1>3, <2>3, <3>2, <4>1 DEF YoungInv
      <4>3. NewestIsKept'
        BY <1>2, <1>3, <2>1, <3>1, <3>2, <4>2, StillKept
      <4> QED BY <4>1, <4>2, <4>3
    <3>6. YoungInv'
      BY <1>1, <1>2, <2>2, <3>1, <3>5 DEF YoungInv
    <3>7. HeaderInv'
      BY <1>1, <1>2, <2>1, <2>2, <3>3 DEF HeaderInv
    <3> QED BY <3>4, <3>6, <3>7 DEF LiveInv
  <2>4. CASE tab[t].at # "ok"
    <3>1. jar' = jar /\ behind' = behind
      BY <1>6, <2>4 DEF Console!Hears
    <3>2. JarInv'
      BY <1>1, <1>2, <3>1 DEF JarInv
    <3>3. ASSUME ~behind' PROVE NewestIsKept'
      <4>1. NewestIsKept
        BY <1>1, <3>1, <3>3 DEF YoungInv
      <4> QED BY <1>2, <1>3, <2>1, <2>4, <3>1, <4>1, StillKept
    <3>4. YoungInv'
      BY <1>1, <1>2, <2>2, <3>1, <3>3 DEF YoungInv
    <3>5. HeaderInv'
      BY <1>1, <1>2, <2>1, <2>2, <3>1 DEF HeaderInv
    <3> QED BY <3>2, <3>4, <3>5 DEF LiveInv
  <2> QED BY <2>3, <2>4
<1> QED BY <1>4, <1>5, <1>6 DEF Console!Page

\* The proxy keeps what is said of a live session.
LEMMA LiveNav ==
  ASSUME Console!ConsoleAuthAssumption, Console!TypeOK, CarriedInv, LiveInv,
         NEW n \in Nav, Console!Proxy(n), session' = "live"
  PROVE  LiveInv'
<1>1. /\ session = "live" /\ newestToken' \in {newestToken, newestToken + 1}
      /\ JarInv /\ YoungInv /\ HeaderInv
  BY NewestGrows DEF LiveInv, Console!Next
<1>2. /\ tab' = tab /\ grace' = grace /\ \A m \in Nav \ {n} : nav'[m] = nav[m]
  BY NavSteps
<1>3. /\ newestToken \in Nat /\ grace \in Nat /\ grace < newestToken
      /\ jar.token \in Nat /\ jar.token <= newestToken
      /\ nav[n].token \in Nat
  BY ConsoleShape
<1>4. CASE Console!Navigates(n) \/ Console!TimesOut(n) \/ Console!Abandoned(n)
  <2>1. /\ jar' = jar /\ newestToken' = newestToken
        /\ (behind => behind') /\ (failed => failed')
    <3>1. CASE Console!TimesOut(n)
      <4>1. (behind => behind') /\ (failed => failed')
        BY <3>1, Zenon DEF Console!TimesOut
      <4> QED BY <3>1, <4>1 DEF Console!TimesOut
    <3>2. CASE Console!Navigates(n) \/ Console!Abandoned(n)
      BY <3>2 DEF Console!Navigates, Console!Abandoned
    <3> QED BY <1>4, <3>1, <3>2
  <2>2. /\ nav'[n].at \in {"login", "idle", "sent"}
        /\ nav'[n].at = "sent" => nav'[n].token = jar.token
    BY <1>4, NavSteps
  <2>3. nav[n].at # "idle" => behind'
    <3>1. CASE Console!TimesOut(n)
      BY <3>1, Zenon DEF Console!TimesOut
    <3>2. CASE Console!Navigates(n) \/ Console!Abandoned(n)
      BY <3>2 DEF Console!Navigates, Console!Abandoned
    <3> QED BY <1>4, <3>1, <3>2
  <2>4. JarInv'
    BY <1>1, <1>2, <2>1, <2>2 DEF JarInv
  <2>5. ASSUME ~behind' PROVE NewestIsKept'
    <3>1. NewestIsKept /\ nav[n].at = "idle"
      BY <1>1, <2>1, <2>3, <2>5 DEF YoungInv
    <3>2. ~(Brings(n) \/ nav[n].at = "sent")
      BY <3>1 DEF Brings
    <3> QED BY <1>2, <1>3, <2>1, <3>1, <3>2, StillKept
  <2>6. YoungInv'
    BY <1>1, <1>2, <2>1, <2>2, <2>5 DEF YoungInv
  <2>7. HeaderInv'
    BY <1>1, <1>2, <2>1 DEF HeaderInv
  <2> QED BY <2>4, <2>6, <2>7 DEF LiveInv
<1>5. CASE Console!Renewed(n)
  <2>1. jar' = jar /\ (behind => behind') /\ failed' = failed
    BY <1>5 DEF Console!Renewed
  <2>2. /\ nav'[n].at = "ok" /\ nav'[n].token = newestToken + 1
        /\ newestToken' = newestToken + 1
    BY <1>5, NavSteps
  <2>3. JarInv'
    BY <1>1, <1>2, <2>1, <2>2 DEF JarInv
  <2>4. NewestIsKept'
    BY <2>2 DEF NewestIsKept, Brings
  <2>5. YoungInv'
    <3>1. nav'[n].token > grace
      BY <1>3, <2>2
    <3> QED BY <1>1, <1>2, <2>1, <2>4, <3>1 DEF YoungInv
  <2>6. HeaderInv'
    BY <1>1, <1>2, <2>1 DEF HeaderInv
  <2> QED BY <2>3, <2>5, <2>6 DEF LiveInv
<1>6. CASE Console!Arrives(n) /\ ~nav[n].root
  <2>1. nav[n].at = "ok"
    BY <1>1, <1>6 DEF Console!Arrives, JarInv
  <2>2. /\ jar'.token = nav[n].token /\ behind' = (behind \/ jar.token > nav[n].token)
        /\ failed' = (failed \/ \E t \in Tab : tab[t].at = "reads")
        /\ newestToken' = newestToken
    BY <1>6, <2>1 DEF Console!Arrives, Console!Stored
  <2>3. nav'[n].at = "idle"
    BY <1>6, <2>1, NavSteps
  <2>4. nav[n].token # 0 /\ nav[n].token <= newestToken
    BY <2>1 DEF CarriedInv
  <2>5. JarInv'
    BY <1>1, <1>2, <2>2, <2>3, <2>4 DEF JarInv
  <2>6. ASSUME ~behind' PROVE NewestIsKept' /\ ~behind /\ nav[n].token > grace
    <3>1. ~behind /\ ~(jar.token > nav[n].token)
      BY <2>2, <2>6, Zenon
    <3>2. NewestIsKept /\ nav[n].token > grace /\ jar.token <= nav[n].token
      BY <1>1, <1>3, <2>1, <3>1 DEF YoungInv
    <3>3. Brings(n) \/ nav[n].at = "sent" => nav[n].token = newestToken
      BY <2>1 DEF Brings
    <3>4. NewestIsKept'
      BY <1>2, <1>3, <2>2, <2>4, <3>2, <3>3, StillKept
    <3> QED BY <3>1, <3>2, <3>4
  <2>7. YoungInv'
    BY <1>1, <1>2, <2>2, <2>3, <2>6 DEF YoungInv
  <2>8. HeaderInv'
    BY <1>1, <1>2, <2>2 DEF HeaderInv
  <2> QED BY <2>5, <2>7, <2>8 DEF LiveInv
<1>7. CASE Console!Arrives(n) /\ nav[n].root
  <2>1. nav[n].at = "ok"
    BY <1>1, <1>7 DEF Console!Arrives, JarInv
  <2>2. UNCHANGED <<jar, behind, failed, newestToken>>
    BY <1>7 DEF Console!Arrives
  <2>3. nav'[n].at = "redirected" /\ nav'[n].token = nav[n].token
    BY <1>7, <2>1, NavSteps
  <2>4. JarInv'
    BY <1>1, <1>2, <2>2, <2>3 DEF JarInv
  <2>5. ASSUME ~behind' PROVE NewestIsKept'
    <3>1. NewestIsKept
      BY <1>1, <2>2, <2>5 DEF YoungInv
    <3>2. Brings(n) \/ nav[n].at = "sent" => Brings(n)'
      BY <2>1, <2>2, <2>3 DEF Brings
    <3> QED BY <1>2, <1>3, <2>2, <3>1, <3>2, StillKept
  <2>6. YoungInv'
    BY <1>1, <1>2, <2>2, <2>3, <2>5 DEF YoungInv
  <2>7. HeaderInv'
    BY <1>1, <1>2, <2>2 DEF HeaderInv
  <2> QED BY <2>4, <2>6, <2>7 DEF LiveInv
<1>8. CASE Console!Follows(n)
  <2>1. /\ UNCHANGED <<jar, failed, newestToken>> /\ nav[n].at = "redirected"
        /\ behind' = (behind \/ (jar.access /\ jar.token < nav[n].token))
    BY <1>8 DEF Console!Follows
  <2>2. \/ jar.access /\ nav'[n].at = "idle"
        \/ nav'[n].at = "sent" /\ nav'[n].token = jar.token
    BY <1>1, <1>8, NavSteps DEF JarInv
  <2>3. JarInv'
    BY <1>1, <1>2, <2>1, <2>2 DEF JarInv
  <2>4. ASSUME ~behind' PROVE NewestIsKept' /\ ~behind
    <3>1. ~behind /\ ~(jar.access /\ jar.token < nav[n].token)
      BY <2>1, <2>4, Zenon
    <3>2. NewestIsKept
      BY <1>1, <3>1 DEF YoungInv
    <3>3. Brings(n) \/ nav[n].at = "sent" =>
            jar.token = newestToken \/ (Brings(n) \/ nav[n].at = "sent")'
      <4>1. CASE nav'[n].at = "sent"
        BY <4>1
      <4>2. CASE jar.access
        BY <1>3, <2>1, <3>1, <4>2 DEF Brings
      <4> QED BY <2>2, <4>1, <4>2
    <3>4. NewestIsKept'
      BY <1>2, <1>3, <2>1, <3>2, <3>3, StillKept
    <3> QED BY <3>1, <3>4
  <2>5. YoungInv'
    BY <1>1, <1>2, <2>1, <2>2, <2>4 DEF YoungInv
  <2>6. HeaderInv'
    BY <1>1, <1>2, <2>1 DEF HeaderInv
  <2> QED BY <2>3, <2>5, <2>6 DEF LiveInv
<1> QED BY <1>4, <1>5, <1>6, <1>7, <1>8 DEF Console!Proxy

\* So does every step of the console.
LEMMA LiveStep ==
  ASSUME Console!ConsoleAuthAssumption, Console!TypeOK, CarriedInv, LiveInv,
         [Console!Next]_(Console!vars)
  PROVE  LiveInv'
<1> SUFFICES ASSUME session' = "live" PROVE LiveInv'
  BY DEF LiveInv
<1>1. session = "live" /\ JarInv /\ YoungInv /\ HeaderInv
  BY NewestGrows DEF LiveInv
<1>2. /\ newestToken \in Nat /\ grace \in Nat /\ grace < newestToken
      /\ jar.token \in Nat /\ jar.token <= newestToken
      /\ jar \in [access : BOOLEAN, token : Console!Token]
  BY ConsoleShape DEF Console!TypeOK
<1>3. CASE \/ Console!EndsElsewhere \/ Console!CookiesCleared \/ Console!AccessExpires
           \/ UNCHANGED Console!vars
  <2>1. /\ UNCHANGED <<newestToken, grace, tab, nav, behind, failed>> /\ jar'.token = jar.token
    BY <1>1, <1>2, <1>3 DEF Console!EndsElsewhere, Console!CookiesCleared,
                            Console!AccessExpires, Console!vars
  <2>2. JarInv'
    BY <1>1, <2>1 DEF JarInv
  <2>3. YoungInv'
    BY <1>1, <2>1 DEF YoungInv, NewestIsKept, Brings
  <2>4. HeaderInv'
    BY <1>1, <2>1 DEF HeaderInv
  <2> QED BY <2>2, <2>3, <2>4 DEF LiveInv
<1>4. CASE Console!Ages
  <2>1. /\ UNCHANGED <<newestToken, jar, tab, nav, failed>> /\ grace' = grace + 1
        /\ grace + 1 < newestToken
        /\ Console!UnderWay => behind' /\ (~Console!UnderWay => behind' = behind)
    BY <1>4 DEF Console!Ages
  <2>2. YoungInv'
    <3> SUFFICES ASSUME ~behind' PROVE YoungInv'
      BY DEF YoungInv
    <3>1. ~Console!UnderWay
      BY <1>4 DEF Console!Ages
    <3>2. /\ \A t \in Tab : tab[t].at \notin {"sent", "ok"}
          /\ \A n \in Nav : nav[n].at \notin {"sent", "ok", "redirected"}
      BY <3>1 DEF Console!UnderWay
    <3>3. NewestIsKept
      BY <1>1, <1>4, <3>1 DEF Console!Ages, YoungInv
    <3>4. jar.token = newestToken
      BY <3>2, <3>3 DEF NewestIsKept, Brings
    <3>5. NewestIsKept' /\ jar'.token > grace'
      BY <1>2, <2>1, <3>4 DEF NewestIsKept
    <3> QED BY <2>1, <3>2, <3>5 DEF YoungInv
  <2>3. JarInv' /\ HeaderInv'
    BY <1>1, <2>1 DEF JarInv, HeaderInv
  <2> QED BY <2>2, <2>3 DEF LiveInv
<1> QED BY <1>3, <1>4, LiveTab, LiveNav DEF Console!Next, Console!Outside

\* A family ends with a reuse only when something was behind: the token of a tab or of a
\* navigation is usable, or too many had come with it.
LEMMA ReuseStep ==
  ASSUME Console!ConsoleAuthAssumption, Console!TypeOK, CarriedInv, LiveInv,
         Console!OwnRenewalsAreNoReuse, [Console!Next]_(Console!vars)
  PROVE  Console!OwnRenewalsAreNoReuse'
<1> SUFFICES ASSUME session' = "reused" PROVE behind'
  BY DEF Console!OwnRenewalsAreNoReuse
<1>1. ASSUME NEW k \in Nat, Console!Answered(k), behind' = (behind \/ Console!Crowded(k)),
             session = "live" /\ ~behind => k > grace
      PROVE  behind'
  <2>1. session = "reused" \/ (session = "live" /\ ~Console!Usable(k))
    BY <1>1 DEF Console!Answered
  <2>2. CASE behind
    BY <1>1, <2>2, Zenon
  <2>3. CASE ~behind
    <3>1. session = "live" /\ ~Console!Usable(k) /\ k > grace
      BY <1>1, <2>1, <2>3 DEF Console!OwnRenewalsAreNoReuse
    <3>2. newestToken \in Nat /\ MaxHops \in Nat
      BY ConsoleShape
    <3>3. Console!Crowded(k)
      BY <1>1, <3>1, <3>2 DEF Console!Usable, Console!Crowded
    <3> QED BY <1>1, <3>3, Zenon
  <2> QED BY <2>2, <2>3
<1>2. CASE Console!Outside \/ UNCHANGED Console!vars
  <2>1. session = "reused" /\ (behind => behind')
    BY <1>2 DEF Console!Outside, Console!EndsElsewhere, Console!CookiesCleared,
                Console!AccessExpires, Console!Ages, Console!vars
  <2> QED BY <2>1 DEF Console!OwnRenewalsAreNoReuse
<1>3. ASSUME NEW t \in Tab, Console!Page(t) PROVE behind'
  <2>1. CASE Console!Served(t) /\ tab[t].csrf = tab[t].token
    <3>1. /\ Console!Answered(tab[t].token) /\ tab[t].at = "sent"
          /\ behind' = (behind \/ Console!Crowded(tab[t].token))
      BY <2>1 DEF Console!Served
    <3>2. tab[t].token \in Nat /\ tab[t].token # 0
      BY <2>1, <3>1, ConsoleShape DEF CarriedInv
    <3>3. session = "live" /\ ~behind => tab[t].token > grace
      BY <3>1, <3>2 DEF LiveInv, YoungInv
    <3> QED BY <1>1, <3>1, <3>2, <3>3
  <2>2. CASE Console!Hears(t)
    <3>1. session = "reused"
      BY <2>2 DEF Console!Hears
    <3>2. behind => behind'
      <4>1. behind' = behind \/ behind' = (behind \/ jar.token > tab[t].token)
        BY <2>2 DEF Console!Hears, Console!Stored
      <4> QED BY <4>1, Zenon
    <3> QED BY <3>1, <3>2 DEF Console!OwnRenewalsAreNoReuse
  <2>3. CASE Console!Lost(t)
    <3>1. session = "reused"
      BY <2>3 DEF Console!Lost
    <3>2. behind => behind'
      BY <2>3, Zenon DEF Console!Lost
    <3> QED BY <3>1, <3>2 DEF Console!OwnRenewalsAreNoReuse
  <2>4. CASE \/ Console!Asks(t) \/ Console!Locked(t) \/ Console!Sends(t) \/ Console!Retries(t)
             \/ (Console!Served(t) /\ tab[t].csrf # tab[t].token)
    <3>1. session = "reused" /\ behind' = behind
      BY <2>4 DEF Console!Asks, Console!Locked, Console!Sends, Console!Retries, Console!Served
    <3> QED BY <3>1 DEF Console!OwnRenewalsAreNoReuse
  <2> QED BY <1>3, <2>1, <2>2, <2>3, <2>4 DEF Console!Page
<1>4. ASSUME NEW n \in Nav, Console!Proxy(n) PROVE behind'
  <2>1. CASE Console!Renewed(n)
    <3>1. /\ Console!Answered(nav[n].token) /\ nav[n].at = "sent"
          /\ behind' = (behind \/ Console!Crowded(nav[n].token))
      BY <2>1 DEF Console!Renewed
    <3>2. nav[n].token \in Nat
      BY ConsoleShape
    <3>3. session = "live" /\ ~behind => nav[n].token > grace
      BY <3>1 DEF LiveInv, YoungInv
    <3> QED BY <1>1, <3>1, <3>2, <3>3
  <2>2. CASE Console!Arrives(n) \/ Console!Follows(n)
    <3>1. session = "reused"
      BY <2>2 DEF Console!Arrives, Console!Follows
    <3>2. behind => behind'
      <4>1. \/ behind' = behind \/ behind' = (behind \/ jar.token > nav[n].token)
            \/ behind' = (behind \/ (jar.access /\ jar.token < nav[n].token))
        BY <2>2 DEF Console!Arrives, Console!Follows, Console!Stored
      <4> QED BY <4>1, Zenon
    <3> QED BY <3>1, <3>2 DEF Console!OwnRenewalsAreNoReuse
  <2>3. CASE Console!TimesOut(n)
    <3>1. session = "reused"
      BY <2>3 DEF Console!TimesOut
    <3>2. behind => behind'
      BY <2>3, Zenon DEF Console!TimesOut
    <3> QED BY <3>1, <3>2 DEF Console!OwnRenewalsAreNoReuse
  <2>4. CASE Console!Navigates(n) \/ Console!Abandoned(n)
    <3>1. session = "reused" /\ (behind => behind')
      BY <2>4 DEF Console!Navigates, Console!Abandoned
    <3> QED BY <3>1 DEF Console!OwnRenewalsAreNoReuse
  <2> QED BY <1>4, <2>1, <2>2, <2>3, <2>4 DEF Console!Proxy
<1> QED BY <1>2, <1>3, <1>4 DEF Console!Next

\* What leads to the login page.
LEMMA LoginStep ==
  ASSUME Console!ConsoleAuthAssumption, Console!TypeOK, LiveInv, Console!LoginIsNeeded,
         [Console!Next]_(Console!vars)
  PROVE  Console!LoginIsNeeded'
<1> SUFFICES ASSUME session' = "live", ~failed'
             PROVE  /\ \A t \in Tab : tab'[t].at # "login"
                    /\ \A n \in Nav : nav'[n].at # "login"
  BY DEF Console!LoginIsNeeded
<1>1. session = "live" /\ JarInv /\ HeaderInv
  BY NewestGrows DEF LiveInv
<1>2. CASE Console!Outside \/ UNCHANGED Console!vars
  <2>1. failed' = failed /\ tab' = tab /\ nav' = nav
    BY <1>2 DEF Console!Outside, Console!EndsElsewhere, Console!CookiesCleared,
                Console!AccessExpires, Console!Ages, Console!vars
  <2> QED BY <1>1, <2>1 DEF Console!LoginIsNeeded
<1>3. ASSUME NEW t \in Tab, Console!Page(t)
      PROVE  /\ \A s \in Tab : tab'[s].at # "login"
             /\ \A n \in Nav : nav'[n].at # "login"
  <2>1. ~failed /\ tab'[t].at # "login"
    <3>1. CASE Console!Retries(t)
      <4>1. ~failed /\ jar.access
        <5>1. failed' = (failed \/ ~jar.access)
          BY <3>1 DEF Console!Retries
        <5> QED BY <5>1, Zenon
      <4>2. tab' = [tab EXCEPT ![t] = Console!Idle]
        BY <1>1, <3>1, <4>1 DEF Console!Retries
      <4> QED BY <4>1, <4>2, ConsoleShape DEF Console!Idle
    <3>2. CASE ~Console!Retries(t)
      <4>1. ~failed
        BY <1>3, <3>2 DEF Console!Page, Console!Asks, Console!Locked, Console!Sends,
                          Console!Served, Console!Hears, Console!Lost
      <4>2. CASE Console!Hears(t)
        <5>1. tab[t].at = "ok"
          BY <1>1, <4>1, <4>2 DEF Console!Hears, HeaderInv
        <5> QED BY <1>3, <4>1, <4>2, <5>1, TabSteps
      <4>3. CASE Console!Locked(t)
        BY <1>1, <1>3, <4>1, <4>3, TabSteps DEF JarInv
      <4>4. CASE Console!Asks(t) \/ Console!Sends(t) \/ Console!Served(t) \/ Console!Lost(t)
        <5>1. tab'[t].at # "login"
          BY <1>3, <4>4, TabSteps
        <5> QED BY <4>1, <5>1
      <4> QED BY <1>3, <3>2, <4>2, <4>3, <4>4 DEF Console!Page
    <3> QED BY <3>1, <3>2
  <2>2. nav' = nav /\ \A s \in Tab \ {t} : tab'[s] = tab[s]
    BY <1>3, TabSteps
  <2> QED BY <1>1, <2>1, <2>2 DEF Console!LoginIsNeeded
<1>4. ASSUME NEW n \in Nav, Console!Proxy(n)
      PROVE  /\ \A t \in Tab : tab'[t].at # "login"
             /\ \A m \in Nav : nav'[m].at # "login"
  <2>1. ~failed /\ nav'[n].at # "login"
    <3>1. CASE Console!Arrives(n)
      <4>1. nav[n].at = "ok"
        BY <1>1, <3>1 DEF Console!Arrives, JarInv
      <4>2. ~failed
        <5>1. \/ failed' = failed \/ failed' = (failed \/ \E t \in Tab : tab[t].at = "reads")
          BY <3>1, <4>1 DEF Console!Arrives
        <5> QED BY <5>1, Zenon
      <4> QED BY <1>4, <3>1, <4>1, <4>2, NavSteps
    <3>2. CASE Console!TimesOut(n)
      BY <3>2 DEF Console!TimesOut
    <3>3. CASE \/ Console!Navigates(n) \/ Console!Renewed(n) \/ Console!Follows(n)
               \/ Console!Abandoned(n)
      <4>1. failed' = failed
        BY <3>3 DEF Console!Navigates, Console!Renewed, Console!Follows, Console!Abandoned
      <4>2. nav'[n].at # "login"
        BY <1>1, <1>4, <3>3, NavSteps DEF JarInv
      <4> QED BY <4>1, <4>2
    <3> QED BY <1>4, <3>1, <3>2, <3>3 DEF Console!Proxy
  <2>2. tab' = tab /\ \A m \in Nav \ {n} : nav'[m] = nav[m]
    BY <1>4, NavSteps
  <2> QED BY <1>1, <2>1, <2>2 DEF Console!LoginIsNeeded
<1> QED BY <1>2, <1>3, <1>4 DEF Console!Next

\* However tabs, navigations, answers and the end of the grace period interleave: the console's
\* own renewals end no session, unless something was lost, slow, overtaken or crowded, and
\* nobody is sent to the login page of a live session, unless something failed.
THEOREM ConsoleHolds ==
  ASSUME Console!ConsoleAuthAssumption
  PROVE  Console!Spec => [](/\ Console!TypeOK /\ Console!OwnRenewalsAreNoReuse
                            /\ Console!LoginIsNeeded)
<1>1. Console!Init => ConsoleInv
  <2> SUFFICES ASSUME Console!Init PROVE ConsoleInv
    OBVIOUS
  <2>1. Console!TypeOK
    <3>1. 0 \in Console!Token /\ 1 \in Console!Token /\ MaxLosses \in Nat /\ None \notin Tab
      BY DEF Console!ConsoleAuthAssumption, Console!Token
    <3>2. /\ Console!Idle \in TabState /\ Console!Here \in NavState
          /\ Console!Idle.at \notin Holding
      BY <3>1 DEF Console!Idle, Console!Here, TabState, NavState, Holding
    <3>3. tab \in [Tab -> TabState] /\ nav \in [Nav -> NavState]
          /\ \A t \in Tab : tablock = t <=> tab[t].at \in Holding
      BY <3>1, <3>2 DEF Console!Init
    <3>4. jar \in [access : BOOLEAN, token : Console!Token] /\ jar.token = 1
      BY <3>1 DEF Console!Init
    <3>5. /\ session \in {"live", "ended", "reused"}
          /\ newestToken \in Console!Token /\ grace \in Console!Token /\ grace < newestToken
          /\ jar.token <= newestToken /\ tablock \in Tab \cup {None}
          /\ behind \in BOOLEAN /\ failed \in BOOLEAN /\ cfaults \in 0..MaxLosses
      <4>1. /\ session = "live" /\ newestToken = 1 /\ grace = 0 /\ tablock = None
            /\ behind = FALSE /\ failed = FALSE /\ cfaults = 0
        BY DEF Console!Init
      <4>2. 0 \in 0..MaxLosses /\ 0 < 1 /\ 1 <= 1
        BY <3>1
      <4> QED BY <3>1, <3>4, <4>1, <4>2
    <3> QED BY <3>3, <3>4, <3>5 DEF Console!TypeOK, TabState, NavState, Holding
  <2>2. /\ session = "live" /\ newestToken = 1 /\ grace = 0 /\ jar.token = 1 /\ ~behind
        /\ \A t \in Tab : tab[t].at = "idle"
        /\ \A n \in Nav : nav[n].at = "idle"
    BY DEF Console!Init, Console!Idle, Console!Here
  <2>3. CarriedInv /\ JarInv /\ HeaderInv
    BY <2>2 DEF CarriedInv, JarInv, HeaderInv
  <2>4. YoungInv
    BY <2>2 DEF YoungInv, NewestIsKept
  <2>5. Console!OwnRenewalsAreNoReuse /\ Console!LoginIsNeeded
    BY <2>2 DEF Console!OwnRenewalsAreNoReuse, Console!LoginIsNeeded
  <2> QED BY <2>1, <2>3, <2>4, <2>5 DEF ConsoleInv, LiveInv
<1>2. ConsoleInv /\ [Console!Next]_(Console!vars) => ConsoleInv'
  BY ConsoleTypes, CarriedStep, LiveStep, ReuseStep, LoginStep DEF ConsoleInv
<1>3. ConsoleInv => /\ Console!TypeOK /\ Console!OwnRenewalsAreNoReuse
                    /\ Console!LoginIsNeeded
  BY DEF ConsoleInv
<1> QED BY <1>1, <1>2, <1>3, PTL DEF Console!Spec

-----------------------------------------------------------------------------
(* The specification of the run *)

\* A step of the run is one of each instance, or leaves it alone.
LEMMA EdgeSteps ==
  ASSUME [Next]_vars
  PROVE  /\ [Health!Next]_(Health!vars) /\ [Policy!Next]_(Policy!vars)
         /\ [Room!Next]_(Room!vars) /\ [Frames!Next]_(Frames!vars)
         /\ [Console!Next]_(Console!vars) /\ [Feed!Next]_(Feed!vars)
         /\ [View!Next]_(View!vars) /\ [Lens!Next]_(Lens!vars) /\ [Stats!Next]_(Stats!vars)
<1>1. [Health!Next]_(Health!vars)
  BY DEF Next, vars, health, Health!vars
<1>2. [Policy!Next]_(Policy!vars)
  BY DEF Next, vars, policy, Policy!vars
<1>3. [Room!Next]_(Room!vars)
  BY DEF Next, vars, room, Room!vars
<1>4. [Frames!Next]_(Frames!vars)
  BY DEF Next, vars, flow, Frames!vars
<1>5. [Console!Next]_(Console!vars)
  BY DEF Next, vars, console, Console!vars
<1>6. [Feed!Next]_(Feed!vars)
  BY DEF Next, vars, feed, Feed!vars
<1>7. [View!Next]_(View!vars)
  BY DEF Next, vars, view, View!vars
<1>8. [Lens!Next]_(Lens!vars)
  BY DEF Next, vars, capture, Lens!vars, Lens!heart, Lens!frames
<1>9. [Stats!Next]_(Stats!vars)
  BY DEF Next, vars, stats, Stats!vars
<1> QED BY <1>1, <1>2, <1>3, <1>4, <1>5, <1>6, <1>7, <1>8, <1>9

\* A behaviour of the edge is one of each of its parts.
LEMMA EdgeInstances ==
  FairSpec => /\ Health!Spec /\ Policy!Spec /\ Room!Spec /\ Frames!Spec /\ Console!Spec
              /\ Feed!Spec /\ View!Spec /\ Lens!Spec /\ Stats!Spec
<1>1. Init => /\ Health!Init /\ Policy!Init /\ Room!Init /\ Frames!Init /\ Console!Init
              /\ Feed!Init /\ View!Init /\ Lens!Init /\ Stats!Init
  BY DEF Init
<1> QED BY <1>1, EdgeSteps, PTL
        DEF FairSpec, Health!Spec, Policy!Spec, Room!Spec, Frames!Spec, Console!Spec, Feed!Spec,
            View!Spec, Lens!Spec, Stats!Spec

\* TRANSITION_LUA: whatever the replicas read, fail to read or publish late, what was
\* announced last is the newest observation.
THEOREM NewestObservationWins == FairSpec => []NewestIsAnnounced
<1>1. Health!TypeOK /\ Health!NewestIsAnnounced => NewestIsAnnounced
  BY DEF NewestIsAnnounced
<1>2. Health!Spec => [](Health!TypeOK /\ Health!NewestIsAnnounced)
  BY EdgeAssumption, HealthHolds
<1> QED BY <1>1, <1>2, EdgeInstances, PTL

\* PUBLISH_NEWER_LUA and _apply: however many administrators write and replicas republish,
\* neither Redis nor the detector goes back to an older policy.
THEOREM PolicyNeverGoesBack == FairSpec => NeverGoesBack
<1>1. Policy!Spec => Policy!NeverGoesBack
  BY EdgeAssumption, PolicyGoesForward
<1> QED BY <1>1, EdgeInstances, PTL DEF NeverGoesBack

\* submit, _handle and is_absent: however full the queue was and often the stream broke, the
\* pose model is spared while the gate sees somebody only as long as the entry is on its way,
\* or was one of those that are lost.
THEOREM AbsenceIsTrue == FairSpec => []AbsentIsTrue
<1>1. Room!TypeOK /\ Room!AbsentIsTrue => AbsentIsTrue
  BY DEF AbsentIsTrue
<1>2. Room!Spec => [](Room!TypeOK /\ Room!AbsentIsTrue)
  BY EdgeAssumption, PresenceHolds
<1> QED BY <1>1, <1>2, EdgeInstances, PTL

\* push, pop_fresh and _pop: every frame is in one place or counter, and none is sent after a
\* newer one.
THEOREM FramesAreCounted == FairSpec => []FramesAreAccounted
<1>1. Frames!TypeOK /\ Frames!FramesAreAccounted => FramesAreAccounted
  BY DEF FramesAreAccounted
<1>2. Frames!Spec => [](Frames!TypeOK /\ Frames!FramesAreAccounted)
  BY EdgeAssumption, FlowHolds
<1> QED BY <1>1, <1>2, EdgeInstances, PTL

\* refreshUnderLock, renewSession and refresh: however tabs and navigations renew the session at
\* once, they do not end it, and nobody is sent to the login page of a live session, but for
\* what was lost, slow, overtaken, crowded, or dropped by the redirect of "/", or failed.
THEOREM ConsoleKeepsIn == FairSpec => []ConsoleStaysIn
<1>1. (Console!TypeOK /\ Console!OwnRenewalsAreNoReuse /\ Console!LoginIsNeeded)
        => ConsoleStaysIn
  BY DEF ConsoleStaysIn
<1>2. Console!Spec => [](/\ Console!TypeOK /\ Console!OwnRenewalsAreNoReuse
                         /\ Console!LoginIsNeeded)
  BY EdgeAssumption, ConsoleHolds
<1> QED BY <1>1, <1>2, EdgeInstances, PTL

\* manager.ts, frame-socket.ts and CaptureLoop: whatever is lost, closed or unplugged and in
\* whatever order timers fire, a channel that somebody listens to and the picture of a camera
\* are connected, stopped, or going to be connected, but for a channel that was closed in order
\* or parked by diagnose; and the frames of a camera are numbered without a gap, keep to their
\* pace, are followed by the attempts to touch the heartbeat file, and end with the loop.
THEOREM FeedStaysDriven == FairSpec => []FeedIsDriven
<1>1. Feed!Spec => [](Feed!TypeOK /\ Feed!FeedIsDriven)
  BY CameraAssumption, FeedHolds
<1>2. View!Spec => [](/\ View!TypeOK /\ View!ViewIsDriven /\ View!HealthIsTrue
                      /\ View!PicturesAreReleased /\ View!ViewersAreBounded)
  BY CameraAssumption, ViewHolds
<1>3. Lens!Spec => [](/\ Lens!TypeOK /\ Lens!PaceIsKept /\ Lens!NumbersFollow
                      /\ Lens!BeatIsAFrame /\ Lens!OneFrameLate)
  BY CameraAssumption, CaptureHolds
<1>4. /\ Feed!TypeOK /\ Feed!FeedIsDriven /\ View!ViewIsDriven
      /\ Lens!TypeOK /\ Lens!PaceIsKept /\ Lens!NumbersFollow
      /\ Lens!BeatIsAFrame /\ Lens!OneFrameLate
      => FeedIsDriven
  BY DEF FeedIsDriven
<1> QED BY <1>1, <1>2, <1>3, <1>4, EdgeInstances, PTL

\* run_frame_pump, ViewerLimit, useFrameBitmap and StatsPublisher: however often the socket, the
\* pump and the page end and start again, a page shows the last state the pump found, nobody
\* looks past the limit, and no picture outlives its page; and however late the calls to the
\* detector end, a frame is measured once and the figures of a dead camera are forgotten.
THEOREM ViewStaysTrue == FairSpec => []ViewIsTrue
<1>1. View!Spec => [](/\ View!TypeOK /\ View!ViewIsDriven /\ View!HealthIsTrue
                      /\ View!PicturesAreReleased /\ View!ViewersAreBounded)
  BY CameraAssumption, ViewHolds
<1>2. Stats!Spec => [](/\ Stats!TypeOK /\ Stats!FramesAreMeasuredOnce
                       /\ Stats!DeadIsForgotten /\ Stats!LatencyIsOfTheLast)
  BY CameraAssumption, StatsHolds
<1>3. /\ View!TypeOK /\ View!HealthIsTrue /\ View!ViewersAreBounded /\ View!PicturesAreReleased
      /\ Stats!TypeOK /\ Stats!FramesAreMeasuredOnce /\ Stats!DeadIsForgotten
      /\ Stats!LatencyIsOfTheLast
      => ViewIsTrue
  BY DEF ViewIsTrue
<1> QED BY <1>1, <1>2, <1>3, EdgeInstances, PTL
=============================================================================
