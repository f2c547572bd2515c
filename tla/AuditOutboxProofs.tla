------------------------- MODULE AuditOutboxProofs -------------------------
(* Theorems about AuditOutbox, for any number of events and drains and any bounds. *)
EXTENDS AuditOutbox, TLAPS

\* A count that is capped stays within its bound and, once raised, is not zero.
LEMMA UpToBound ==
  ASSUME NEW cap \in Nat \ {0}, NEW n \in 0..cap
  PROVE  UpTo(n + 1, cap) \in 0..cap /\ UpTo(n + 1, cap) > 0 /\ UpTo(1, cap) = 1
BY DEF UpTo

\* The audit service keeps what it holds, and then holds the event as well.
LEMMA Stored ==
  ASSUME log \in Seq(Event), NEW e \in Event, Store(e)
  PROVE  /\ log' \in Seq(Event)
         /\ Logged(e)'
         /\ \A f \in Event : f # e => (Logged(f)' <=> Logged(f))
<1>1. CASE Logged(e)
  BY <1>1 DEF Store, Logged
<1>2. CASE ~Logged(e)
  <2>1. log' = Append(log, e)
    BY <1>2 DEF Store, Service!AppendEvent
  <2>2. /\ log' \in Seq(Event) /\ Len(log') = Len(log) + 1 /\ log'[Len(log) + 1] = e
        /\ \A n \in 1..Len(log) : log'[n] = log[n]
        /\ DOMAIN log = 1..Len(log) /\ DOMAIN log' = 1..(Len(log) + 1) /\ Len(log) \in Nat
    BY <2>1
  <2>3. Logged(e)'
    BY <2>2 DEF Logged
  <2>4. ASSUME NEW f \in Event, f # e PROVE Logged(f)' <=> Logged(f)
    <3>1. Logged(f) => Logged(f)'
      BY <2>2 DEF Logged
    <3>2. Logged(f)' => Logged(f)
      <4> SUFFICES ASSUME Logged(f)' PROVE Logged(f)
        OBVIOUS
      <4>1. PICK n \in DOMAIN log' : log'[n] = f
        BY DEF Logged
      <4>2. n \in 1..Len(log)
        BY <2>2, <2>4, <4>1
      <4> QED BY <2>2, <4>1, <4>2 DEF Logged
    <3> QED BY <3>1, <3>2
  <2> QED BY <2>2, <2>3, <2>4
<1> QED BY <1>1, <1>2

-----------------------------------------------------------------------------
(* The steps, by what they do to the parts of the state that the theorems relate *)

\* A drain that is done with its event.
Rested(d) ==
  /\ pc' = [pc EXCEPT ![d] = "idle"]
  /\ job' = [job EXCEPT ![d] = None]
  /\ outcome' = [outcome EXCEPT ![d] = "none"]

\* A drainer that goes back to rest keeps its types.
LEMMA RestType ==
  ASSUME TypeOK, NEW d \in Drainer, Rest(d)
  PROVE  /\ Rested(d)
         /\ pc' \in [Drainer -> {"idle", "send", "resolve", "bury"}]
         /\ job' \in [Drainer -> Event \cup {None}]
         /\ \A c \in Drainer : pc'[c] # "idle" => job'[c] \in Event
         /\ seen' \in [Drainer -> 0..MaxUnknown]
         /\ outcome' \in [Drainer -> Outcome]
BY OutboxAssumption DEF TypeOK, Rest, Rested, Outcome

\* Every step keeps the types.
LEMMA StepType == TypeOK /\ [Next]_vars => TypeOK'
<1> SUFFICES ASSUME TypeOK, [Next]_vars PROVE TypeOK'
  OBVIOUS
<1> USE OutboxAssumption DEF entry, drain
<1>0. \A d \in Drainer : pc[d] # "idle" => job[d] \in Event
  BY DEF TypeOK
<1>1. ASSUME NEW e \in Event, Count(e) PROVE TypeOK'
  BY <1>1 DEF Count, TypeOK
<1>2. ASSUME NEW e \in Event, Enqueue(e) PROVE TypeOK'
  BY <1>2 DEF Enqueue, Insert, TypeOK
<1>3. ASSUME NEW e \in Event, Shed(e) PROVE TypeOK'
  <2>1. PICK m \in Marker : Insert(m)
                            /\ emission' = [emission EXCEPT ![e] = "dropped", ![m] = "kept"]
    BY <1>3 DEF Shed
  <2>2. UNCHANGED <<dead, old, log, pc, job, seen, outcome, up, faults, outages>>
    BY <1>3 DEF Shed
  <2> QED BY <2>1, <2>2 DEF Insert, TypeOK
<1>4. ASSUME NEW e \in Event, EmitFails(e) PROVE TypeOK'
  BY <1>4 DEF EmitFails, Fault, TypeOK
<1>5. ASSUME NEW d \in Drainer, Claim(d) PROVE TypeOK'
  BY <1>5 DEF Claim, Claimable, TypeOK
<1>6. ASSUME NEW d \in Drainer, Send(d) PROVE TypeOK'
  <2>1. PICK o \in Outcome : Answered(d, o)
    BY <1>6 DEF Send, Accepted, Rejected, RateLimited, Unreachable, ReplyLost, Outcome
  <2>2. log' \in Seq(Event)
    <3>1. job[d] \in Event
      BY <1>0, <2>1 DEF Answered
    <3> QED BY <1>6, <3>1, Stored
            DEF Send, Accepted, Rejected, RateLimited, Unreachable, ReplyLost, TypeOK
  <2>3. faults' \in 0..MaxFaults
    BY <1>6 DEF Send, Accepted, Rejected, RateLimited, Unreachable, ReplyLost, Fault, TypeOK
  <2> QED BY <2>1, <2>2, <2>3 DEF Answered, TypeOK
<1>7. ASSUME NEW d \in Drainer, Release(d) PROVE TypeOK'
  BY <1>7, RestType DEF Release, Delete, TypeOK
<1>8. ASSUME NEW d \in Drainer, Defer(d) PROVE TypeOK'
  <2>1. /\ attempts' \in [Event -> 0..MaxUnknown]
        /\ due' \subseteq pending /\ claimed' \subseteq pending
    BY <1>8, UpToBound DEF Defer, TypeOK
  <2> QED BY <1>8, <2>1, RestType DEF Defer, TypeOK
<1>9. ASSUME NEW d \in Drainer, BuryInsert(d) PROVE TypeOK'
  <2>1. dead' \in [Event -> 0..MaxDead]
    BY <1>9, UpToBound DEF BuryInsert, TypeOK
  <2> QED BY <1>9, <2>1 DEF BuryInsert, TypeOK
<1>10. ASSUME NEW d \in Drainer, BuryDelete(d) PROVE TypeOK'
  BY <1>10, RestType DEF BuryDelete, Delete, TypeOK
<1>11. ASSUME NEW d \in Drainer, Crash(d) PROVE TypeOK'
  BY <1>11, RestType DEF Crash, Fault, TypeOK
<1>12. ASSUME NEW e \in Event, ComesDue(e) \/ LeaseLapses(e) \/ GrowsOld(e) PROVE TypeOK'
  BY <1>12 DEF ComesDue, LeaseLapses, GrowsOld, Fault, TypeOK
<1>13. CASE AuditGoesDown \/ AuditComesBack
  <2>1. up' \in BOOLEAN /\ outages' \in 0..MaxOutages
    <3>1. CASE AuditGoesDown
      <4>1. up' = FALSE /\ outages < MaxOutages /\ outages' = outages + 1
        BY <3>1 DEF AuditGoesDown
      <4>2. outages' \in 0..MaxOutages
        BY <4>1 DEF TypeOK
      <4> QED BY <4>1, <4>2
    <3>2. CASE AuditComesBack
      BY <3>2 DEF AuditComesBack, TypeOK
    <3> QED BY <1>13, <3>1, <3>2
  <2>2. UNCHANGED <<emission, pending, attempts, due, claimed, dead, old, log, pc, job, seen,
                    outcome, faults>>
    BY <1>13 DEF AuditGoesDown, AuditComesBack
  <2> QED BY <2>1, <2>2 DEF TypeOK
<1>14. CASE UNCHANGED vars
  BY <1>14 DEF vars, TypeOK
<1> QED BY <1>1, <1>2, <1>3, <1>4, <1>5, <1>6, <1>7, <1>8, <1>9, <1>10, <1>11, <1>12, <1>13, <1>14
        DEF Next, Emit, Resolve

-----------------------------------------------------------------------------
(* NothingIsLost *)

\* The event is accounted for.
Kept(e) == e \in pending \/ Logged(e) \/ dead[e] > 0

\* What a drain knows when it is about to delete its event: the reply says that the log
\* holds it, or its dead letter has been written.
Justified(d) ==
  /\ pc[d] = "resolve" /\ outcome[d] = "accepted" => Logged(job[d])
  /\ pc[d] = "bury" => dead[job[d]] > 0

Accounted ==
  /\ TypeOK
  /\ \A d \in Drainer : Justified(d)
  /\ NothingIsLost

\* Dead letters and logged events stay: what was justified or kept remains so, in a step
\* that touches neither the outbox nor this drain.
LEMMA StillJustified ==
  ASSUME TypeOK, NEW d \in Drainer, Justified(d), pc'[d] = pc[d], job'[d] = job[d],
         outcome'[d] = outcome[d],
         \A e \in Event : (Logged(e) => Logged(e)') /\ (dead[e] > 0 => dead'[e] > 0)
  PROVE  Justified(d)'
BY DEF Justified, TypeOK

\* Every step keeps the account of the entries.
LEMMA AccountedStep == Accounted /\ [Next]_vars => Accounted'
<1> SUFFICES ASSUME Accounted, [Next]_vars PROVE Accounted'
  OBVIOUS
<1> USE DEF entry, drain
<1>0. TypeOK' /\ TypeOK
  BY StepType DEF Accounted
<1>a. \A e \in Event : emission[e] = "kept" => Kept(e)
  BY DEF Accounted, NothingIsLost, Kept
<1>b. ASSUME \A d \in Drainer : Justified(d)',
             \A e \in Event : emission'[e] = "kept" => emission[e] = "kept" \/ e \in pending',
             \A e \in Event : Kept(e) => Kept(e)'
      PROVE  Accounted'
  BY <1>0, <1>a, <1>b DEF Accounted, NothingIsLost, Kept
\* The steps after which log, dead letters and drains are as they were.
<1>1. ASSUME UNCHANGED <<log, dead, pc, job, outcome>>, pending \subseteq pending',
             \A e \in Event : emission'[e] = "kept" => emission[e] = "kept" \/ e \in pending'
      PROVE  Accounted'
  BY <1>0, <1>1, <1>b DEF Accounted, Justified, Kept, Logged
<1>2. ASSUME NEW e \in Event, Emit(e) PROVE Accounted'
  <2>1. CASE Count(e) \/ EmitFails(e)
    BY <1>0, <1>1, <2>1 DEF Count, EmitFails, TypeOK
  <2>2. CASE Enqueue(e)
    BY <1>0, <1>1, <2>2 DEF Enqueue, Insert, TypeOK
  <2>3. CASE Shed(e)
    <3>1. PICK m \in Marker : Insert(m)
                              /\ emission' = [emission EXCEPT ![e] = "dropped", ![m] = "kept"]
      BY <2>3 DEF Shed
    <3> QED BY <1>0, <1>1, <2>3, <3>1 DEF Shed, Insert, TypeOK
  <2> QED BY <1>2, <2>1, <2>2, <2>3 DEF Emit
\* The steps in which a drain moves on without deleting anything.
<1>3. ASSUME NEW d \in Drainer, UNCHANGED <<emission, pending>>,
             \A e \in Event : (Logged(e) => Logged(e)') /\ (dead[e] > 0 => dead'[e] > 0),
             \A c \in Drainer \ {d} :
               pc'[c] = pc[c] /\ job'[c] = job[c] /\ outcome'[c] = outcome[c],
             Justified(d)'
      PROVE  Accounted'
  <2>1. \A c \in Drainer : Justified(c)'
    BY <1>0, <1>3, StillJustified DEF Accounted
  <2>2. \A e \in Event : Kept(e) => Kept(e)'
    BY <1>3 DEF Kept
  <2> QED BY <1>3, <1>b, <2>1, <2>2
<1>4. ASSUME NEW d \in Drainer, Claim(d) PROVE Accounted'
  <2>1. pc'[d] = "send" /\ UNCHANGED <<log, dead>>
    BY <1>0, <1>4 DEF Claim, TypeOK
  <2> QED BY <1>0, <1>3, <1>4, <2>1 DEF Claim, TypeOK, Logged, Justified
<1>5. ASSUME NEW d \in Drainer, Send(d) PROVE Accounted'
  <2>1. PICK o \in Outcome : Answered(d, o)
    BY <1>5 DEF Send, Accepted, Rejected, RateLimited, Unreachable, ReplyLost, Outcome
  <2>2. /\ pc'[d] = "resolve" /\ outcome'[d] = o /\ job'[d] = job[d] /\ UNCHANGED dead
        /\ job[d] \in Event
        /\ \A c \in Drainer \ {d} : pc'[c] = pc[c] /\ job'[c] = job[c] /\ outcome'[c] = outcome[c]
    BY <1>0, <2>1 DEF Answered, TypeOK
  <2>3. UNCHANGED log \/ Store(job[d])
    BY <1>5 DEF Send, Accepted, Rejected, RateLimited, Unreachable, ReplyLost
  <2>4. \A e \in Event : Logged(e) => Logged(e)'
    BY <1>0, <2>2, <2>3, Stored DEF TypeOK, Logged
  <2>5. o = "accepted" => Logged(job[d])'
    <3>1. o = "accepted" => Store(job[d])
      BY <1>5, <2>2, <1>0
         DEF Send, Accepted, Rejected, RateLimited, Unreachable, ReplyLost, Answered, TypeOK
    <3>2. Store(job[d]) => \E e \in Event : e = job[d] /\ Logged(e)'
      BY <1>0, <2>2, Stored DEF TypeOK
    <3> QED BY <2>2, <3>1, <3>2 DEF Logged
  <2>6. Justified(d)'
    BY <2>2, <2>5 DEF Justified, Logged
  <2> QED BY <1>3, <2>1, <2>2, <2>4, <2>6 DEF Answered
<1>6. ASSUME NEW d \in Drainer, BuryInsert(d) PROVE Accounted'
  <2>1. /\ pc'[d] = "bury" /\ job'[d] = job[d] /\ job[d] \in Event /\ UNCHANGED log
        /\ \A c \in Drainer \ {d} : pc'[c] = pc[c] /\ job'[c] = job[c] /\ outcome'[c] = outcome[c]
    BY <1>0, <1>6 DEF BuryInsert, TypeOK
  <2>2. dead'[job[d]] > 0 /\ \A e \in Event : dead[e] > 0 => dead'[e] > 0
    BY <1>0, <1>6, <2>1, UpToBound, OutboxAssumption DEF BuryInsert, TypeOK
  <2>3. Justified(d)'
    BY <2>1, <2>2 DEF Justified
  <2> QED BY <1>3, <1>6, <2>1, <2>2, <2>3 DEF BuryInsert, Logged
<1>7. ASSUME NEW d \in Drainer, Defer(d) \/ Crash(d) PROVE Accounted'
  <2>1. Rested(d) /\ UNCHANGED <<emission, pending, dead, log>>
    BY <1>0, <1>7, RestType DEF Defer, Crash
  <2>2. /\ pc'[d] = "idle"
        /\ \A c \in Drainer \ {d} : pc'[c] = pc[c] /\ job'[c] = job[c] /\ outcome'[c] = outcome[c]
    BY <1>0, <2>1 DEF Rested, TypeOK
  <2>3. Justified(d)'
    BY <2>2 DEF Justified
  <2> QED BY <1>3, <2>1, <2>2, <2>3 DEF Logged
<1>8. ASSUME NEW d \in Drainer, Release(d) \/ BuryDelete(d) PROVE Accounted'
  <2>1. Rested(d) /\ UNCHANGED <<emission, dead, log>> /\ pending' = pending \ {job[d]}
    BY <1>0, <1>8, RestType DEF Release, BuryDelete, Delete
  <2>2. Logged(job[d]) \/ dead[job[d]] > 0
    BY <1>8 DEF Release, BuryDelete, Accounted, Justified
  <2>3. \A e \in Event : Kept(e) => Kept(e)'
    BY <2>1, <2>2 DEF Kept, Logged
  <2>4. \A c \in Drainer : Justified(c)'
    <3>1. ASSUME NEW c \in Drainer \ {d} PROVE Justified(c)'
      BY <1>0, <2>1, StillJustified DEF Rested, TypeOK, Accounted, Logged
    <3>2. Justified(d)'
      BY <1>0, <2>1 DEF Rested, TypeOK, Justified
    <3> QED BY <3>1, <3>2
  <2> QED BY <1>b, <2>1, <2>3, <2>4
<1>9. ASSUME NEW e \in Event, ComesDue(e) \/ LeaseLapses(e) \/ GrowsOld(e) PROVE Accounted'
  BY <1>1, <1>9 DEF ComesDue, LeaseLapses, GrowsOld
<1>10. CASE AuditGoesDown \/ AuditComesBack \/ UNCHANGED vars
  BY <1>1, <1>10 DEF AuditGoesDown, AuditComesBack, vars
<1> QED BY <1>2, <1>4, <1>5, <1>6, <1>7, <1>8, <1>9, <1>10 DEF Next, Resolve

-----------------------------------------------------------------------------

\* Every reachable state is accounted for.
THEOREM Accounting == Spec => []Accounted
<1>1. Init => Accounted
  <2> SUFFICES ASSUME Init PROVE Accounted
    OBVIOUS
  <2>1. TypeOK
    BY OutboxAssumption DEF Init, TypeOK, Outcome
  <2>2. NothingIsLost /\ \A d \in Drainer : Justified(d)
    BY DEF Init, NothingIsLost, Justified
  <2> QED BY <2>1, <2>2 DEF Accounted
<1> QED BY <1>1, AccountedStep, PTL DEF Spec

\* Every value stays in its type: in particular a drain that is at work has an event.
THEOREM TypeCorrect == Spec => []TypeOK
<1>1. Accounted => TypeOK
  BY DEF Accounted
<1> QED BY <1>1, Accounting, PTL

\* No event that the outbox has taken is lost (AuditOutboxRepository and audit_drain).
THEOREM EventsAreKept == Spec => []NothingIsLost
<1>1. Accounted => NothingIsLost
  BY DEF Accounted
<1> QED BY <1>1, Accounting, PTL

-----------------------------------------------------------------------------
(* Without a fault: OneDrainPerEvent and DeadIsNotLogged *)

\* A drain at work has the lease of a document that exists, and has it alone.
Exclusive ==
  /\ \A d \in Drainer : pc[d] = "idle" <=> job[d] = None
  /\ \A d \in Drainer : job[d] # None => job[d] \in pending /\ job[d] \in claimed
  /\ \A c, d \in Drainer : job[c] = job[d] /\ job[c] # None => c = d

\* An event that is still to be enqueued is nowhere; one that is logged or buried is out of
\* the outbox, or about to leave it in the hands of the drain that got it there.
Clean(e) ==
  /\ emission[e] # "kept" => e \notin pending /\ ~Logged(e) /\ dead[e] = 0
  /\ e \in pending /\ Logged(e)
       => \E d \in Drainer : job[d] = e /\ pc[d] = "resolve" /\ outcome[d] = "accepted"
  /\ e \in pending /\ dead[e] > 0 => \E d \in Drainer : job[d] = e /\ pc[d] = "bury"
  /\ dead[e] > 0 => ~Logged(e) /\ dead[e] = 1

Calm ==
  /\ TypeOK
  /\ faults = 0 => Exclusive /\ \A e \in Event : Clean(e)

\* What a drain does with its own event does not concern the others.
LEMMA OthersStayClean ==
  ASSUME TypeOK, NEW d \in Drainer, NEW f \in Event, Clean(f), f # job[d],
         f \in pending' <=> f \in pending, Logged(f)' <=> Logged(f), dead'[f] = dead[f],
         emission'[f] = emission[f],
         \A c \in Drainer \ {d} : pc'[c] = pc[c] /\ job'[c] = job[c] /\ outcome'[c] = outcome[c]
  PROVE  Clean(f)'
<1>1. f \in pending' /\ Logged(f)'
        => \E c \in Drainer : job'[c] = f /\ pc'[c] = "resolve" /\ outcome'[c] = "accepted"
  BY DEF Clean
<1>2. f \in pending' /\ dead'[f] > 0 => \E c \in Drainer : job'[c] = f /\ pc'[c] = "bury"
  BY DEF Clean
<1> QED BY <1>1, <1>2 DEF Clean

\* A drain that has not resolved its event finds it neither logged nor buried.
LEMMA Untouched ==
  ASSUME TypeOK, Exclusive, NEW d \in Drainer, NEW e \in Event, e = job[d], Clean(e),
         \/ pc[d] = "send"
         \/ pc[d] = "resolve" /\ outcome[d] # "accepted"
  PROVE  e \in pending /\ ~Logged(e) /\ dead[e] = 0
<1>1. e \in pending /\ e # None
  BY OutboxAssumption DEF Exclusive
<1>2. \A c \in Drainer : job[c] = e => c = d
  BY <1>1 DEF Exclusive
<1>3. dead[e] \in Nat
  BY OutboxAssumption DEF TypeOK
<1> QED BY <1>1, <1>2, <1>3 DEF Clean

\* Every step keeps what is said of the drainers while nothing fails.
LEMMA CalmStep == Calm /\ [Next]_vars => Calm'
<1> SUFFICES ASSUME Calm, [Next]_vars, faults' = 0 PROVE Exclusive' /\ \A e \in Event : Clean(e)'
  BY StepType DEF Calm
<1> USE DEF entry, drain
<1>0. TypeOK /\ TypeOK'
  BY StepType DEF Calm
<1>a. faults' = faults \/ faults' = faults + 1
  BY <1>0
     DEF TypeOK, Next, Emit, Send, Resolve, Count, Enqueue, Shed, EmitFails, Claim, Accepted,
         Rejected, RateLimited, Unreachable, ReplyLost, Answered, Release, Defer, BuryInsert,
         BuryDelete, Crash, ComesDue, LeaseLapses, GrowsOld, AuditGoesDown, AuditComesBack,
         Fault, vars
<1>b. faults = 0
  BY <1>0, <1>a DEF TypeOK
<1>c. Exclusive /\ \A e \in Event : Clean(e)
  BY <1>b DEF Calm
<1>d. ~Fault
  BY <1>b DEF Fault
<1>1. ASSUME NEW e \in Event, Emit(e) PROVE Exclusive' /\ \A f \in Event : Clean(f)'
  <2>1. CASE Count(e)
    <3>1. UNCHANGED <<pending, claimed, pc, job, outcome, log, dead>>
          /\ \A f \in Event : emission'[f] # "kept" <=> emission[f] # "kept"
      BY <1>0, <2>1 DEF Count, TypeOK
    <3> QED BY <1>c, <3>1 DEF Exclusive, Clean, Logged
  <2>2. ASSUME NEW m \in Event, emission[m] # "kept", Insert(m), emission'[m] = "kept",
               UNCHANGED <<pc, job, outcome, log, dead>>,
               \A f \in Event \ {m} : emission'[f] = "kept" <=> emission[f] = "kept"
        PROVE  Exclusive' /\ \A f \in Event : Clean(f)'
    <3>1. pending' = pending \cup {m} /\ claimed' = claimed
      BY <2>2 DEF Insert
    <3>2. Exclusive'
      BY <1>c, <2>2, <3>1 DEF Exclusive
    <3>3. ASSUME NEW f \in Event \ {m} PROVE Clean(f)'
      BY <1>c, <2>2, <3>1 DEF Clean, Logged
    <3>4. Clean(m)'
      BY <1>c, <2>2 DEF Clean, Logged
    <3> QED BY <3>2, <3>3, <3>4
  <2>3. CASE Enqueue(e)
    BY <1>0, <2>2, <2>3 DEF Enqueue, TypeOK
  <2>4. CASE Shed(e)
    <3>1. PICK m \in Marker : emission[m] = "none" /\ Insert(m)
                              /\ emission' = [emission EXCEPT ![e] = "dropped", ![m] = "kept"]
      BY <2>4 DEF Shed
    <3>2. emission[e] = "full" /\ UNCHANGED <<pc, job, outcome, log, dead>>
      BY <2>4 DEF Shed
    <3>3. m \in Event
      BY OutboxAssumption
    <3>4. emission'[m] = "kept"
          /\ \A f \in Event \ {m} : emission'[f] = "kept" <=> emission[f] = "kept"
      BY <1>0, <3>1, <3>2, <3>3 DEF TypeOK
    <3> QED BY <2>2, <3>1, <3>2, <3>3, <3>4
  <2> QED BY <1>1, <1>d, <2>1, <2>3, <2>4 DEF Emit, EmitFails
<1>2. ASSUME NEW d \in Drainer, Claim(d) PROVE Exclusive' /\ \A f \in Event : Clean(f)'
  <2>1. PICK e \in Event : Claimable(e) /\ claimed' = claimed \cup {e}
                           /\ job' = [job EXCEPT ![d] = e]
    BY <1>2 DEF Claim
  <2>2. /\ pc[d] = "idle" /\ pc' = [pc EXCEPT ![d] = "send"] /\ job[d] = None
        /\ UNCHANGED <<emission, pending, dead, log, outcome>>
    BY <1>2, <1>c DEF Claim, Exclusive
  <2>3. e # None /\ \A c \in Drainer : job[c] # e
    BY <1>c, <2>1, OutboxAssumption DEF Exclusive, Claimable
  <2>4. Exclusive'
    BY <1>0, <1>c, <2>1, <2>2, <2>3 DEF Exclusive, Claimable, TypeOK
  <2>5. \A c \in Drainer \ {d} : pc'[c] = pc[c] /\ job'[c] = job[c] /\ outcome'[c] = outcome[c]
    BY <1>0, <2>1, <2>2 DEF TypeOK
  <2>6. ASSUME NEW f \in Event PROVE Clean(f)'
    <3>1. f # job[d]
      BY <2>2, OutboxAssumption
    <3> QED BY <1>0, <1>c, <2>2, <2>5, <3>1, OthersStayClean DEF Logged
  <2> QED BY <2>4, <2>6
<1>3. ASSUME NEW d \in Drainer, Send(d) PROVE Exclusive' /\ \A f \in Event : Clean(f)'
  <2>1. PICK o \in Outcome : Answered(d, o)
    BY <1>3 DEF Send, Accepted, Rejected, RateLimited, Unreachable, ReplyLost, Outcome
  <2>2. PICK e \in Event : e = job[d]
    BY <1>0, <2>1 DEF Answered, TypeOK
  <2>3. /\ pc[d] = "send" /\ pc' = [pc EXCEPT ![d] = "resolve"]
        /\ outcome' = [outcome EXCEPT ![d] = o]
        /\ UNCHANGED <<emission, pending, claimed, dead, job>>
    BY <2>1 DEF Answered
  <2>4. e \in pending /\ ~Logged(e) /\ dead[e] = 0
    BY <1>0, <1>c, <2>2, <2>3, Untouched
  <2>5. UNCHANGED log \/ (Store(e) /\ o = "accepted")
    BY <1>0, <1>3, <1>d, <2>1, <2>2
       DEF Send, Accepted, Rejected, RateLimited, Unreachable, ReplyLost, Answered, TypeOK
  <2>6. \A f \in Event \ {e} : Logged(f)' <=> Logged(f)
    BY <1>0, <2>5, Stored DEF TypeOK, Logged
  <2>7. Exclusive'
    BY <1>0, <1>c, <2>2, <2>3, OutboxAssumption DEF Exclusive, TypeOK
  <2>8. \A c \in Drainer \ {d} : pc'[c] = pc[c] /\ job'[c] = job[c] /\ outcome'[c] = outcome[c]
    BY <1>0, <2>3 DEF TypeOK
  <2>9. ASSUME NEW f \in Event \ {e} PROVE Clean(f)'
    BY <1>0, <1>c, <2>2, <2>3, <2>6, <2>8, OthersStayClean
  <2>10. Clean(e)'
    <3>1. emission[e] = "kept"
      BY <1>c, <2>4 DEF Clean
    <3>2. Logged(e)' => o = "accepted"
      BY <2>4, <2>5 DEF Logged
    <3>3. job'[d] = e /\ pc'[d] = "resolve" /\ outcome'[d] = o
      BY <1>0, <2>2, <2>3 DEF TypeOK
    <3> QED BY <2>3, <2>4, <3>1, <3>2, <3>3 DEF Clean
  <2> QED BY <2>7, <2>9, <2>10
\* A drain comes to rest; its event has left the outbox or goes back to it.
<1>4. ASSUME NEW d \in Drainer, NEW e \in Event, e = job[d], Rested(d),
             UNCHANGED <<emission, dead, log>>,
             \A f \in Event \ {e} : /\ f \in pending' <=> f \in pending
                                    /\ f \in claimed' <=> f \in claimed,
             e \in pending' => e \in pending /\ ~Logged(e) /\ dead[e] = 0
      PROVE  Exclusive' /\ \A f \in Event : Clean(f)'
  <2>1. /\ pc'[d] = "idle" /\ job'[d] = None
        /\ \A c \in Drainer \ {d} : pc'[c] = pc[c] /\ job'[c] = job[c] /\ outcome'[c] = outcome[c]
    BY <1>0, <1>4 DEF Rested, TypeOK
  <2>2. \A c \in Drainer \ {d} : job[c] # e
    BY <1>c, <1>4, OutboxAssumption DEF Exclusive
  <2>3. \A c \in Drainer : job[c] \in Event \cup {None}
    BY <1>0 DEF TypeOK
  <2>4. Exclusive'
    BY <1>c, <1>4, <2>1, <2>2, <2>3 DEF Exclusive
  <2>5. ASSUME NEW f \in Event \ {e} PROVE Clean(f)'
    BY <1>0, <1>c, <1>4, <2>1, OthersStayClean DEF Logged
  <2>6. Clean(e)'
    <3>1. emission[e] # "kept" => e \notin pending
      BY <1>c DEF Clean
    <3> QED BY <1>c, <1>4, <3>1 DEF Clean, Logged
  <2> QED BY <2>4, <2>5, <2>6
<1>5. ASSUME NEW d \in Drainer, Release(d) \/ BuryDelete(d)
      PROVE  Exclusive' /\ \A f \in Event : Clean(f)'
  <2>1. PICK e \in Event : e = job[d]
    BY <1>0, <1>5 DEF Release, BuryDelete, TypeOK
  <2> QED BY <1>0, <1>4, <1>5, <2>1, RestType DEF Release, BuryDelete, Delete
<1>6. ASSUME NEW d \in Drainer, Defer(d) PROVE Exclusive' /\ \A f \in Event : Clean(f)'
  <2>1. PICK e \in Event : e = job[d]
    BY <1>0, <1>6 DEF Defer, TypeOK
  <2>2. e \in pending /\ ~Logged(e) /\ dead[e] = 0
    BY <1>0, <1>6, <1>c, <2>1, Untouched DEF Defer
  <2> QED BY <1>0, <1>4, <1>6, <2>1, <2>2, RestType DEF Defer
<1>7. ASSUME NEW d \in Drainer, BuryInsert(d) PROVE Exclusive' /\ \A f \in Event : Clean(f)'
  <2>1. PICK e \in Event : e = job[d]
    BY <1>0, <1>7 DEF BuryInsert, TypeOK
  <2>2. /\ pc[d] = "resolve" /\ outcome[d] # "accepted" /\ pc' = [pc EXCEPT ![d] = "bury"]
        /\ dead' = [dead EXCEPT ![e] = UpTo(@ + 1, MaxDead)]
        /\ UNCHANGED <<emission, pending, claimed, log, job, outcome>>
    BY <1>7, <2>1 DEF BuryInsert, GivesUp
  <2>3. e \in pending /\ ~Logged(e) /\ dead[e] = 0
    BY <1>0, <1>c, <2>1, <2>2, Untouched
  <2>4. Exclusive'
    BY <1>0, <1>c, <2>1, <2>2, OutboxAssumption DEF Exclusive, TypeOK
  <2>5. \A c \in Drainer \ {d} : pc'[c] = pc[c] /\ job'[c] = job[c] /\ outcome'[c] = outcome[c]
    BY <1>0, <2>2 DEF TypeOK
  <2>6. ASSUME NEW f \in Event \ {e} PROVE Clean(f)'
    <3>1. dead'[f] = dead[f]
      BY <1>0, <2>2 DEF TypeOK
    <3> QED BY <1>0, <1>c, <2>1, <2>2, <2>5, <3>1, OthersStayClean DEF Logged
  <2>7. Clean(e)'
    <3>1. dead'[e] = 1
      BY <1>0, <2>2, <2>3, UpToBound, OutboxAssumption DEF TypeOK, UpTo
    <3>2. job'[d] = e /\ pc'[d] = "bury" /\ emission[e] = "kept"
      BY <1>0, <1>c, <2>1, <2>2, <2>3 DEF TypeOK, Clean
    <3>3. ~Logged(e)'
      BY <2>2, <2>3 DEF Logged
    <3> QED BY <2>2, <3>1, <3>2, <3>3 DEF Clean
  <2> QED BY <2>4, <2>6, <2>7
<1>8. ASSUME NEW e \in Event, LeaseLapses(e) PROVE Exclusive' /\ \A f \in Event : Clean(f)'
  <2>1. /\ claimed' = claimed \ {e} /\ \A d \in Drainer : job[d] # e
        /\ UNCHANGED <<emission, pending, dead, log, pc, job, outcome>>
    BY <1>8, <1>d DEF LeaseLapses, InUse
  <2> QED BY <1>c, <2>1 DEF Exclusive, Clean, Logged
<1>9. CASE \/ \E e \in Event : ComesDue(e) \/ GrowsOld(e)
           \/ AuditGoesDown \/ AuditComesBack \/ UNCHANGED vars
  <2>1. UNCHANGED <<emission, pending, claimed, dead, log, pc, job, outcome>>
    BY <1>9 DEF ComesDue, GrowsOld, AuditGoesDown, AuditComesBack, vars
  <2> QED BY <1>c, <2>1 DEF Exclusive, Clean, Logged
<1> QED BY <1>1, <1>2, <1>3, <1>5, <1>6, <1>7, <1>8, <1>9, <1>d DEF Next, Resolve, Crash

\* Every reachable state without a fault is calm.
THEOREM Calmness == Spec => []Calm
<1>1. Init => Calm
  <2> SUFFICES ASSUME Init PROVE Calm
    OBVIOUS
  <2>1. TypeOK
    BY OutboxAssumption DEF Init, TypeOK, Outcome
  <2>2. Exclusive /\ \A e \in Event : Clean(e)
    BY DEF Init, Exclusive, Clean, Logged
  <2> QED BY <2>1, <2>2 DEF Calm
<1> QED BY <1>1, CalmStep, PTL DEF Spec

\* Without a fault, no two drains work on the same event (claim and its lease).
THEOREM DrainsAreExclusive == Spec => []OneDrainPerEvent
<1>1. Calm => OneDrainPerEvent
  BY DEF Calm, Exclusive, OneDrainPerEvent
<1> QED BY <1>1, Calmness, PTL

\* Without a fault, what is dead was never logged, and is dead once (bury).
THEOREM DeadLettersAreNotLogged == Spec => []DeadIsNotLogged
<1>1. Calm => DeadIsNotLogged
  BY DEF Calm, Clean, DeadIsNotLogged
<1> QED BY <1>1, Calmness, PTL
=============================================================================
