--------------------------- MODULE DeliveryProofs ---------------------------
(* Theorems about Delivery, for any number of alerts and workers and any bounds. *)
EXTENDS Delivery, TLAPS

\* Adding to a bounded count stays within its bound.
LEMMA AtMostBound ==
  ASSUME NEW cap \in Nat \ {0}, NEW n \in 0..cap
  PROVE  AtMost(n + 1, cap) \in 0..cap /\ AtMost(n + 1, cap) > 0
BY DEF AtMost

\* A message that was never retried has a legal count.
LEMMA FirstTry == 0 \in Tries
BY DeliveryAssumption DEF Tries

\* Enqueueing gives the broker a message of that intent and keeps its other messages.
LEMMA EnqueuedType ==
  ASSUME queue \in [Intent \X Tries -> 0..MaxCopies], NEW i \in Intent, NEW r \in Tries
  PROVE  /\ Enqueued(i, r) \in [Intent \X Tries -> 0..MaxCopies]
         /\ Enqueued(i, r)[<<i, r>>] > 0
         /\ \A m \in Intent \X Tries : queue[m] > 0 => Enqueued(i, r)[m] > 0
<1>1. <<i, r>> \in Intent \X Tries
  OBVIOUS
<1>2. AtMost(queue[<<i, r>>] + 1, MaxCopies) \in 0..MaxCopies
        /\ AtMost(queue[<<i, r>>] + 1, MaxCopies) > 0
  BY <1>1, AtMostBound, DeliveryAssumption
<1> QED BY <1>1, <1>2 DEF Enqueued

-----------------------------------------------------------------------------

\* Every value stays in its type, whatever the workers, the faults and Telegram do: in
\* particular a task always knows its intent, and never retries beyond max_retries.
THEOREM TypeCorrect == Spec => []TypeOK
<1>1. Init => TypeOK
  <2> SUFFICES ASSUME Init PROVE TypeOK
    OBVIOUS
  <2>1. /\ sends \in [Intent -> 0..MaxSends]
        /\ queue \in [Intent \X Tries -> 0..MaxCopies]
        /\ posts \in [Intent -> 0..MaxPosts]
        /\ faults \in 0..MaxFaults /\ outages \in 0..MaxOutages
        /\ tries \in [Worker -> Tries]
    BY DeliveryAssumption DEF Init, Tries
  <2>2. /\ status \in [Intent -> Status] /\ requeues \in [Intent -> Nat]
        /\ pc \in [Worker -> PC] /\ job \in [Worker -> Intent \cup {None}]
        /\ \A w \in Worker : pc[w] \notin Delivering \cup {"retire"}
    BY DEF Init, Status, PC, Delivering
  <2> QED BY <2>1, <2>2 DEF Init, TypeOK
<1>2. TypeOK /\ [Next]_vars => TypeOK'
  <2> SUFFICES ASSUME TypeOK, [Next]_vars PROVE TypeOK'
    OBVIOUS
  <2> USE DeliveryAssumption DEF TypeOK, store, sweep, tasks, world, Mark, Touch,
        MarkUnlessTerminal, GoTo, Finish, PC, Delivering, Status
  <2>1. ASSUME NEW i \in Intent, SendAlert(i) PROVE TypeOK'
    <3>1. Enqueued(i, 0) \in [Intent \X Tries -> 0..MaxCopies]
      BY EnqueuedType, FirstTry
    <3>2. sends' \in [Intent -> 0..MaxSends]
      BY <2>1 DEF SendAlert
    <3>3. queue' \in [Intent \X Tries -> 0..MaxCopies]
      BY <2>1, <3>1 DEF SendAlert
    <3> QED BY <2>1, <3>2, <3>3 DEF SendAlert
  <2>2. ASSUME NEW i \in Intent, Age(i) PROVE TypeOK'
    BY <2>2 DEF Age
  <2>3. ASSUME NEW w \in Worker, Deliver(w) PROVE TypeOK'
    <3>1. CASE Load(w)
      <4>1. PICK i \in Intent, r \in Tries :
              /\ queue[<<i, r>>] > 0
              /\ queue' = [queue EXCEPT ![<<i, r>>] = @ - 1]
              /\ IF status[i] = "SENT"
                 THEN UNCHANGED tasks
                 ELSE /\ pc' = [pc EXCEPT ![w] = IF i \in Unconfigured THEN "bury" ELSE "loaded"]
                      /\ job' = [job EXCEPT ![w] = i]
                      /\ tries' = [tries EXCEPT ![w] = r]
        BY <3>1 DEF Load
      <4>2. queue[<<i, r>>] - 1 \in 0..MaxCopies
        BY <4>1
      <4>3. queue' \in [Intent \X Tries -> 0..MaxCopies]
        BY <4>1, <4>2
      <4>4. CASE status[i] = "SENT"
        BY <3>1, <4>1, <4>3, <4>4 DEF Load
      <4>5. CASE status[i] # "SENT"
        <5>1. PICK step \in {"bury", "loaded"} :
                /\ pc' = [pc EXCEPT ![w] = step]
                /\ job' = [job EXCEPT ![w] = i]
                /\ tries' = [tries EXCEPT ![w] = r]
          BY <4>1, <4>5
        <5>2. pc' \in [Worker -> PC] /\ tries' \in [Worker -> Tries]
          BY <5>1
        <5>3. job' \in [Worker -> Intent \cup {None}]
          BY <5>1
        <5>4. \A v \in Worker : pc'[v] \in Delivering \cup {"retire"} => job'[v] \in Intent
          BY <5>1
        <5> QED BY <3>1, <4>3, <5>2, <5>3, <5>4 DEF Load
      <4> QED BY <4>4, <4>5
    <3>2. CASE CheckGate(w)
      BY <3>2 DEF CheckGate
    <3>3. CASE Hold(w)
      BY <3>3 DEF Hold, Tries
    <3>4. CASE Claim(w)
      <4>1. CASE status[job[w]] \in Terminal
        BY <3>4, <4>1 DEF Claim, Tries
      <4>2. CASE status[job[w]] \notin Terminal
        <5>1. Mark(job[w], "SENDING") /\ GoTo(w, "claimed") /\ pc[w] = "open"
          BY <3>4, <4>2 DEF Claim
        <5> QED BY <3>4, <5>1 DEF Claim
      <4> QED BY <4>1, <4>2
    <3>5. CASE SendSnapshot(w)
      BY <3>5 DEF SendSnapshot
    <3>6. CASE Post(w)
      BY <3>6, AtMostBound DEF Post
    <3>7. CASE MarkSent(w)
      BY <3>7 DEF MarkSent, Tries
    <3>8. CASE Unreachable(w)
      BY <3>8 DEF Unreachable
    <3>9. CASE ReplyLost(w)
      BY <3>9 DEF ReplyLost
    <3>10. CASE GiveUp(w)
      BY <3>10 DEF GiveUp
    <3>11. CASE FailAttempt(w)
      BY <3>11 DEF FailAttempt
    <3>12. CASE Retry(w)
      <4>1. job[w] \in Intent /\ (tries[w] < MaxRetries => tries[w] + 1 \in Tries) /\ 0 \in Tries
        BY <3>12 DEF Retry, Tries
      <4>2. tries[w] < MaxRetries
              => Enqueued(job[w], tries[w] + 1) \in [Intent \X Tries -> 0..MaxCopies]
        BY <4>1, EnqueuedType
      <4>3. queue' \in [Intent \X Tries -> 0..MaxCopies]
        BY <3>12, <4>2 DEF Retry
      <4> QED BY <3>12, <4>1, <4>3 DEF Retry
    <3>13. CASE WriteLetter(w)
      BY <3>13 DEF WriteLetter, Tries
    <3> QED BY <2>3, <3>1, <3>2, <3>3, <3>4, <3>5, <3>6, <3>7, <3>8, <3>9, <3>10, <3>11,
               <3>12, <3>13 DEF Deliver
  <2>4. ASSUME NEW w \in Worker, Reconcile(w) PROVE TypeOK'
    <3>1. CASE FindStale(w)
      BY <3>1 DEF FindStale
    <3>2. CASE Requeue(w)
      <4>1. PICK i \in Intent :
              /\ MarkRequeued(w, i)
              /\ queue' = IF Requeueable(w, i) THEN Enqueued(i, 0) ELSE queue
              /\ found' = [found EXCEPT ![w] = @ \ {i}]
        BY <3>2 DEF Requeue
      <4>2. Enqueued(i, 0) \in [Intent \X Tries -> 0..MaxCopies]
        BY EnqueuedType, FirstTry
      <4>3. queue' \in [Intent \X Tries -> 0..MaxCopies]
        BY <4>1, <4>2
      <4>4. CASE Requeueable(w, i)
        <5>1. requeues' = [requeues EXCEPT ![i] = @ + 1] /\ Mark(i, "PENDING")
          BY <4>1, <4>4 DEF MarkRequeued
        <5>2. requeues' \in [Intent -> Nat]
          BY <5>1
        <5> QED BY <3>2, <4>1, <4>3, <5>1, <5>2 DEF Requeue
      <4>5. CASE ~Requeueable(w, i)
        BY <3>2, <4>1, <4>3, <4>5 DEF Requeue, MarkRequeued
      <4> QED BY <4>4, <4>5
    <3>3. CASE RequeueLost(w)
      BY <3>3 DEF RequeueLost, Tries
    <3>4. CASE Retire(w)
      BY <3>4 DEF Retire
    <3>5. CASE RetireLetter(w)
      BY <3>5 DEF RetireLetter
    <3>6. CASE EndSweep(w)
      BY <3>6 DEF EndSweep, Tries
    <3> QED BY <2>4, <3>1, <3>2, <3>3, <3>4, <3>5, <3>6 DEF Reconcile
  <2>5. ASSUME NEW w \in Worker, ProbeGate(w) PROVE TypeOK'
    <3>1. CASE StartProbe(w)
      BY <3>1 DEF StartProbe
    <3>2. CASE ProbeFails(w)
      BY <3>2 DEF ProbeFails, Tries
    <3>3. CASE ProbeSucceeds(w)
      BY <3>3 DEF ProbeSucceeds
    <3>4. CASE Release(w)
      BY <3>4 DEF Release
    <3>5. CASE EndRelease(w)
      BY <3>5 DEF EndRelease
    <3>6. CASE EnqueueReleased(w)
      <4>1. PICK i \in Intent : /\ queue' = Enqueued(i, 0)
                                /\ released' = [released EXCEPT ![w] = @ \ {i}]
        BY <3>6 DEF EnqueueReleased
      <4>2. Enqueued(i, 0) \in [Intent \X Tries -> 0..MaxCopies]
        BY EnqueuedType, FirstTry
      <4>3. queue' \in [Intent \X Tries -> 0..MaxCopies]
        BY <4>1, <4>2
      <4> QED BY <3>6, <4>1, <4>3 DEF EnqueueReleased
    <3>7. CASE EndDrain(w)
      BY <3>7 DEF EndDrain, Tries
    <3> QED BY <2>5, <3>1, <3>2, <3>3, <3>4, <3>5, <3>6, <3>7 DEF ProbeGate
  <2>6. ASSUME NEW w \in Worker, Crash(w) PROVE TypeOK'
    <3>1. pc[w] \in Delivering
            => Enqueued(job[w], tries[w]) \in [Intent \X Tries -> 0..MaxCopies]
      BY EnqueuedType
    <3>2. queue' \in [Intent \X Tries -> 0..MaxCopies]
      BY <2>6, <3>1 DEF Crash
    <3>3. faults' \in 0..MaxFaults
      BY <2>6 DEF Crash
    <3> QED BY <2>6, <3>2, <3>3 DEF Crash, Tries
  <2>7. CASE GateExpires
    <3>1. faults' \in 0..MaxFaults
      BY <2>7 DEF GateExpires
    <3> QED BY <2>7, <3>1 DEF GateExpires
  <2>8. CASE TelegramGoesDown
    <3>1. outages' \in 0..MaxOutages
      BY <2>8 DEF TelegramGoesDown
    <3> QED BY <2>8, <3>1 DEF TelegramGoesDown
  <2>9. CASE TelegramComesBack
    BY <2>9 DEF TelegramComesBack
  <2>10. CASE UNCHANGED vars
    BY <2>10 DEF vars
  <2> QED BY <2>1, <2>2, <2>3, <2>4, <2>5, <2>6, <2>7, <2>8, <2>9, <2>10 DEF Next
<1> QED BY <1>1, <1>2, PTL DEF Spec

-----------------------------------------------------------------------------

\* What a sweep is about to requeue, and nobody wrote since it was read, still has the
\* requeue_count it was read with: below the bound.
SweepInv ==
  /\ RequeueBound
  /\ \A w \in Worker : \A i \in (found[w] \ doomed[w]) \cap ripe[w] : requeues[i] < MaxRequeues

\* The reconciler respects RECONCILER_MAX_REQUEUES although it compares a count it read
\* earlier: the cutoff in mark_requeued's filter stands for a fresh read of the count.
THEOREM RequeuesAreBounded == Spec => []RequeueBound
<1>1. Init => SweepInv
  BY DeliveryAssumption DEF Init, SweepInv, RequeueBound
<1>2. TypeOK /\ SweepInv /\ [Next]_vars => SweepInv'
  <2> SUFFICES ASSUME TypeOK, SweepInv, [Next]_vars PROVE SweepInv'
    OBVIOUS
  <2> USE DeliveryAssumption
  <2> DEFINE Calm == /\ requeues' = requeues /\ found' = found /\ doomed' = doomed
                     /\ \A v \in Worker : ripe'[v] \subseteq ripe[v]
  <2>1. ASSUME Calm PROVE SweepInv'
    BY <2>1 DEF SweepInv, RequeueBound
  <2> HIDE DEF Calm
  <2>2. ASSUME NEW i \in Intent, SendAlert(i) PROVE Calm
    BY <2>2 DEF Calm, TypeOK, SendAlert, Mark, Touch
  <2>3. ASSUME NEW i \in Intent, Age(i) PROVE Calm
    BY <2>3 DEF Calm, Age, sweep
  <2>4. ASSUME NEW w \in Worker, Deliver(w) PROVE Calm
    BY <2>4 DEF Calm, TypeOK, Deliver, Load, CheckGate, Hold, Claim, SendSnapshot, Post,
         MarkSent, Unreachable, ReplyLost, GiveUp, FailAttempt, Retry, WriteLetter, store, sweep,
         Mark, MarkUnlessTerminal, Touch
  <2>5. ASSUME NEW w \in Worker, ProbeGate(w) PROVE Calm
    BY <2>5 DEF Calm, TypeOK, ProbeGate, StartProbe, ProbeFails, ProbeSucceeds, Release, EndRelease,
         EnqueueReleased, EndDrain, store, sweep, Mark, Touch
  <2>6. ASSUME NEW w \in Worker, Reconcile(w) PROVE SweepInv'
    <3>1. CASE FindStale(w)
      BY <3>1 DEF FindStale, SweepInv, RequeueBound, TypeOK, store
    <3>2. CASE Requeue(w)
      <4>1. PICK i \in found[w] \ doomed[w] :
              MarkRequeued(w, i) /\ found' = [found EXCEPT ![w] = @ \ {i}] /\ doomed' = doomed
        BY <3>2 DEF Requeue
      <4>2. CASE Requeueable(w, i)
        <5>1. i \in Intent /\ requeues[i] < MaxRequeues /\ requeues[i] \in Nat
          BY <4>1, <4>2 DEF Requeueable, SweepInv, TypeOK
        <5>2. /\ requeues' = [requeues EXCEPT ![i] = @ + 1]
              /\ ripe' = [v \in Worker |-> ripe[v] \ {i}]
          BY <4>1, <4>2 DEF MarkRequeued, Mark, Touch
        <5>3. RequeueBound'
          BY <5>1, <5>2 DEF SweepInv, RequeueBound, TypeOK
        <5>4. \A v \in Worker : \A k \in (found'[v] \ doomed'[v]) \cap ripe'[v] :
                requeues'[k] < MaxRequeues
          BY <4>1, <5>1, <5>2 DEF SweepInv, TypeOK
        <5> QED BY <5>3, <5>4 DEF SweepInv
      <4>3. CASE ~Requeueable(w, i)
        BY <4>1, <4>3 DEF MarkRequeued, SweepInv, RequeueBound, TypeOK, store
      <4> QED BY <4>2, <4>3
    <3>3. CASE RequeueLost(w)
      BY <3>3 DEF RequeueLost, Requeueable, SweepInv, RequeueBound, TypeOK
    <3>4. CASE Retire(w)
      BY <3>4 DEF Retire, Mark, Touch, SweepInv, RequeueBound, TypeOK
    <3>5. CASE RetireLetter(w)
      BY <3>5, <2>1 DEF RetireLetter, Calm, store, sweep
    <3>6. CASE EndSweep(w)
      BY <3>6 DEF EndSweep, SweepInv, RequeueBound, TypeOK, store
    <3> QED BY <2>6, <3>1, <3>2, <3>3, <3>4, <3>5, <3>6 DEF Reconcile
  <2>7. ASSUME NEW w \in Worker, Crash(w) PROVE SweepInv'
    BY <2>7 DEF Crash, SweepInv, RequeueBound, TypeOK, store
  <2>8. CASE GateExpires \/ TelegramGoesDown \/ TelegramComesBack \/ UNCHANGED vars
    BY <2>1, <2>8 DEF Calm, GateExpires, TelegramGoesDown, TelegramComesBack, vars, store, sweep
  <2> QED BY <2>1, <2>2, <2>3, <2>4, <2>5, <2>6, <2>7, <2>8 DEF Next
<1>3. SweepInv => RequeueBound
  BY DEF SweepInv
<1> QED BY <1>1, <1>2, <1>3, TypeCorrect, PTL DEF Spec

-----------------------------------------------------------------------------

\* The prompt of an intent about to be marked SENT is in the chat.
PostedInv ==
  /\ SentWasPosted
  /\ \A w \in Worker : pc[w] = "posted" => posts[job[w]] > 0

\* No intent is recorded SENT whose prompt was never posted: crashes, lost replies and
\* redelivered messages can repeat a post, never invent one.
THEOREM NothingIsSentUnposted == Spec => []SentWasPosted
<1>1. Init => PostedInv
  BY DEF Init, PostedInv, SentWasPosted
<1>2. TypeOK /\ PostedInv /\ [Next]_vars => PostedInv'
  <2> SUFFICES ASSUME TypeOK, PostedInv, [Next]_vars PROVE PostedInv'
    OBVIOUS
  <2> DEFINE NoNews == /\ posts' = posts
                       /\ \A i \in Intent : status'[i] = "SENT" => status[i] = "SENT"
                       /\ \A v \in Worker : pc'[v] = "posted" =>
                            pc[v] = "posted" /\ job'[v] = job[v]
  <2>1. ASSUME NoNews PROVE PostedInv'
    BY <2>1 DEF PostedInv, SentWasPosted, TypeOK
  <2> HIDE DEF NoNews
  <2> USE DEF TypeOK, Mark, MarkUnlessTerminal, GoTo, Finish, store, sweep, tasks
  <2>2. ASSUME NEW i \in Intent, SendAlert(i) PROVE NoNews
    BY <2>2 DEF NoNews, SendAlert
  <2>3. ASSUME NEW w \in Worker, Deliver(w) PROVE PostedInv'
    <3>1. CASE Post(w)
      <4>1. posts[job[w]] \in 0..MaxPosts /\ job[w] \in Intent
        BY <3>1 DEF Post, Delivering
      <4>2. posts'[job[w]] > 0 /\ \A i \in Intent : i # job[w] => posts'[i] = posts[i]
        BY <3>1, <4>1, AtMostBound, DeliveryAssumption DEF Post
      <4> QED BY <3>1, <4>2 DEF Post, PostedInv, SentWasPosted, Delivering
    <3>2. CASE MarkSent(w)
      BY <3>2 DEF MarkSent, PostedInv, SentWasPosted
    <3>3. CASE Load(w) \/ CheckGate(w) \/ Unreachable(w) \/ ReplyLost(w) \/ Retry(w)
                 \/ WriteLetter(w)
      BY <2>1, <3>3 DEF NoNews, Load, CheckGate, Unreachable, ReplyLost, Retry, WriteLetter
    <3>4. CASE SendSnapshot(w) \/ GiveUp(w) \/ FailAttempt(w)
      BY <2>1, <3>4 DEF NoNews, SendSnapshot, GiveUp, FailAttempt
    <3>5. CASE Hold(w) \/ Claim(w)
      BY <2>1, <3>5 DEF NoNews, Hold, Claim
    <3> QED BY <2>3, <3>1, <3>2, <3>3, <3>4, <3>5 DEF Deliver
  <2>4. ASSUME NEW w \in Worker, Reconcile(w) PROVE NoNews
    <3>1. CASE Requeue(w) \/ RequeueLost(w)
      BY <3>1 DEF NoNews, Requeue, RequeueLost, MarkRequeued
    <3>2. CASE FindStale(w) \/ Retire(w) \/ RetireLetter(w) \/ EndSweep(w)
      BY <3>2 DEF NoNews, FindStale, Retire, RetireLetter, EndSweep
    <3> QED BY <2>4, <3>1, <3>2 DEF Reconcile
  <2>5. ASSUME NEW w \in Worker, ProbeGate(w) PROVE NoNews
    BY <2>5 DEF NoNews, ProbeGate, StartProbe, ProbeFails, ProbeSucceeds, Release, EndRelease,
         EnqueueReleased, EndDrain
  <2>6. ASSUME NEW w \in Worker, Crash(w) PROVE NoNews
    BY <2>6 DEF NoNews, Crash
  <2>7. CASE (\E i \in Intent : Age(i)) \/ GateExpires \/ TelegramGoesDown \/ TelegramComesBack
               \/ UNCHANGED vars
    BY <2>1, <2>7 DEF NoNews, Age, GateExpires, TelegramGoesDown, TelegramComesBack, vars
  <2> QED BY <2>1, <2>2, <2>3, <2>4, <2>5, <2>6, <2>7 DEF Next
<1>3. PostedInv => SentWasPosted
  BY DEF PostedInv
<1> QED BY <1>1, <1>2, <1>3, TypeCorrect, PTL DEF Spec

-----------------------------------------------------------------------------

\* Only mark_failed writes over SENT or DEAD with anything else: no claim, hold, release,
\* requeue or SendAlert reopens an intent that was sent or given up.
THEOREM TerminalStays == Spec => TerminalNeverReopened
<1> DEFINE Kept == \A i \in Intent : status[i] \in {"SENT", "DEAD"}
                                       => status'[i] \in {"SENT", "DEAD", "FAILED"}
<1>1. TypeOK /\ [Next]_vars => Kept
  <2> SUFFICES ASSUME TypeOK, [Next]_vars PROVE Kept
    OBVIOUS
  <2> USE DEF TypeOK, Mark, MarkUnlessTerminal, Terminal, store
  <2>1. ASSUME NEW i \in Intent, SendAlert(i) PROVE Kept
    BY <2>1 DEF SendAlert
  <2>2. ASSUME NEW w \in Worker, Deliver(w) PROVE Kept
    <3>1. CASE Hold(w) \/ Claim(w)
      BY <3>1 DEF Hold, Claim
    <3>2. CASE MarkSent(w) \/ GiveUp(w) \/ FailAttempt(w)
      BY <3>2 DEF MarkSent, GiveUp, FailAttempt
    <3>3. CASE \/ Load(w) \/ CheckGate(w) \/ SendSnapshot(w) \/ Post(w) \/ Unreachable(w)
               \/ ReplyLost(w) \/ Retry(w) \/ WriteLetter(w)
      BY <3>3 DEF Load, CheckGate, SendSnapshot, Post, Unreachable, ReplyLost, Retry, WriteLetter
    <3> QED BY <2>2, <3>1, <3>2, <3>3 DEF Deliver
  <2>3. ASSUME NEW w \in Worker, Reconcile(w) PROVE Kept
    <3>1. CASE Requeue(w)
      BY <3>1 DEF Requeue, MarkRequeued, Requeueable
    <3>2. CASE RequeueLost(w)
      BY <3>2 DEF RequeueLost, Requeueable
    <3>3. CASE FindStale(w) \/ Retire(w) \/ RetireLetter(w) \/ EndSweep(w)
      BY <3>3 DEF FindStale, Retire, RetireLetter, EndSweep
    <3> QED BY <2>3, <3>1, <3>2, <3>3 DEF Reconcile
  <2>4. ASSUME NEW w \in Worker, ProbeGate(w) PROVE Kept
    BY <2>4 DEF ProbeGate, StartProbe, ProbeFails, ProbeSucceeds, Release, EndRelease,
         EnqueueReleased, EndDrain
  <2>5. ASSUME NEW w \in Worker, Crash(w) PROVE Kept
    BY <2>5 DEF Crash
  <2>6. CASE (\E i \in Intent : Age(i)) \/ GateExpires \/ TelegramGoesDown \/ TelegramComesBack
               \/ UNCHANGED vars
    BY <2>6 DEF Age, GateExpires, TelegramGoesDown, TelegramComesBack, vars
  <2> QED BY <2>1, <2>2, <2>3, <2>4, <2>5, <2>6 DEF Next
<1>2. TypeOK /\ [Next]_vars => [Kept]_vars
  BY <1>1
<1> QED BY <1>2, TypeCorrect, PTL DEF Spec, TerminalNeverReopened

-----------------------------------------------------------------------------

\* An intent that was given up has its dead letter, or a worker about to write it, as
\* long as no fault fell between the two writes.
THEOREM DeadLettersAreWritten == Spec => []DeadHasLetter
<1>1. Init => DeadHasLetter
  BY DEF Init, DeadHasLetter
<1>2. TypeOK /\ DeadHasLetter /\ [Next]_vars => DeadHasLetter'
  <2> SUFFICES ASSUME TypeOK, DeadHasLetter, [Next]_vars, faults' = 0,
                      NEW i \in Intent, status'[i] = "DEAD"
               PROVE  i \in letters' \/ Writing(i)'
    BY DEF DeadHasLetter
  <2> DEFINE Same == /\ faults = 0 /\ status[i] = "DEAD" /\ letters' = letters
                     /\ \A v \in Worker : job[v] = i /\ pc[v] \in {"letter", "retire"}
                          => job'[v] = i /\ pc'[v] \in {"letter", "retire"}
  <2>1. ASSUME Same PROVE i \in letters' \/ Writing(i)'
    BY <2>1 DEF DeadHasLetter, Writing
  <2> HIDE DEF Same
  <2> USE DEF TypeOK, Mark, MarkUnlessTerminal, GoTo, Finish, store, sweep, tasks
  <2>2. ASSUME NEW k \in Intent, SendAlert(k) PROVE Same
    BY <2>2 DEF Same, SendAlert
  <2>3. ASSUME NEW w \in Worker, Deliver(w) PROVE i \in letters' \/ Writing(i)'
    <3>1. CASE GiveUp(w)
      <4>1. CASE job[w] = i
        BY <3>1, <4>1 DEF GiveUp, Writing
      <4>2. CASE job[w] # i
        BY <2>1, <3>1, <4>2 DEF GiveUp, Same
      <4> QED BY <4>1, <4>2
    <3>2. CASE WriteLetter(w)
      <4>1. \A v \in Worker : v # w => job'[v] = job[v] /\ pc'[v] = pc[v]
        BY <3>2 DEF WriteLetter
      <4> QED BY <3>2, <4>1 DEF WriteLetter, DeadHasLetter, Writing
    <3>3. CASE \/ Load(w) \/ CheckGate(w) \/ Unreachable(w) \/ Retry(w)
      BY <2>1, <3>3 DEF Same, Load, CheckGate, Unreachable, Retry
    <3>4. CASE Hold(w) \/ Claim(w)
      BY <2>1, <3>4 DEF Same, Hold, Claim
    <3>5. CASE SendSnapshot(w) \/ Post(w) \/ MarkSent(w) \/ FailAttempt(w)
      BY <2>1, <3>5 DEF Same, SendSnapshot, Post, MarkSent, FailAttempt
    <3>6. CASE ReplyLost(w)
      BY <3>6 DEF ReplyLost
    <3> QED BY <2>3, <3>1, <3>2, <3>3, <3>4, <3>5, <3>6 DEF Deliver
  <2>4. ASSUME NEW w \in Worker, Reconcile(w) PROVE i \in letters' \/ Writing(i)'
    <3>1. CASE Requeue(w)
      BY <2>1, <3>1 DEF Same, Requeue, MarkRequeued
    <3>2. CASE RequeueLost(w)
      BY <3>2 DEF RequeueLost
    <3>3. CASE Retire(w)
      <4>1. PICK k \in Intent : Mark(k, "DEAD") /\ job' = [job EXCEPT ![w] = k]
        BY <3>3 DEF Retire
      <4>2. CASE k = i
        BY <3>3, <4>1, <4>2 DEF Retire, Writing
      <4>3. CASE k # i
        BY <2>1, <3>3, <4>1, <4>3 DEF Retire, Same
      <4> QED BY <4>2, <4>3
    <3>4. CASE RetireLetter(w)
      <4>1. \A v \in Worker : v # w => job'[v] = job[v] /\ pc'[v] = pc[v]
        BY <3>4 DEF RetireLetter
      <4> QED BY <3>4, <4>1 DEF RetireLetter, DeadHasLetter, Writing
    <3>5. CASE FindStale(w) \/ EndSweep(w)
      BY <2>1, <3>5 DEF Same, FindStale, EndSweep
    <3> QED BY <2>4, <3>1, <3>2, <3>3, <3>4, <3>5 DEF Reconcile
  <2>5. ASSUME NEW w \in Worker, ProbeGate(w) PROVE Same
    BY <2>5 DEF Same, ProbeGate, StartProbe, ProbeFails, ProbeSucceeds, Release, EndRelease,
         EnqueueReleased, EndDrain
  <2>6. ASSUME NEW w \in Worker, Crash(w) PROVE FALSE
    BY <2>6 DEF Crash
  <2>7. CASE (\E k \in Intent : Age(k)) \/ TelegramGoesDown \/ TelegramComesBack \/ UNCHANGED vars
    BY <2>1, <2>7 DEF Same, Age, TelegramGoesDown, TelegramComesBack, vars
  <2>8. CASE GateExpires
    BY <2>8 DEF GateExpires
  <2> QED BY <2>1, <2>2, <2>3, <2>4, <2>5, <2>6, <2>7, <2>8 DEF Next
<1> QED BY <1>1, <1>2, TypeCorrect, PTL DEF Spec

-----------------------------------------------------------------------------

\* FailedHasRetry, with the reason Celery accepts the retry.
RetryInv ==
  /\ FailedHasRetry
  /\ \A w \in Worker : pc[w] = "failed" => tries[w] < MaxRetries

\* A FAILED intent always has a message in the broker or a worker still busy with it, as
\* long as no fault intervened, although the reconciler never looks at FAILED.
THEOREM FailedIsRetried == Spec => []FailedHasRetry
<1>1. Init => RetryInv
  BY DEF Init, RetryInv, FailedHasRetry
<1>2. TypeOK /\ RetryInv /\ [Next]_vars => RetryInv'
  <2> SUFFICES ASSUME TypeOK, RetryInv, [Next]_vars PROVE RetryInv'
    OBVIOUS
  <2> USE DeliveryAssumption
  <2> DEFINE Busy == Delivering \ {"letter"}
             \* intent k keeps the message or the worker that will retry it
             Keeps(k) == InRetry(k) => InRetry(k)'
             \* no intent becomes FAILED, and none that stays FAILED loses its retry
             Calm == /\ faults = 0
                     /\ \A k \in Intent : status'[k] = "FAILED" => status[k] = "FAILED" /\ Keeps(k)
             Idle == \A v \in Worker : pc'[v] = "failed" => pc[v] = "failed" /\ tries'[v] = tries[v]
             Moved == \A v \in Worker : job[v] \in Intent /\ pc[v] \in Busy
               /\ status'[job[v]] = "FAILED"
                        => job'[v] = job[v] /\ pc'[v] \in Busy
             Fuller == \A m \in Intent \X Tries : queue[m] > 0 => queue'[m] > 0
  <2>1. ASSUME faults' = 0 => Calm PROVE FailedHasRetry'
    BY <2>1 DEF RetryInv, FailedHasRetry
  <2>2. ASSUME Idle PROVE (\A v \in Worker : pc[v] = "failed" => tries[v] < MaxRetries)'
    BY <2>2 DEF RetryInv
  <2>3. ASSUME Fuller, Moved, NEW k \in Intent, status'[k] = "FAILED" PROVE Keeps(k)
    <3>1. CASE \E r \in Tries : queue[<<k, r>>] > 0
      BY <2>3, <3>1 DEF InRetry
    <3>2. CASE \E v \in Worker : job[v] = k /\ pc[v] \in Busy
      BY <2>3, <3>2 DEF InRetry
    <3> QED BY <3>1, <3>2 DEF InRetry
  <2>4. ASSUME Fuller, Moved, Idle, faults' = 0 => faults = 0,
               \A k \in Intent : status'[k] = "FAILED" => status[k] = "FAILED"
        PROVE  RetryInv'
    <3> HIDE DEF Fuller, Moved, Idle, Keeps
    <3>1. faults' = 0 => Calm
      BY <2>3, <2>4
    <3> QED BY <2>1, <2>2, <2>4, <3>1 DEF RetryInv
  <2> HIDE DEF Keeps, Calm
  <2> USE DEF TypeOK, Mark, Touch, MarkUnlessTerminal, GoTo, Finish, store, sweep, tasks, Delivering
  <2>5. ASSUME NEW i \in Intent, SendAlert(i) PROVE RetryInv'
    <3>1. Fuller
      BY <2>5, EnqueuedType, FirstTry DEF SendAlert
    <3>2. Moved /\ Idle
      BY <2>5 DEF SendAlert
    <3> QED BY <2>4, <2>5, <3>1, <3>2 DEF SendAlert
  <2>6. ASSUME NEW w \in Worker, Deliver(w) PROVE RetryInv'
    <3>1. CASE Load(w)
      <4>1. PICK i \in Intent, r \in Tries :
              /\ queue[<<i, r>>] > 0
              /\ queue' = [queue EXCEPT ![<<i, r>>] = @ - 1]
              /\ IF status[i] = "SENT"
                 THEN UNCHANGED tasks
                 ELSE /\ pc' = [pc EXCEPT ![w] = IF i \in Unconfigured THEN "bury" ELSE "loaded"]
                      /\ job' = [job EXCEPT ![w] = i]
                      /\ tries' = [tries EXCEPT ![w] = r]
        BY <3>1 DEF Load
      <4>2. pc[w] = "idle" /\ status' = status /\ faults' = faults
        BY <3>1 DEF Load
      <4>3. Idle /\ Moved
        BY <4>1, <4>2
      <4>4. \A m \in Intent \X Tries : m # <<i, r>> => queue'[m] = queue[m]
        BY <4>1
      <4>5. ASSUME NEW k \in Intent, status'[k] = "FAILED" PROVE Keeps(k)
        <5>1. CASE k = i
          <6>1. job'[w] = k /\ pc'[w] \in Busy
            BY <4>1, <4>2, <4>5, <5>1
          <6> QED BY <6>1 DEF InRetry, Keeps
        <5>2. CASE k # i
          <6>1. \A s \in Tries : queue'[<<k, s>>] = queue[<<k, s>>]
            BY <4>4, <5>2
          <6> QED BY <4>3, <4>5, <6>1 DEF InRetry, Keeps
        <5> QED BY <5>1, <5>2
      <4>6. faults' = 0 => Calm
        BY <4>2, <4>5 DEF Calm
      <4> QED BY <2>1, <2>2, <4>3, <4>6 DEF RetryInv
    <3>2. CASE GiveUp(w) \/ MarkSent(w)
      BY <2>4, <3>2 DEF GiveUp, MarkSent
    <3>3. CASE CheckGate(w)
      BY <2>4, <3>3 DEF CheckGate
    <3>4. CASE Hold(w)
      BY <2>4, <3>4 DEF Hold, Terminal
    <3>5. CASE Claim(w)
      BY <2>4, <3>5 DEF Claim, Terminal
    <3>6. CASE SendSnapshot(w) \/ Post(w)
      BY <2>4, <3>6 DEF SendSnapshot, Post
    <3>7. CASE Unreachable(w) \/ ReplyLost(w)
      BY <2>4, <3>7 DEF Unreachable, ReplyLost
    <3>8. CASE FailAttempt(w)
      <4>1. InRetry(job[w])'
        BY <3>8 DEF FailAttempt, InRetry
      <4>2. Fuller /\ Moved
        BY <3>8 DEF FailAttempt
      <4>3. \A k \in Intent : k # job[w] /\ status'[k] = "FAILED" =>
              status[k] = "FAILED" /\ Keeps(k)
        BY <2>3, <3>8, <4>2 DEF FailAttempt
      <4>4. FailedHasRetry'
        BY <3>8, <4>1, <4>3 DEF FailAttempt, FailedHasRetry, RetryInv, Keeps
      <4>5. \A v \in Worker : pc'[v] = "failed" => tries'[v] < MaxRetries
        BY <3>8 DEF FailAttempt, FinalAttempt, RetryInv, Tries
      <4> QED BY <4>4, <4>5 DEF RetryInv
    <3>9. CASE Retry(w)
      <4>1. /\ job[w] \in Intent /\ tries[w] < MaxRetries /\ tries[w] + 1 \in Tries
            /\ queue' = Enqueued(job[w], tries[w] + 1)
            /\ status' = status /\ faults' = faults
        BY <3>9 DEF Retry, RetryInv, Tries
      <4>2. Fuller /\ queue'[<<job[w], tries[w] + 1>>] > 0
        BY <4>1, EnqueuedType
      <4>3. Idle
        BY <3>9 DEF Retry
      <4>4. ASSUME NEW k \in Intent PROVE Keeps(k)
        <5>1. CASE k = job[w]
          BY <4>1, <4>2, <5>1 DEF Keeps, InRetry
        <5>2. CASE k # job[w]
          <6>1. \A v \in Worker : job[v] = k => job'[v] = k /\ pc'[v] = pc[v]
            BY <3>9, <5>2 DEF Retry
          <6> QED BY <4>2, <6>1 DEF Keeps, InRetry
        <5> QED BY <5>1, <5>2
      <4>5. faults' = 0 => Calm
        BY <4>1, <4>4 DEF Calm
      <4> QED BY <2>1, <2>2, <4>3, <4>5 DEF RetryInv
    <3>10. CASE WriteLetter(w)
      BY <2>4, <3>10 DEF WriteLetter
    <3> QED BY <2>6, <3>1, <3>2, <3>3, <3>4, <3>5, <3>6, <3>7, <3>8, <3>9, <3>10 DEF Deliver
  <2>7. ASSUME NEW w \in Worker, Reconcile(w) PROVE RetryInv'
    <3>1. CASE Requeue(w)
      <4>1. PICK i \in Intent :
              /\ MarkRequeued(w, i)
              /\ queue' = IF Requeueable(w, i) THEN Enqueued(i, 0) ELSE queue
        BY <3>1 DEF Requeue
      <4>2. Fuller
        BY <4>1, EnqueuedType, FirstTry
      <4>3. Moved /\ Idle /\ faults' = faults
        BY <3>1 DEF Requeue
      <4>4. \A k \in Intent : status'[k] = "FAILED" => status[k] = "FAILED"
        BY <4>1 DEF MarkRequeued
      <4> QED BY <2>4, <4>2, <4>3, <4>4
    <3>2. CASE RequeueLost(w)
      BY <3>2, <2>1, <2>2 DEF RequeueLost, RetryInv
    <3>3. CASE Retire(w)
      <4>1. Fuller /\ Moved /\ Idle /\ faults' = faults
        BY <3>3 DEF Retire
      <4>2. \A k \in Intent : status'[k] = "FAILED" => status[k] = "FAILED"
        BY <3>3 DEF Retire
      <4> QED BY <2>4, <4>1, <4>2
    <3>4. CASE FindStale(w) \/ RetireLetter(w) \/ EndSweep(w)
      BY <2>4, <3>4 DEF FindStale, RetireLetter, EndSweep
    <3> QED BY <2>7, <3>1, <3>2, <3>3, <3>4 DEF Reconcile
  <2>8. ASSUME NEW w \in Worker, ProbeGate(w) PROVE RetryInv'
    <3>1. CASE StartProbe(w) \/ ProbeFails(w) \/ ProbeSucceeds(w)
      BY <2>4, <3>1 DEF StartProbe, ProbeFails, ProbeSucceeds
    <3>2. CASE Release(w) \/ EndRelease(w) \/ EndDrain(w)
      BY <2>4, <3>2 DEF Release, EndRelease, EndDrain
    <3>3. CASE EnqueueReleased(w)
      <4>1. PICK i \in Intent : queue' = Enqueued(i, 0)
        BY <3>3 DEF EnqueueReleased
      <4>2. Fuller
        BY <4>1, EnqueuedType, FirstTry
      <4> QED BY <2>4, <3>3, <4>2 DEF EnqueueReleased
    <3> QED BY <2>8, <3>1, <3>2, <3>3 DEF ProbeGate
  <2>9. ASSUME NEW w \in Worker, Crash(w) PROVE RetryInv'
    <3>1. Idle /\ faults' # 0
      BY <2>9 DEF Crash
    <3> QED BY <2>1, <2>2, <3>1 DEF RetryInv
  <2>10. CASE (\E i \in Intent : Age(i)) \/ TelegramGoesDown \/ TelegramComesBack
                \/ GateExpires \/ UNCHANGED vars
    BY <2>4, <2>10 DEF Age, TelegramGoesDown, TelegramComesBack, GateExpires, vars
  <2> QED BY <2>5, <2>6, <2>7, <2>8, <2>9, <2>10 DEF Next
<1>3. RetryInv => FailedHasRetry
  BY DEF RetryInv
<1> QED BY <1>1, <1>2, <1>3, TypeCorrect, PTL DEF Spec

-----------------------------------------------------------------------------

\* With one worker nothing is done between what it reads and what it writes: an intent of a
\* sweep waits as it was found, and what was posted is marked so before anything else.
OnceInv ==
  /\ \A i \in Intent : posts[i] <= 1
  /\ \A i \in Intent : posts[i] > 0 =>
       status[i] = "SENT" \/ \E w \in Worker : pc[w] = "posted" /\ job[w] = i
  /\ \A w \in Worker : pc[w] \in Delivering \ {"posted"} => posts[job[w]] = 0
  /\ \A w \in Worker : pc[w] \in {"sweep", "retire"} =>
       \A i \in found[w] : status[i] \in {"PENDING", "SENDING"}

\* Where one worker runs, as in development, and unless a fault intervened, an alert is posted
\* once, however often it is sent, retried, held back or requeued.
THEOREM OneWorkerPostsOnce ==
  ASSUME \A v, w \in Worker : v = w
  PROVE  Spec => []PostedOnce
<1> DEFINE Inv == faults = 0 => OnceInv
<1>1. Init => Inv
  BY DEF Init, OnceInv, Delivering
<1>2. TypeOK /\ Inv /\ [Next]_vars => Inv'
  <2> SUFFICES ASSUME TypeOK, OnceInv, faults = 0, faults' = 0, [Next]_vars PROVE OnceInv'
    <3>1. TypeOK /\ [Next]_vars => (faults' = 0 => faults = 0)
      BY DEF TypeOK, Next, vars, SendAlert, Age, Deliver, Reconcile, ProbeGate, Crash, GateExpires,
         TelegramGoesDown, TelegramComesBack, Load, CheckGate, Hold, Claim, SendSnapshot, Post,
         MarkSent, Unreachable, ReplyLost, GiveUp, FailAttempt, Retry, WriteLetter, FindStale,
         Requeue, RequeueLost, Retire, RetireLetter, EndSweep, StartProbe, ProbeFails,
         ProbeSucceeds, Release, EndRelease, EnqueueReleased, EndDrain
    <3> QED BY <3>1
  <2> USE DEF Delivering
  <2>1. ASSUME NEW i \in Intent, SendAlert(i) PROVE OnceInv'
    <3>1. /\ UNCHANGED <<posts, pc, job, found>>
          /\ \A k \in Intent : status'[k] = status[k] \/ status[k] = "NONE"
      BY <2>1 DEF SendAlert, Mark, tasks, TypeOK
    <3> QED BY <3>1 DEF OnceInv, TypeOK
  <2>2. ASSUME NEW w \in Worker, Deliver(w) PROVE OnceInv'
    <3> DEFINE i == job[w]
    <3>0. \A v \in Worker : v = w
      OBVIOUS
    <3>1. CASE Load(w)
      <4>1. UNCHANGED <<posts, status, found>> /\ pc[w] = "idle"
        BY <3>1 DEF Load, store, sweep
      <4>2. CASE pc' = pc /\ job' = job
        BY <4>1, <4>2 DEF OnceInv, TypeOK
      <4>3. CASE ~(pc' = pc /\ job' = job)
        <5>1. PICK k \in Intent : status[k] # "SENT" /\ job'[w] = k /\ pc'[w] \in {"bury", "loaded"}
          BY <3>1, <4>3 DEF Load, tasks, TypeOK
        <5>2. posts[k] = 0
          BY <3>0, <4>1, <5>1 DEF OnceInv, TypeOK
        <5> QED BY <3>0, <4>1, <5>1, <5>2 DEF OnceInv, TypeOK
      <4> QED BY <4>2, <4>3
    <3>2. CASE CheckGate(w) \/ Unreachable(w) \/ SendSnapshot(w)
      <4>1. /\ UNCHANGED <<posts, status, found, job>> /\ pc[w] \in Delivering \ {"posted"}
            /\ pc'[w] \in Delivering \ {"posted"}
        BY <3>2 DEF CheckGate, Unreachable, SendSnapshot, GoTo, store, sweep, TypeOK
      <4> QED BY <3>0, <4>1 DEF OnceInv, TypeOK
    <3>3. CASE Hold(w) \/ Claim(w) \/ GiveUp(w) \/ FailAttempt(w)
      <4>1. /\ UNCHANGED <<posts, found>> /\ pc[w] \in Delivering \ {"posted"} /\ i \in Intent
            /\ \A k \in Intent \ {i} : status'[k] = status[k]
            /\ pc'[w] = "idle" \/ (pc'[w] \in Delivering \ {"posted"} /\ job'[w] = i)
        BY <3>3 DEF Hold, Claim, GiveUp, FailAttempt, MarkUnlessTerminal, Mark, GoTo, Finish, TypeOK
      <4> QED BY <3>0, <4>1 DEF OnceInv, TypeOK
    <3>4. CASE Post(w)
      <4>1. /\ UNCHANGED <<status, found, job>> /\ pc[w] \in Delivering \ {"posted"} /\ i \in Intent
            /\ pc'[w] = "posted" /\ posts' = [posts EXCEPT ![i] = AtMost(@ + 1, MaxPosts)]
        BY <3>4 DEF Post, GoTo, store, sweep, TypeOK
      <4>2. posts[i] = 0 /\ AtMost(posts[i] + 1, MaxPosts) <= 1
        BY <4>1, DeliveryAssumption DEF OnceInv, AtMost
      <4> QED BY <3>0, <4>1, <4>2 DEF OnceInv, TypeOK
    <3>5. CASE MarkSent(w)
      <4>1. /\ UNCHANGED <<posts, found>> /\ pc[w] = "posted" /\ i \in Intent /\ pc'[w] = "idle"
            /\ status' = [status EXCEPT ![i] = "SENT"]
        BY <3>5 DEF MarkSent, Mark, Finish, TypeOK
      <4> QED BY <3>0, <4>1 DEF OnceInv, TypeOK
    <3>6. CASE ReplyLost(w)
      BY <3>6 DEF ReplyLost
    <3>7. CASE Retry(w) \/ WriteLetter(w)
      <4>1. UNCHANGED <<posts, status, found>> /\ pc[w] \in Delivering \ {"posted"}
              /\ pc'[w] = "idle"
        BY <3>7 DEF Retry, WriteLetter, Finish, store, sweep, TypeOK
      <4> QED BY <3>0, <4>1 DEF OnceInv, TypeOK
    <3> QED BY <2>2, <3>1, <3>2, <3>3, <3>4, <3>5, <3>6, <3>7 DEF Deliver
  <2>3. ASSUME NEW w \in Worker, Reconcile(w) PROVE OnceInv'
    <3>0. \A v \in Worker : v = w
      OBVIOUS
    <3>1. CASE FindStale(w)
      <4>1. /\ UNCHANGED <<posts, status>> /\ pc[w] = "idle" /\ pc'[w] = "sweep"
            /\ \A k \in found'[w] : status[k] \in {"PENDING", "SENDING"}
        BY <3>1 DEF FindStale, Stale, GoTo, store, TypeOK
      <4> QED BY <3>0, <4>1 DEF OnceInv, TypeOK
    <3>2. CASE Requeue(w)
      <4>1. PICK k \in found[w] : /\ found' = [found EXCEPT ![w] = @ \ {k}]
                                  /\ status' = status \/ status' = [status EXCEPT ![k] = "PENDING"]
        BY <3>2 DEF Requeue, MarkRequeued, Mark, store
      <4>2. pc[w] = "sweep" /\ pc'[w] = "sweep" /\ posts' = posts /\ k \in Intent
        BY <3>2, <4>1 DEF Requeue, GoTo, TypeOK
      <4> QED BY <3>0, <4>1, <4>2 DEF OnceInv, TypeOK
    <3>3. CASE RequeueLost(w)
      BY <3>3 DEF RequeueLost
    <3>4. CASE Retire(w)
      <4>1. PICK k \in found[w] : /\ found' = [found EXCEPT ![w] = @ \ {k}]
                                  /\ status' = [status EXCEPT ![k] = "DEAD"]
        BY <3>4 DEF Retire, Mark
      <4>2. pc[w] = "sweep" /\ pc'[w] = "retire" /\ posts' = posts /\ k \in Intent
        BY <3>4, <4>1 DEF Retire, TypeOK
      <4> QED BY <3>0, <4>1, <4>2 DEF OnceInv, TypeOK
    <3>5. CASE RetireLetter(w) \/ EndSweep(w)
      <4>1. /\ UNCHANGED <<posts, status, found>> /\ pc[w] \in {"sweep", "retire"}
            /\ pc'[w] \in {"sweep", "idle"}
        BY <3>5 DEF RetireLetter, EndSweep, Finish, store, sweep, TypeOK
      <4> QED BY <3>0, <4>1 DEF OnceInv, TypeOK
    <3> QED BY <2>3, <3>1, <3>2, <3>3, <3>4, <3>5 DEF Reconcile
  <2>4. ASSUME NEW w \in Worker, ProbeGate(w) PROVE OnceInv'
    <3>0. \A v \in Worker : v = w
      OBVIOUS
    <3>1. /\ posts' = posts /\ found' = found
          /\ pc[w] \in {"idle", "probing", "drain", "enqueue"}
          /\ pc'[w] \in {"idle", "probing", "drain", "enqueue"}
          /\ \A k \in Intent : status'[k] = status[k] \/ status[k] = "BUFFERED"
      BY <2>4 DEF ProbeGate, StartProbe, ProbeFails, ProbeSucceeds, Release, EndRelease,
         EnqueueReleased, EndDrain, GoTo, Finish, Mark, store, sweep, TypeOK
    <3> QED BY <3>0, <3>1 DEF OnceInv, TypeOK
  <2>5. CASE (\E w \in Worker : Crash(w)) \/ GateExpires
    BY <2>5 DEF Crash, GateExpires
  <2>6. CASE (\E i \in Intent : Age(i)) \/ TelegramGoesDown \/ TelegramComesBack \/ UNCHANGED vars
    <3>1. UNCHANGED <<posts, status, found, pc, job>>
      BY <2>6 DEF Age, TelegramGoesDown, TelegramComesBack, vars, tasks, store, sweep
    <3> QED BY <3>1 DEF OnceInv
  <2> QED BY <2>1, <2>2, <2>3, <2>4, <2>5, <2>6 DEF Next
<1>3. TypeOK /\ Inv => PostedOnce
  BY DEF OnceInv, PostedOnce
<1> QED BY <1>1, <1>2, <1>3, TypeCorrect, PTL DEF Spec
=============================================================================
