----------------------------- MODULE Decisions -----------------------------
(***************************************************************************)
(* How an alert is decided, and how its message in the chat shows it.      *)
(*                                                                         *)
(* A decision is made in the console, or by a press of a button that the   *)
(* Telegram poller holding the lease forwards to the API; the API writes   *)
(* it, then notifies the notification service, whose workers edit the      *)
(* message. Reading the clock, the write, the notice, the claim of the     *)
(* display and the edit are separate calls.                                *)
(***************************************************************************)
EXTENDS Naturals, FiniteSets

CONSTANTS
  Console,   \* decisions made in the console, and taken back
  Press,     \* presses of the buttons, as Telegram's updates
  Linked,    \* those whose sender may decide
  Poller,
  None,
  MaxFaults  \* bound: calls that fail and processes that die

Decider  == Console \cup Press
Value    == {"none", "confirmed", "dismissed"}
LastTime == 2 * Cardinality(Decider)
Time     == 0..LastTime

Decision == [value : Value, at : Time]

\* A poller is at a step of its own or at a press: no press is taken for a step.
DecisionsAssumption ==
  /\ Linked \subseteq Press /\ Console \cap Press = {} /\ IsFiniteSet(Decider)
  /\ None \notin Decider \cup Poller \cup [value : Value, at : Nat]
  /\ Press \cap {"standby", "poll", "handle"} = {}
  /\ MaxFaults \in Nat

VARIABLES
  clock,    \* the times that decisions have read, counted
  decision, \* the document: what was decided, and decided_at
  pc,       \* where the API is with a decision
  ask,      \* what it is to decide, the time it has read, and what it has written
  notices,  \* apply_decision_task messages in the broker
  edits,    \* displays that were claimed and are being edited
  shownAt,  \* telegram_shown_at
  message,  \* what the message shows, or None before it is posted
  updates,  \* presses Telegram has not been told are done
  seen,     \* keys notify:telegram:update
  lease,    \* who holds the poller lease
  poller,   \* what a poller is doing
  batch,    \* the updates it has fetched and not handled
  offset,   \* the updates its next poll declares done
  answered, \* presses that were answered
  last,     \* the latest time that a recorded decision carries
  muddled,  \* why the message may differ from the decision
  faults

vars == <<clock, decision, pc, ask, notices, edits, shownAt, message, updates, seen, lease,
          poller, batch, offset, answered, last, muddled, faults>>

Idle     == [value |-> "none", at |-> 0, done |-> FALSE]
Reason   == {"early", "order", "cleared", "overtaken", "lost"}

TypeOK ==
  /\ clock \in Time /\ decision \in Decision
  /\ pc \in [Decider -> {"new", "stamped", "written", "answer", "done"}]
  /\ ask \in [Decider -> [value : Value, at : Time, done : BOOLEAN]]
  /\ notices \subseteq Decision /\ edits \subseteq Decision
  /\ shownAt \in Time /\ message \in [value : Value, at : Time] \cup {None}
  /\ updates \subseteq Press /\ seen \subseteq Press
  /\ lease \in Poller \cup {None}
  /\ poller \in [Poller -> {"standby", "poll", "handle"} \cup Press]
  /\ batch \in [Poller -> SUBSET Press] /\ offset \in [Poller -> SUBSET Press]
  /\ answered \subseteq Press
  /\ last \in Time /\ muddled \subseteq Reason /\ faults \in 0..MaxFaults
  /\ message = None => edits = {} /\ shownAt = 0

Init ==
  /\ clock = 0 /\ decision = [value |-> "none", at |-> 0]
  /\ pc = [d \in Decider |-> "new"] /\ ask = [d \in Decider |-> Idle]
  /\ notices = {} /\ edits = {} /\ shownAt = 0 /\ message = None
  /\ updates = {} /\ seen = {} /\ lease = None
  /\ poller = [q \in Poller |-> "standby"]
  /\ batch = [q \in Poller |-> {}] /\ offset = [q \in Poller |-> {}]
  /\ answered = {} /\ last = 0 /\ muddled = {} /\ faults = 0

-----------------------------------------------------------------------------
(* Helpers *)

api     == <<clock, decision, pc, ask>>
display == <<notices, edits, shownAt, message>>
polling == <<updates, seen, lease, poller, batch, offset, answered>>

ghosts  == <<last, muddled>>

Fault == faults < MaxFaults /\ faults' = faults + 1

Reached(d, step) == pc' = [pc EXCEPT ![d] = step]

Muddle(reason, if) == muddled' = IF if THEN muddled \cup {reason} ELSE muddled

Later(t) == last' = IF t > last THEN t ELSE last

-----------------------------------------------------------------------------
(* The API: decide *)

\* The clock is read before the update.
Stamp(d, v) ==
  /\ clock' = clock + 1
  /\ ask' = [ask EXCEPT ![d] = [value |-> v, at |-> clock + 1, done |-> FALSE]]
  /\ Reached(d, "stamped")
  /\ UNCHANGED decision

FromConsole(c) ==
  /\ pc[c] = "new"
  /\ \E v \in Value : Stamp(c, v)
  /\ UNCHANGED <<display, polling, ghosts, faults>>

\* The filter of find_one_and_update: another decision, or none at all for a press.
Matches(d) ==
  IF d \in Press THEN decision.value = "none" ELSE decision.value # ask[d].value

\* A decision that is taken back has no decided_at; one that is refused answers with what
\* is recorded.
Write(d) ==
  /\ pc[d] = "stamped"
  /\ IF Matches(d)
     THEN /\ decision' = [value |-> ask[d].value,
                          at |-> IF ask[d].value = "none" THEN 0 ELSE ask[d].at]
          /\ ask' = [ask EXCEPT ![d].done = TRUE]
          /\ Reached(d, "written")
          /\ Muddle("order", last > ask[d].at)
          /\ Later(ask[d].at)
     ELSE /\ Reached(d, IF d \in Press THEN "answer" ELSE "done")
          /\ ask' = [ask EXCEPT ![d] = [value |-> decision.value, at |-> decision.at,
                                         done |-> FALSE]]
          /\ UNCHANGED <<decision, ghosts>>
  /\ UNCHANGED <<clock, display, polling, faults>>

\* The notice carries decided_at, or the time of the notice if there is none.
NoticeOf(d) ==
  [value |-> ask[d].value, at |-> IF ask[d].value = "none" THEN clock + 1 ELSE ask[d].at]

\* notify_decision and NotifyDecision, which enqueues a task.
Notify(d) ==
  /\ pc[d] = "written"
  /\ notices' = notices \cup {NoticeOf(d)}
  /\ clock' = IF ask[d].value = "none" THEN clock + 1 ELSE clock
  /\ Muddle("cleared", ask[d].value = "none" /\ decision.value # "none")
  /\ Later(NoticeOf(d).at)
  /\ Reached(d, IF d \in Press THEN "answer" ELSE "done")
  /\ UNCHANGED <<decision, ask, edits, shownAt, message, polling, faults>>

\* Neither the API nor the notification service fails because the notice is lost, and the
\* API may die before it.
NotifyFails(d) ==
  /\ pc[d] = "written"
  /\ Fault
  /\ Muddle("lost", TRUE)
  /\ Reached(d, IF d \in Press THEN "answer" ELSE "done")
  /\ UNCHANGED <<clock, decision, ask, display, polling, last>>

-----------------------------------------------------------------------------
(* The worker: apply_decision_task *)

\* The message is posted, with its buttons and without any decision.
Post ==
  /\ message = None
  /\ message' = [value |-> "none", at |-> 0]
  /\ UNCHANGED <<api, notices, edits, shownAt, polling, ghosts, faults>>

\* _show_decision: there is no message yet.
Skip(n) ==
  /\ n \in notices /\ message = None
  /\ notices' = notices \ {n}
  /\ Muddle("early", TRUE)
  /\ UNCHANGED <<api, edits, shownAt, message, polling, last, faults>>

\* Bug: whatever comes is shown.
NewerAny(n) == n.at >= 0

\* The filter of claim_display.
Newer(n) == shownAt <= n.at

ClaimDisplay(n) ==
  /\ n \in notices /\ message # None /\ Newer(n)
  /\ notices' = notices \ {n}
  /\ shownAt' = n.at
  /\ edits' = edits \cup {n}
  /\ UNCHANGED <<api, message, polling, ghosts, faults>>

Stale(n) ==
  /\ n \in notices /\ message # None /\ ~Newer(n)
  /\ notices' = notices \ {n}
  /\ UNCHANGED <<api, edits, shownAt, message, polling, ghosts, faults>>

\* edit_message.
Edit(n) ==
  /\ n \in edits
  /\ edits' = edits \ {n}
  /\ message' = n
  /\ Muddle("overtaken", shownAt > n.at /\ message.at > n.at)
  /\ UNCHANGED <<api, notices, shownAt, polling, last, faults>>

\* A transient failure, or a worker that dies: the task comes back.
EditAgain(n) ==
  /\ n \in edits
  /\ Fault
  /\ edits' = edits \ {n}
  /\ notices' = notices \cup {n}
  /\ UNCHANGED <<api, shownAt, message, polling, ghosts>>

\* A permanent one, or the last retry.
EditFails(n) ==
  /\ n \in edits
  /\ Fault
  /\ edits' = edits \ {n}
  /\ Muddle("lost", TRUE)
  /\ UNCHANGED <<api, notices, shownAt, message, polling, last>>

-----------------------------------------------------------------------------
(* The poller *)

Does(q, step) == poller' = [poller EXCEPT ![q] = step]

\* Somebody presses a button of the message.
Presses(p) ==
  /\ message # None /\ p \notin updates \cup answered /\ pc[p] = "new" /\ p \notin seen
  /\ updates' = updates \cup {p}
  /\ UNCHANGED <<api, display, seen, lease, poller, batch, offset, answered, ghosts, faults>>

\* acquire; _poll starts with offset 0.
Acquire(q) ==
  /\ poller[q] = "standby" /\ lease = None
  /\ lease' = q
  /\ Does(q, "poll")
  /\ offset' = [offset EXCEPT ![q] = {}]
  /\ UNCHANGED <<api, display, updates, seen, batch, answered, ghosts, faults>>

\* renew and get_updates, which tells Telegram what is done.
Poll(q) ==
  /\ poller[q] = "poll" /\ lease = q
  /\ updates' = updates \ offset[q]
  /\ updates # {}
  /\ batch' = [batch EXCEPT ![q] = updates']
  /\ Does(q, IF updates' = {} THEN "poll" ELSE "handle")
  /\ UNCHANGED <<api, display, seen, lease, offset, answered, ghosts, faults>>

\* Telegram refuses to be polled, and the lease is released.
PollRefused(q) ==
  /\ poller[q] = "poll" /\ lease = q
  /\ Fault
  /\ lease' = None
  /\ Does(q, "standby")
  /\ UNCHANGED <<api, display, updates, seen, batch, offset, answered, ghosts>>

LostLease(q) ==
  /\ poller[q] = "poll" /\ lease # q
  /\ Does(q, "standby")
  /\ UNCHANGED <<api, display, updates, seen, lease, batch, offset, answered, ghosts, faults>>

\* Bug: an update is marked when it is answered.
MarkedLate(p) == seen

\* _first_time marks it before it is handled.
Marked(p) == seen \cup {p}

\* handle_update: the next of the batch, if it was not seen before.
Handle(q) ==
  /\ poller[q] = "handle"
  /\ \E p \in batch[q] :
       /\ batch' = [batch EXCEPT ![q] = @ \ {p}]
       /\ offset' = [offset EXCEPT ![q] = @ \cup {p}]
       /\ seen' = Marked(p)
       /\ Does(q, IF p \notin seen THEN p ELSE IF batch[q] = {p} THEN "poll" ELSE "handle")
  /\ UNCHANGED <<api, display, updates, lease, answered, ghosts, faults>>

\* Redis does not answer _first_time: the update is passed over and counts as done.
PassOver(q) ==
  /\ poller[q] = "handle"
  /\ Fault
  /\ \E p \in batch[q] :
       /\ batch' = [batch EXCEPT ![q] = @ \ {p}]
       /\ offset' = [offset EXCEPT ![q] = @ \cup {p}]
       /\ Does(q, IF batch[q] = {p} THEN "poll" ELSE "handle")
  /\ UNCHANGED <<api, display, updates, seen, lease, answered, ghosts>>

\* What a poller does when it is done with an update.
Resumes(q) == Does(q, IF batch[q] = {} THEN "poll" ELSE "handle")

\* _press and DecideAlert, up to the operator and the clock.
Forward(q, p) ==
  /\ poller[q] = p /\ pc[p] = "new" /\ p \in Linked
  /\ \E v \in Value \ {"none"} : Stamp(p, v)
  /\ UNCHANGED <<display, polling, ghosts, faults>>

\* Not an operator: nothing is recorded.
Refuse(q, p) ==
  /\ poller[q] = p /\ pc[p] = "new" /\ p \notin Linked
  /\ Reached(p, "done")
  /\ answered' = answered \cup {p}
  /\ Resumes(q)
  /\ UNCHANGED <<clock, decision, ask, display, updates, seen, lease, batch, offset, ghosts,
                 faults>>

\* "not recorded, try again": the API was not reached, or did not answer in
\* DECISION_CALL_TIMEOUT_SEC and goes on.
Unavailable(q, p) ==
  /\ poller[q] = p /\ p \in Linked
  /\ Fault
  /\ IF pc[p] = "new" THEN Reached(p, "done") ELSE UNCHANGED pc
  /\ answered' = answered \cup {p}
  /\ Resumes(q)
  /\ UNCHANGED <<clock, decision, ask, display, updates, seen, lease, batch, offset, ghosts>>

\* A press that came too late enqueues what was recorded when it came.
Resync(p) ==
  IF ask[p].done \/ ask[p].value = "none"
  THEN notices
  ELSE notices \cup {[value |-> ask[p].value, at |-> ask[p].at]}

\* _answer_outcome.
Answer(q, p) ==
  /\ poller[q] = p /\ pc[p] = "answer"
  /\ Reached(p, "done")
  /\ answered' = answered \cup {p}
  /\ notices' = Resync(p)
  /\ Resumes(q)
  /\ UNCHANGED <<clock, decision, ask, edits, shownAt, message, updates, seen, lease, batch,
                 offset, ghosts, faults>>

\* The process dies; what it held of the lease stays.
Dies(q) ==
  /\ poller[q] # "standby"
  /\ Fault
  /\ Does(q, "standby")
  /\ batch' = [batch EXCEPT ![q] = {}]
  /\ UNCHANGED <<api, display, updates, seen, lease, offset, answered, ghosts>>

\* Bug: the lease has no px.
LapsesNever == FALSE

\* POLLER_LEASE_TTL_SEC is longer than a poll; a batch of updates may take longer.
MayLapse == lease # None /\ poller[lease] # "poll"

LeaseLapses ==
  /\ MayLapse
  /\ lease' = None
  /\ UNCHANGED <<api, display, updates, seen, poller, batch, offset, answered, ghosts, faults>>

-----------------------------------------------------------------------------

Decide(d) == Write(d) \/ Notify(d) \/ NotifyFails(d)

Show(n) == Skip(n) \/ ClaimDisplay(n) \/ Stale(n) \/ Edit(n) \/ EditAgain(n) \/ EditFails(n)

Work(q) ==
  \/ Poll(q) \/ LostLease(q) \/ Handle(q)
  \/ \E p \in Press : Forward(q, p) \/ Refuse(q, p) \/ Unavailable(q, p) \/ Answer(q, p)

Next ==
  \/ \E c \in Console : FromConsole(c)
  \/ \E d \in Decider : Decide(d)
  \/ Post
  \/ \E n \in notices \cup edits : Show(n)
  \/ \E p \in Press : Presses(p)
  \/ \E q \in Poller : Acquire(q) \/ Work(q) \/ PollRefused(q) \/ PassOver(q) \/ Dies(q)
  \/ LeaseLapses

Spec == Init /\ [][Next]_vars

\* A poller that may acquire the lease does, and one that holds it polls and handles;
\* the API answers; the lease lapses.
Fairness ==
  /\ \A q \in Poller : WF_vars(Work(q)) /\ WF_vars(Acquire(q))
  /\ \A p \in Press : WF_vars(Decide(p))
  /\ WF_vars(LeaseLapses)

-----------------------------------------------------------------------------
(* Properties *)

\* The poller that forwarded a press is gone.
Left(d) == \A q \in Poller : poller[q] # d

Quiet ==
  /\ message # None /\ notices = {} /\ edits = {}
  /\ \A d \in Decider : pc[d] \in {"stamped", "written", "answer"} => pc[d] = "answer" /\ Left(d)

\* When nothing is under way the message shows the decision, however many were made and in
\* whatever order their notices came. What the code leaves open: a decision before the
\* message was posted; two whose updates came in the other order than their clocks; one
\* taken back whose notice is stamped after a later decision; an older edit that lands
\* after a newer one; and a call that failed.
MessageShowsDecision == Quiet /\ muddled = {} => message.value = decision.value

\* A press is forwarded to the API at most once, though two pollers may hold batches with
\* it at the same time and each restart fetches it again.
PressedOnce ==
  \A q \in Poller : poller[q] \in Press =>
    /\ poller[q] \notin answered
    /\ \A other \in Poller \ {q} : poller[other] # poller[q]

\* Every press is answered, whichever poller dies, unless the one that had marked it did,
\* or Redis failed as it was to be marked.
PressIsAnswered ==
  \A p \in Press :
    p \in updates ~> (p \in answered \/ (faults > 0 /\ (p \in seen \/ p \notin updates)))
=============================================================================
