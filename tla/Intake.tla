------------------------------- MODULE Intake -------------------------------
(***************************************************************************)
(* How the notification service takes what it has to tell: an alert of the *)
(* API and a webhook of Alertmanager become one delivery intent for each   *)
(* natural key (source, source_ref, channel, recipient), whatever is asked *)
(* again; how often the chat is then told, by workers that claim, post and *)
(* record; and what the API shows of an alert's intents.  The gate, the    *)
(* dead letters and the timeouts of the sweep are the subject of Delivery. *)
(***************************************************************************)
EXTENDS Naturals, Sequences, FiniteSets

CONSTANTS Alert,      \* source_ref of the API's alerts: alert_id
          Group,      \* source_ref of Alertmanager's webhooks: group_key
          Call,       \* requests the server works on at once
          Worker,     \* Celery worker processes
          Chat,       \* values of TELEGRAM_CHAT_ID
          Unset,      \* UNCONFIGURED_RECIPIENT, which may be one of them
          Migrated,   \* migration 001 has been run: the natural key is unique
          MaxAsks,    \* bound on the requests about one source_ref
          MaxMoves,   \* bound on the changes of TELEGRAM_CHAT_ID
          MaxFaults   \* bound on failed writes, enqueues and sends

VARIABLES recipient,  \* TELEGRAM_CHAT_ID of the server
          target,     \* TELEGRAM_CHAT_ID of the workers
          had,        \* the recipients the server has had
          taking,     \* the requests the server works on
          intents,    \* delivery_intents, by created_at
          queued,     \* messages in the broker: the n-th that waits for an intent
          doing,      \* what each worker does
          again,      \* source_refs of which a post was not recorded, or two tasks met
          asked,      \* requests there were about a source_ref
          heard,      \* status of the last webhook of a group that was accepted
          notice,     \* payload of the last message about a source_ref
          posts,      \* messages about a source_ref
          viewed,     \* what the API last showed of an alert
          moves, mishaps

vars == <<recipient, target, had, taking, intents, queued, doing, again, asked, heard, notice,
          posts, viewed, moves, mishaps>>

IntakeAssumption ==
  /\ IsFiniteSet(Alert) /\ IsFiniteSet(Group) /\ Alert \cap Group = {}
  /\ Chat # {} /\ IsFiniteSet(Chat) /\ Migrated \in BOOLEAN
  /\ {MaxAsks, MaxMoves, MaxFaults} \subseteq Nat

Ref    == Alert \cup Group
Body   == {"alert", "firing", "resolved"}

\* _STATE_SEVERITY; SENDING, which ranks with PENDING, and BUFFERED are left to Delivery.
Severity == [SENT |-> 0, PENDING |-> 1, FAILED |-> 3, DEAD |-> 4]

Idle == [at |-> "idle"]

Init ==
  /\ recipient \in Chat /\ target = recipient /\ had = {recipient}
  /\ taking = [c \in Call |-> Idle]
  /\ intents = <<>> /\ queued = {}
  /\ doing = [w \in Worker |-> Idle] /\ again = {}
  /\ asked = [r \in Ref |-> 0]
  /\ heard = [g \in Group |-> "none"]
  /\ notice = [r \in Ref |-> "none"] /\ posts = [r \in Ref |-> 0]
  /\ viewed = [a \in Alert |-> [state |-> "UNKNOWN", of |-> 0]]
  /\ moves = 0 /\ mishaps = 0

At(c, step) == taking[c].at = step

Fault == mishaps < MaxFaults /\ mishaps' = mishaps + 1

\* The messages that wait for an intent, and the queue with one more and with one less.
Waiting(i) == Cardinality({m \in queued : m[1] = i})
With(i)    == queued \cup {<<i, Waiting(i) + 1>>}
Without(i) == queued \ {<<i, Waiting(i)>>}

-----------------------------------------------------------------------------
(* SendAlert and receive_alertmanager *)

\* The API sends an alert, again when it got no answer, perhaps while the first call is
\* still at work.  Alertmanager tells of a group that fires, again every repeat_interval, and
\* of its end (send_resolved), one webhook of a group at a time.
Ask(c) ==
  /\ At(c, "idle")
  /\ \E r \in Ref, b \in Body :
       /\ asked[r] < MaxAsks
       /\ IF r \in Alert
          THEN b = "alert"
          ELSE /\ b = "firing" \/ (b = "resolved" /\ heard[r] = "firing")
               /\ \A d \in Call : ~At(d, "idle") => taking[d].ref # r
       /\ asked' = [asked EXCEPT ![r] = @ + 1]
       /\ taking' = [taking EXCEPT ![c] =
                       [at |-> "insert", ref |-> r, to |-> recipient, body |-> b, intent |-> 0]]
  /\ UNCHANGED <<recipient, target, had, intents, queued, doing, again, heard, notice, posts,
                 viewed, moves, mishaps>>

\* Bug: the key is looked up without the recipient.
SameRef(t) == {i \in DOMAIN intents : intents[i].ref = t.ref}

\* The documents with the natural key of a request.
SameKey(t) == {i \in DOMAIN intents : intents[i].ref = t.ref /\ intents[i].to = t.to}

\* Bug: the unique index has another key.
InsertAnyway(c) ==
  /\ At(c, "insert")
  /\ intents' = Append(intents, [ref |-> taking[c].ref, to |-> taking[c].to,
                                 body |-> taking[c].body, status |-> "PENDING"])
  /\ taking' = [taking EXCEPT ![c].at = "enqueue", ![c].intent = Len(intents')]
  /\ UNCHANGED <<recipient, target, had, queued, doing, again, asked, heard, notice, posts,
                 viewed, moves, mishaps>>

\* acquire: insert_one, which a unique index may refuse.
Insert(c) ==
  /\ At(c, "insert")
  /\ IF Migrated /\ SameKey(taking[c]) # {}
     THEN /\ taking' = [taking EXCEPT ![c].at = "find"]
          /\ UNCHANGED intents
     ELSE /\ intents' = Append(intents, [ref |-> taking[c].ref, to |-> taking[c].to,
                                         body |-> taking[c].body, status |-> "PENDING"])
          /\ taking' = [taking EXCEPT ![c].at = "enqueue", ![c].intent = Len(intents')]
  /\ UNCHANGED <<recipient, target, had, queued, doing, again, asked, heard, notice, posts,
                 viewed, moves, mishaps>>

First(those) == CHOOSE i \in those : \A j \in those : i <= j

\* acquire: DuplicateKeyError, and the intent that is there, with the payload it came with.
Find(c) ==
  /\ At(c, "find")
  /\ taking' = [taking EXCEPT ![c].at = "enqueue",
                  ![c].intent = First(SameKey(taking[c]))]
  /\ UNCHANGED <<recipient, target, had, intents, queued, doing, again, asked, heard, notice,
                 posts, viewed, moves, mishaps>>

\* The write fails: STATUS_FAILED, or 503.
StoreFails(c) ==
  /\ At(c, "insert") \/ At(c, "find")
  /\ Fault
  /\ taking' = [taking EXCEPT ![c] = Idle]
  /\ UNCHANGED <<recipient, target, had, intents, queued, doing, again, asked, heard, notice,
                 posts, viewed, moves>>

Accepted(c) ==
  /\ heard' = IF taking[c].ref \in Group
              THEN [heard EXCEPT ![taking[c].ref] = taking[c].body]
              ELSE heard
  /\ taking' = [taking EXCEPT ![c] = Idle]

\* send_task, and the answer: STATUS_ACCEPTED, or 202.
Enqueue(c) ==
  /\ At(c, "enqueue")
  /\ queued' = With(taking[c].intent)
  /\ Accepted(c)
  /\ UNCHANGED <<recipient, target, had, intents, doing, again, asked, notice, posts, viewed,
                 moves, mishaps>>

\* send_task raises: the answer is the same.
EnqueueFails(c) ==
  /\ At(c, "enqueue")
  /\ Fault
  /\ Accepted(c)
  /\ UNCHANGED <<recipient, target, had, intents, queued, doing, again, asked, notice, posts,
                 viewed, moves>>

-----------------------------------------------------------------------------
(* The workers *)

Becomes(i, s) == intents' = [intents EXCEPT ![i].status = s]

\* Bug: an intent that was sent is sent again when it is asked for again.
OnlyTheDead(i) == intents[i].status = "DEAD"

\* "already_sent", and what mark_sending refuses.
Done(i) == intents[i].status \in {"SENT", "DEAD"}

Free(w) == doing[w].at = "idle"

\* Some task is at work on an intent.
AtWork(i) == \E w \in Worker : ~Free(w) /\ doing[w].intent = i

\* A worker that is free takes a message about an intent.
Takes(w, i) == Free(w) /\ i \in DOMAIN intents /\ Waiting(i) > 0 /\ queued' = Without(i)

\* A worker is through with its message, or leaves it to the broker.
Ends(w) == doing' = [doing EXCEPT ![w] = Idle]

\* _deliver: nothing is left to do, whatever the request was about.
Skip(w) ==
  /\ \E i \in DOMAIN intents : Takes(w, i) /\ Done(i)
  /\ UNCHANGED <<recipient, target, had, taking, intents, doing, again, asked, heard, notice,
                 posts, viewed, moves, mishaps>>

\* _deliver: without a chat an intent dies at once.
Bury(w) ==
  /\ \E i \in DOMAIN intents :
       Takes(w, i) /\ ~Done(i) /\ intents[i].to = Unset /\ Becomes(i, "DEAD")
  /\ UNCHANGED <<recipient, target, had, taking, doing, again, asked, heard, notice, posts,
                 viewed, moves, mishaps>>

\* mark_sending: the intent of a message is claimed, whoever else has claimed it.
Claim(w) ==
  /\ \E i \in DOMAIN intents :
       /\ Takes(w, i) /\ ~Done(i) /\ intents[i].to # Unset
       /\ Becomes(i, "PENDING")
       /\ doing' = [doing EXCEPT ![w] = [at |-> "claimed", intent |-> i]]
       /\ again' = IF AtWork(i) THEN again \cup {intents[i].ref} ELSE again
  /\ UNCHANGED <<recipient, target, had, taking, asked, heard, notice, posts, viewed, moves,
                 mishaps>>

\* The payload of the intent goes to the chat of the worker's settings.
Posts(w) ==
  LET i == intents[doing[w].intent] IN
    /\ doing[w].at = "claimed" /\ target # Unset
    /\ posts' = [posts EXCEPT ![i.ref] = @ + 1]
    /\ notice' = [notice EXCEPT ![i.ref] = i.body]

Post(w) ==
  /\ Posts(w)
  /\ doing' = [doing EXCEPT ![w].at = "posted"]
  /\ UNCHANGED <<recipient, target, had, taking, intents, queued, again, asked, heard, viewed,
                 moves, mishaps>>

\* TelegramUnreachableError after a post that arrived: mark_buffered, and the drain makes it anew.
Unanswered(w) ==
  /\ Posts(w)
  /\ Fault
  /\ IF Done(doing[w].intent)
     THEN UNCHANGED <<intents, queued>>
     ELSE Becomes(doing[w].intent, "PENDING") /\ queued' = With(doing[w].intent)
  /\ again' = again \cup {intents[doing[w].intent].ref}
  /\ Ends(w)
  /\ UNCHANGED <<recipient, target, had, taking, asked, heard, viewed, moves>>

\* mark_sent.
Record(w) ==
  /\ doing[w].at = "posted"
  /\ Becomes(doing[w].intent, "SENT")
  /\ Ends(w)
  /\ UNCHANGED <<recipient, target, had, taking, queued, again, asked, heard, notice, posts,
                 viewed, moves, mishaps>>

\* _dispatch returns None, for the worker has no chat.
Decline(w) ==
  /\ doing[w].at = "claimed" /\ target = Unset
  /\ Becomes(doing[w].intent, "DEAD")
  /\ Ends(w)
  /\ UNCHANGED <<recipient, target, had, taking, queued, again, asked, heard, notice, posts,
                 viewed, moves, mishaps>>

\* An attempt fails, and is the last or is tried again.
Fail(w) ==
  /\ doing[w].at = "claimed" /\ target # Unset
  /\ Fault
  /\ \/ Becomes(doing[w].intent, "DEAD") /\ UNCHANGED queued
     \/ Becomes(doing[w].intent, "FAILED") /\ queued' = With(doing[w].intent)
  /\ Ends(w)
  /\ UNCHANGED <<recipient, target, had, taking, again, asked, heard, notice, posts, viewed, moves>>

\* A worker dies: the broker delivers its message again.
Die(w) ==
  /\ ~Free(w)
  /\ Fault
  /\ queued' = With(doing[w].intent)
  /\ again' = IF doing[w].at = "posted"
              THEN again \cup {intents[doing[w].intent].ref}
              ELSE again
  /\ Ends(w)
  /\ UNCHANGED <<recipient, target, had, taking, intents, asked, heard, notice, posts, viewed,
                 moves>>

\* reconcile_intents: PENDING for too long, or SENDING, though a task may only be slow.
Requeue(i) ==
  /\ i \in DOMAIN intents /\ Waiting(i) = 0 /\ intents[i].status = "PENDING"
  /\ IF AtWork(i) THEN Fault ELSE UNCHANGED mishaps
  /\ queued' = With(i)
  /\ UNCHANGED <<recipient, target, had, taking, intents, doing, again, asked, heard, notice,
                 posts, viewed, moves>>

-----------------------------------------------------------------------------
(* What the API shows, and a change of the chat *)

\* Bug: the state of the last record is shown.
Latest(rows) == intents[CHOOSE i \in rows : \A j \in rows : j <= i].status

\* _summarise: the worst of them.
Worst(rows) ==
  LET of == {intents[i].status : i \in rows} IN
    CHOOSE s \in of : \A t \in of : Severity[t] <= Severity[s]

\* GetDeliveryStatusBatch: one read of the intents of an alert.
Records(a) == {i \in DOMAIN intents : intents[i].ref = a}

\* delivery_status_batch and _attach_delivery.
View(a) ==
  /\ viewed' = [viewed EXCEPT ![a] =
                  [state |-> IF Records(a) = {} THEN "UNKNOWN" ELSE Worst(Records(a)),
                   of |-> Len(intents)]]
  /\ UNCHANGED <<recipient, target, had, taking, intents, queued, doing, again, asked, heard,
                 notice, posts, moves, mishaps>>

\* The server is started with another chat: what it worked on gets no answer.
MoveServer ==
  /\ moves < MaxMoves
  /\ moves' = moves + 1
  /\ recipient' \in Chat \ {recipient}
  /\ had' = had \cup {recipient'}
  /\ taking' = [c \in Call |-> Idle]
  /\ UNCHANGED <<target, intents, queued, doing, again, asked, heard, notice, posts, viewed,
                 mishaps>>

\* The workers follow, before the server or after it; one that is stopped ends its task.
MoveWorkers ==
  /\ moves < MaxMoves
  /\ \A w \in Worker : Free(w)
  /\ moves' = moves + 1
  /\ target' \in Chat \ {target}
  /\ UNCHANGED <<recipient, had, taking, intents, queued, doing, again, asked, heard, notice,
                 posts, viewed, mishaps>>

Serve(c) == Insert(c) \/ Find(c) \/ Enqueue(c)

Deliver(w) == Skip(w) \/ Bury(w) \/ Claim(w) \/ Post(w) \/ Record(w) \/ Decline(w)

Next ==
  \/ \E c \in Call : Ask(c) \/ Serve(c) \/ StoreFails(c) \/ EnqueueFails(c)
  \/ \E w \in Worker : Deliver(w) \/ Unanswered(w) \/ Fail(w) \/ Die(w)
  \/ \E i \in DOMAIN intents : Requeue(i)
  \/ \E a \in Alert : View(a)
  \/ MoveServer \/ MoveWorkers

\* The server answers, the workers take what is in the broker, and the sweep goes on.
Fairness ==
  /\ \A c \in Call : WF_vars(Serve(c))
  /\ \A w \in Worker : WF_vars(Deliver(w))
  /\ \A i \in 1 .. MaxAsks * Cardinality(Ref) : WF_vars(Requeue(i))

FairSpec == Init /\ [][Next]_vars /\ Fairness

-----------------------------------------------------------------------------

TypeOK ==
  /\ {recipient, target} \subseteq Chat /\ recipient \in had /\ had \subseteq Chat
  /\ taking \in [Call -> {Idle} \cup
       [at : {"insert", "find", "enqueue"}, ref : Ref, to : Chat, body : Body, intent : Nat]]
  /\ intents \in Seq([ref : Ref, to : Chat, body : Body, status : DOMAIN Severity])
  /\ \A m \in queued : m[1] \in DOMAIN intents
  /\ doing \in [Worker -> {Idle} \cup [at : {"claimed", "posted"}, intent : Nat]]
  /\ again \subseteq Ref
  /\ asked \in [Ref -> 0 .. MaxAsks] /\ posts \in [Ref -> Nat]
  /\ heard \in [Group -> {"none", "firing", "resolved"}]
  /\ notice \in [Ref -> Body \cup {"none"}]
  /\ viewed \in [Alert -> [state : DOMAIN Severity \cup {"UNKNOWN"}, of : Nat]]
  /\ moves \in 0 .. MaxMoves /\ mishaps \in 0 .. MaxFaults

\* acquire: the intent a request is answered for is about what it asked and goes to the recipient
\* it was asked for, whoever else asks at once and however often the chat has changed.
AcceptedIsAddressed ==
  \A c \in Call :
    At(c, "enqueue") => LET i == intents[taking[c].intent] IN
                          i.ref = taking[c].ref /\ i.to = taking[c].to

\* acquire and _deliver: where the natural key is unique, nothing is told more often than the
\* server has had recipients, however often and however closely it is asked for, and whatever
\* fails before a post: only two tasks that meet over an intent, or a post whose answer or record
\* is lost, tell it once more.
ToldOncePerRecipient ==
  Migrated => \A r \in Ref : r \in again \/ posts[r] <= Cardinality(had)

\* _summarise: what was shown as sent has arrived for every recipient there was, what was
\* shown as dead is dead for one of them, and what was not known had no intent. The writers
\* of _deliver ask for no state, so two tasks over one intent may still change what was shown.
ShownIsTheWorst ==
  \A a \in Alert :
    LET of == {intents[i].status : i \in {j \in 1 .. viewed[a].of : intents[j].ref = a}} IN
      \/ a \in again
      \/ CASE viewed[a].state = "SENT"    -> of = {"SENT"}
           [] viewed[a].state = "DEAD"    -> "DEAD" \in of
           [] viewed[a].state = "UNKNOWN" -> of = {}
           [] OTHER                       -> of # {}

\* receive_alertmanager: when a group's end was accepted, the chat is told of it, unless the
\* group fires again.
ResolvedIsTold ==
  \A g \in Group : heard[g] = "resolved" ~> (notice[g] = "resolved" \/ heard[g] = "firing")
=============================================================================
