----------------------------- MODULE AlertPost -----------------------------
(***************************************************************************)
(* What reaches the chat of one alert: the snapshot with its text, the     *)
(* prompt with its buttons and its clip, and the edits that show what was  *)
(* decided. The AI service still writes the clip and the annotated         *)
(* snapshot while the notification workers post them. When an intent is    *)
(* sent, retried or requeued is Delivery's matter, in what order decisions *)
(* are shown is that of Decisions.                                         *)
(***************************************************************************)
EXTENDS Naturals, Sequences, FiniteSets

CONSTANTS
  Task,         \* send_alert_task messages of the intent: two when a sweep requeued it
  MaxRetries,   \* CELERY_TASK_MAX_RETRIES
  Pictured,     \* the alert has a snapshot
  Filmed,       \* the alert has a clip
  MaxDecisions, \* bound on what is decided, and taken back
  MaxFaults     \* bound on what goes wrong

AlertPostAssumption ==
  /\ {Pictured, Filmed} \subseteq BOOLEAN
  /\ {MaxRetries, MaxDecisions, MaxFaults} \subseteq Nat

VARIABLES
  clip,      \* the file of the clip
  annotated, \* the file of the annotated snapshot
  keyed,     \* the key of the buttons can be read
  chat,      \* the messages of the alert, as they are now
  intent,    \* its document: status, telegram_snapshot and telegram, 0 if none
  shownAt,   \* telegram_shown_at
  task,      \* what each task is doing
  notices,   \* apply_decision_task messages in the broker
  edit,      \* the edit that is about to be made
  doubled,   \* history: two tasks at work, a post not recorded, or another key
  late,      \* history: a task went on without its clip, in a last attempt or as it could not
             \* be read
  faults

media == <<clip, annotated, keyed>>
vars  == <<clip, annotated, keyed, chat, intent, shownAt, task, notices, edit, doubled, late,
           faults>>

Kind    == {"video", "photo", "text"}
Message == [kind : Kind, text : BOOLEAN, prompt : BOOLEAN, outcome : 0 .. MaxDecisions,
            buttons : BOOLEAN]
Notice  == [at : 1 .. MaxDecisions, decided : BOOLEAN]

\* A task keeps the telegram_snapshot that it read, whether the chat has the text, and which
\* kinds of message it could not read the files of.
NewTask == [at |-> "queued", retries |-> 0, snapshot |-> FALSE, buttons |-> FALSE, cover |-> "none",
            unread |-> {}, sent |-> 0]

TypeOK ==
  /\ clip \in {"missing", "ready", "oversized", "failed"}
  /\ annotated \in {"missing", "torn", "ready", "failed"} /\ keyed \in BOOLEAN
  /\ chat \in Seq(Message)
  /\ intent.status \in {"WAITING", "SENDING", "SENT", "DEAD"}
  /\ {intent.snapshot, intent.telegram} \subseteq 0 .. Len(chat)
  /\ intent.snapshot # 0 => chat[intent.snapshot].kind = "photo"
  /\ shownAt \in 0 .. MaxDecisions
  /\ task \in [Task -> [at : {"queued", "loaded", "awaits", "dispatches", "snaps", "marks",
                              "posts", "records", "done"},
                        retries : 0 .. MaxRetries, snapshot : BOOLEAN, buttons : BOOLEAN,
                        cover : {"none", "plain", "annotated"},
                        unread : SUBSET {"video", "photo"}, sent : 0 .. Len(chat)]]
  /\ notices \subseteq Notice
  /\ Cardinality(edit) =< 1
  /\ \A e \in edit : e \in [of : DOMAIN chat, text : BOOLEAN, notice : Notice]
  /\ doubled \in BOOLEAN /\ late \in BOOLEAN /\ faults \in 0 .. MaxFaults

Init ==
  /\ clip = "missing" /\ annotated = "missing" /\ keyed = TRUE
  /\ chat = <<>>
  /\ intent = [status |-> "WAITING", snapshot |-> 0, telegram |-> 0] /\ shownAt = 0
  /\ task = [t \in Task |-> NewTask]
  /\ notices = {} /\ edit = {}
  /\ doubled = FALSE /\ late = FALSE /\ faults = 0

Fault == faults < MaxFaults /\ faults' = faults + 1

Goes(t, at) == task' = [task EXCEPT ![t].at = at]

Done(t) == task' = [task EXCEPT ![t] = [NewTask EXCEPT !.at = "done"]]

-----------------------------------------------------------------------------
(* The AI service. *)

\* write_clip: the file has its name when it is complete.
ClipWritten ==
  /\ Filmed /\ clip = "missing"
  /\ clip' \in {"ready", "oversized", "failed"}
  /\ UNCHANGED <<annotated, keyed, chat, intent, shownAt, task, notices, edit, doubled, late,
     faults>>

\* draw_annotated writes the file under its name.
AnnotatedWritten ==
  /\ Pictured
  /\ annotated' \in CASE annotated = "missing" -> {"torn", "failed"}
                      [] annotated = "torn"    -> {"ready"}
                      [] OTHER                 -> {}
  /\ UNCHANGED <<clip, keyed, chat, intent, shownAt, task, notices, edit, doubled, late, faults>>

-----------------------------------------------------------------------------
(* _deliver, as far as the chat is concerned *)

AtWork(t) == task[t].at \notin {"queued", "done"}

\* Bug: the snapshot that was posted is forgotten.
PostedNever == FALSE

\* telegram_snapshot, as it was read before the claim.
Posted == intent.snapshot # 0

Load(t) ==
  /\ task[t].at = "queued"
  /\ IF intent.status = "SENT"
     THEN Done(t)
     ELSE task' = [task EXCEPT ![t].at = "loaded", ![t].snapshot = Posted]
  /\ doubled' = (doubled \/ \E other \in Task \ {t} : AtWork(other))
  /\ UNCHANGED <<media, chat, intent, shownAt, notices, edit, late, faults>>

\* mark_sending; nothing stops a second task that loaded the intent meanwhile.
Claim(t) ==
  /\ task[t].at = "loaded"
  /\ IF intent.status \in {"SENT", "DEAD"}
     THEN Done(t) /\ UNCHANGED intent
     ELSE Goes(t, "awaits") /\ intent' = [intent EXCEPT !.status = "SENDING"]
  /\ UNCHANGED <<media, chat, shownAt, notices, edit, doubled, late, faults>>

\* The attempt is over and another is to come.
Again(t) ==
  /\ task' = [task EXCEPT ![t] = [NewTask EXCEPT !.retries = task[t].retries + 1]]
  /\ intent' = [intent EXCEPT !.status = "WAITING"]

Last(t) == task[t].retries = MaxRetries

Resolved(file) == file \in {"ready", "oversized", "torn"}

\* Bug: a clip that is not there is not waited for.
AwaitsNothing(t) ==
  /\ task[t].at = "awaits"
  /\ Goes(t, "dispatches")
  /\ UNCHANGED <<media, chat, intent, shownAt, notices, edit, doubled, late, faults>>

\* _require_clip: the clip is there, or is not in CLIP_WAIT_SEC.
Awaits(t) ==
  /\ task[t].at = "awaits"
  /\ \/ /\ ~Filmed \/ Resolved(clip) \/ Last(t)
        /\ Goes(t, "dispatches")
        /\ late' = (late \/ (Filmed /\ ~Resolved(clip)))
        /\ UNCHANGED intent
     \/ Filmed /\ ~Resolved(clip) /\ ~Last(t) /\ Again(t) /\ UNCHANGED late
  /\ UNCHANGED <<media, chat, shownAt, notices, edit, doubled, faults>>

\* _keyboard_for, and prefer_annotated.
Dispatches(t) ==
  /\ task[t].at = "dispatches"
  /\ task' = [task EXCEPT
       ![t].at = IF keyed /\ Pictured /\ ~task[t].snapshot THEN "snaps" ELSE "posts",
       ![t].buttons = keyed,
       ![t].cover = IF ~Pictured THEN "none"
                    ELSE IF Resolved(annotated) THEN "annotated" ELSE "plain"]
  /\ UNCHANGED <<media, chat, intent, shownAt, notices, edit, doubled, late, faults>>

\* Telegram cannot read a picture that is not complete.
Torn(t) == task[t].cover = "annotated" /\ annotated = "torn"

\* The posts of a step: what Telegram may do with a message, and where the task goes on.
Sends(t, message, next) ==
  /\ chat' = Append(chat, message)
  /\ task' = [task EXCEPT ![t].at = next, ![t].sent = Len(chat) + 1]

Dead(t) ==
  /\ Done(t)
  /\ intent' = [intent EXCEPT !.status = "DEAD"]

\* send_photo with the text.
Snapshot == [kind |-> "photo", text |-> TRUE, prompt |-> FALSE, outcome |-> 0, buttons |-> FALSE]

Snaps(t) ==
  /\ task[t].at = "snaps" /\ ~Torn(t)
  /\ Sends(t, Snapshot, "marks")
  /\ UNCHANGED <<media, intent, shownAt, notices, edit, doubled, late, faults>>

\* The file cannot be read.
SnapsNothing(t) ==
  /\ task[t].at = "snaps" /\ Fault
  /\ Goes(t, "posts")
  /\ UNCHANGED <<media, chat, intent, shownAt, notices, edit, doubled, late>>

\* mark_snapshot_sent.
Marks(t) ==
  /\ task[t].at = "marks"
  /\ intent' = [intent EXCEPT !.snapshot = task[t].sent]
  /\ task' = [task EXCEPT ![t].at = "posts", ![t].snapshot = TRUE, ![t].sent = 0]
  /\ UNCHANGED <<media, chat, shownAt, notices, edit, doubled, late, faults>>

\* The clip if it is there and not too large; without buttons the snapshot; or the text alone.
\* What could not be read is left out.
KindOf(t) ==
  IF Filmed /\ clip = "ready" /\ "video" \notin task[t].unread THEN "video"
  ELSE IF ~task[t].buttons /\ Pictured /\ "photo" \notin task[t].unread THEN "photo"
  ELSE "text"

\* The clip, its cover or the snapshot cannot be read: the alert goes on without them.
Unread(t) ==
  /\ task[t].at = "posts" /\ KindOf(t) # "text" /\ Fault
  /\ task' = [task EXCEPT ![t].unread = @ \cup {KindOf(t)}]
  /\ late' = (late \/ KindOf(t) = "video")
  /\ UNCHANGED <<media, chat, intent, shownAt, notices, edit, doubled>>

\* The prompt, under the text unless the snapshot has it.
Prompt(t) ==
  [kind |-> KindOf(t), text |-> ~task[t].buttons \/ ~task[t].snapshot,
   prompt |-> task[t].buttons, outcome |-> 0, buttons |-> task[t].buttons]

Pictures(t) == Pictured /\ KindOf(t) # "text"

Posts(t) ==
  /\ task[t].at = "posts" /\ ~(Pictures(t) /\ Torn(t))
  /\ Sends(t, Prompt(t), "records")
  /\ UNCHANGED <<media, intent, shownAt, notices, edit, doubled, late, faults>>

\* A message that Telegram does not accept is not accepted later.
Refused(t) ==
  /\ \/ task[t].at = "snaps" /\ Torn(t)
     \/ task[t].at = "posts" /\ Pictures(t) /\ Torn(t)
  /\ Dead(t)
  /\ UNCHANGED <<media, chat, shownAt, notices, edit, doubled, late, faults>>

\* 429 or a server error: the post was not made, and there is another attempt or none.
Transient(t) ==
  /\ task[t].at \in {"snaps", "posts"} /\ Fault
  /\ IF Last(t) THEN Dead(t) ELSE Again(t)
  /\ UNCHANGED <<media, chat, shownAt, notices, edit, doubled, late>>

\* No answer: the post may have been made, and the intent is buffered and released.
Unreachable(t) ==
  /\ task[t].at \in {"snaps", "posts"} /\ Fault
  /\ \/ UNCHANGED <<chat, doubled>>
     \/ /\ chat' = Append(chat, IF task[t].at = "snaps" THEN Snapshot ELSE Prompt(t))
        /\ doubled' = TRUE
  /\ task' = [task EXCEPT ![t] = NewTask]
  /\ intent' = [intent EXCEPT !.status = "WAITING"]
  /\ UNCHANGED <<media, shownAt, notices, edit, late>>

\* mark_sent.
Records(t) ==
  /\ task[t].at = "records"
  /\ intent' = [intent EXCEPT !.status = "SENT", !.telegram = task[t].sent]
  /\ Done(t)
  /\ UNCHANGED <<media, chat, shownAt, notices, edit, doubled, late, faults>>

\* The worker dies, and the message is delivered again.
Crash(t) ==
  /\ AtWork(t) /\ Fault
  /\ task' = [task EXCEPT ![t] = [NewTask EXCEPT !.retries = task[t].retries]]
  /\ doubled' = (doubled \/ task[t].at \in {"marks", "records"})
  /\ UNCHANGED <<media, chat, intent, shownAt, notices, edit, late>>

\* The file of the key goes or comes back, for the workers that start then.
KeyChanges ==
  /\ Fault
  /\ keyed' = ~keyed /\ doubled' = TRUE
  /\ UNCHANGED <<clip, annotated, chat, intent, shownAt, task, notices, edit, late>>

-----------------------------------------------------------------------------
(* _show_decision *)

Decides ==
  /\ \E n \in Notice : /\ \A m \in notices : m.at < n.at
                       /\ n.at > shownAt
                       /\ notices' = notices \cup {n}
  /\ UNCHANGED <<media, chat, intent, shownAt, task, edit, doubled, late, faults>>

\* Bug: the edit leaves the text out.
EditedBare == FALSE

\* The edit keeps the text unless the snapshot has it.
Edited == intent.snapshot = 0

\* The message there is, if any, is claimed for the notice.
ClaimDisplay(n) ==
  /\ n \in notices /\ edit = {}
  /\ notices' = notices \ {n}
  /\ IF intent.telegram # 0 /\ shownAt =< n.at
     THEN /\ shownAt' = n.at
          /\ edit' = {[of |-> intent.telegram, text |-> Edited, notice |-> n]}
     ELSE UNCHANGED <<shownAt, edit>>
  /\ UNCHANGED <<media, chat, intent, task, doubled, late, faults>>

\* edit_message, by the kind that was recorded; without the key there are no buttons, and
\* the text comes in place of the prompt.
Edits(e) ==
  /\ e \in edit
  /\ edit' = {}
  /\ chat' = [chat EXCEPT ![e.of] =
       [kind |-> @.kind,
        text |-> e.text \/ (~e.notice.decided /\ ~keyed),
        prompt |-> ~e.notice.decided /\ keyed,
        outcome |-> IF e.notice.decided THEN e.notice.at ELSE 0,
        buttons |-> ~e.notice.decided /\ keyed]]
  /\ UNCHANGED <<media, intent, shownAt, task, notices, doubled, late, faults>>

\* Telegram is not reached: the task comes again.
EditAgain(e) ==
  /\ e \in edit /\ Fault
  /\ edit' = {} /\ notices' = notices \cup {e.notice}
  /\ UNCHANGED <<media, chat, intent, shownAt, task, doubled, late>>

-----------------------------------------------------------------------------

Deliver(t) ==
  \/ Load(t) \/ Claim(t) \/ Awaits(t) \/ Dispatches(t) \/ Snaps(t) \/ SnapsNothing(t) \/ Marks(t)
  \/ Unread(t) \/ Posts(t) \/ Refused(t) \/ Transient(t) \/ Unreachable(t) \/ Records(t) \/ Crash(t)

Show == \/ \E n \in notices : ClaimDisplay(n)
        \/ \E e \in edit : Edits(e) \/ EditAgain(e)

Next == \/ ClipWritten \/ AnnotatedWritten \/ KeyChanges
        \/ \E t \in Task : Deliver(t)
        \/ Decides \/ Show

Spec == Init /\ [][Next]_vars

-----------------------------------------------------------------------------
(* Properties. *)

Messages == {chat[k] : k \in DOMAIN chat}

\* _dispatch and _show_decision: once an alert is SENT the chat tells what it is about, in
\* the snapshot or in the message, whatever was retried, posted twice or edited since.
StaysTold == intent.status = "SENT" => \E m \in Messages : m.text

\* mark_snapshot_sent: retries tell it once and ask once, unless two tasks were at work at
\* once, a post was not recorded or the key of the buttons came or went.
ToldOnce ==
  doubled \/ \A j, k \in DOMAIN chat : j # k => /\ ~(chat[j].text /\ chat[k].text)
                                                /\ ~(chat[j].prompt /\ chat[k].prompt)

\* _require_clip: an alert with a clip goes out without it only in a last attempt, when the
\* clip or its cover could not be read, or when the clip is too large.
ClipIsAwaited ==
  intent.status = "SENT" /\ Filmed /\ intent.telegram # 0 =>
    chat[intent.telegram].kind = "video" \/ late \/ clip = "oversized"
=============================================================================
