------------------------------ MODULE Erasure ------------------------------
(***************************************************************************)
(* What the audit log still tells of an account that is erased. An event   *)
(* that names it waits in an outbox before it is in the log. The auth      *)
(* service has the log erase by the column of subjects, then deletes the   *)
(* account and reports it; the operator's tool erases by the actor alone,  *)
(* beside it; a backfill writes the column for rows older than it.         *)
(***************************************************************************)
EXTENDS Naturals, FiniteSetsExt

CONSTANTS
  Events,      \* events that name the account are numbered in the order of their rows
  Legacy,      \* those in the log before it had the column
  ByActor,     \* those whose actor is the account, rather than their target
  Admin,       \* requests to delete the account
  Batch,       \* _BATCH
  MaxFaults    \* bound on what goes wrong

Event == 1 .. Events

ErasureAssumption ==
  /\ {Events, MaxFaults} \subseteq Nat /\ Batch \in Nat \ {0}
  /\ Legacy \subseteq Event /\ ByActor \subseteq Event

VARIABLES
  waiting,   \* committed to an outbox, and not in the log yet
  rows,      \* audit_events
  payload,   \* those of them with event_bytes
  subjects,  \* those of them with the account in subjects
  account,   \* its row, and whether its sessions are cut off
  at,        \* where each request is
  erased,    \* what its ErasePayloads has erased
  missed,    \* history: what the log did not hold, or not under the account, when that ran
  left,      \* history: the same, of the request that deleted the account
  reported,  \* history: what each erasure event of the auth service counts
  twice,     \* history: one counts what another has counted
  tool,      \* the operator's tool, and what it has listed
  filling,   \* the backfill: its cursor and the batch it has read
  faults

vars == <<waiting, rows, payload, subjects, account, at, erased, missed, left, reported,
          twice, tool, filling, faults>>

log   == <<waiting, rows, payload, subjects>>
calls == <<account, at, erased, missed, left, reported, twice>>

TypeOK ==
  /\ waiting \subseteq Event /\ rows \subseteq Event
  /\ payload \subseteq rows /\ subjects \subseteq rows
  /\ account \in {"there", "gone", "cut"}
  /\ at \in [Admin -> {"idle", "erase", "delete", "push"}]
  /\ {erased, missed} \subseteq [Admin -> SUBSET Event]
  /\ left \subseteq Event /\ reported \subseteq Event
  /\ twice \in BOOLEAN
  /\ tool \in [at : {"idle", "listed", "ran"}, listed : SUBSET Event, hit : SUBSET Event]
  /\ filling \in [at : {"idle", "read", "update", "done"}, cursor : 0 .. Events,
     batch : SUBSET Event]
  /\ faults \in 0 .. MaxFaults

NoTool == [at |-> "idle", listed |-> {}, hit |-> {}]
NoFill == [at |-> "idle", cursor |-> 0, batch |-> {}]

Init ==
  /\ waiting = {} /\ rows = Legacy /\ payload = Legacy /\ subjects = {}
  /\ account = "there"
  /\ at = [a \in Admin |-> "idle"]
  /\ erased = [a \in Admin |-> {}] /\ missed = [a \in Admin |-> {}]
  /\ left = {} /\ reported = {} /\ twice = FALSE
  /\ tool = NoTool /\ filling = NoFill
  /\ faults = 0

Fault == faults < MaxFaults /\ faults' = faults + 1

Goes(a, step) == at' = [at EXCEPT ![a] = step]

-----------------------------------------------------------------------------
(* The events *)

\* Something the account does, or that is done to it, as long as a token of it is taken.
Happen(e) ==
  /\ account # "cut" /\ e \notin waiting \cup rows
  /\ \A d \in Event \ Legacy : d < e => d \in waiting \cup rows
  /\ waiting' = waiting \cup {e}
  /\ UNCHANGED <<rows, payload, subjects, calls, tool, filling, faults>>

\* Bug: only the actor of an event is taken for a subject.
SubjectIsActor(e) == e \in ByActor

\* extract_subjects: the actor, and whom the payload names.
NamesIt(e) == e \in Event

\* A drain delivers it: append, with its subjects.
Deliver(e) ==
  /\ e \in waiting
  /\ waiting' = waiting \ {e}
  /\ rows' = rows \cup {e} /\ payload' = payload \cup {e}
  /\ subjects' = IF NamesIt(e) THEN subjects \cup {e} ELSE subjects
  /\ UNCHANGED <<calls, tool, filling, faults>>

-----------------------------------------------------------------------------
(* delete_user *)

\* _load and the guards, in a transaction of their own.
Begin(a) ==
  /\ at[a] = "idle" /\ account = "there"
  /\ Goes(a, "erase")
  /\ UNCHANGED <<log, account, erased, missed, left, reported, twice, tool, filling, faults>>

\* erase_subject_payloads: one UPDATE by the column of subjects.
EraseSubject(a) ==
  /\ at[a] = "erase"
  /\ payload' = payload \ subjects
  /\ \/ /\ Goes(a, "delete")
        /\ erased' = [erased EXCEPT ![a] = payload \cap subjects]
        /\ missed' = [missed EXCEPT ![a] = (Event \ rows) \cup (Legacy \ subjects)]
        /\ UNCHANGED faults
     \/ /\ Goes(a, "idle") /\ Fault       \* AioRpcError, after its deadline
        /\ UNCHANGED <<erased, missed>>
  /\ UNCHANGED <<waiting, rows, subjects, account, left, reported, twice, tool, filling>>

Clears(a) ==
  /\ erased' = [erased EXCEPT ![a] = {}]
  /\ missed' = [missed EXCEPT ![a] = {}]

\* The audit service does not answer, or the auth service dies: nothing more is done.
Abandon(a) ==
  /\ at[a] # "idle" /\ Fault
  /\ Goes(a, "idle") /\ Clears(a)
  /\ UNCHANGED <<log, account, left, reported, twice, tool, filling>>

\* Bug: a request that finds the account deleted reports the erasure too.
ReportsAlways(a) == TRUE

StillThere(a) == account = "there"

\* The second transaction: the account goes together with the report of its erasure, or
\* _load finds it gone.
Delete(a) ==
  /\ at[a] = "delete"
  /\ IF StillThere(a)
     THEN /\ account' = "gone"
          /\ left' = missed[a]
          /\ reported' = reported \cup erased[a]
          /\ twice' = (twice \/ account # "there" \/ reported \cap erased[a] # {})
          /\ Goes(a, "push")
     ELSE Goes(a, "idle") /\ UNCHANGED <<account, left, reported, twice>>
  /\ Clears(a)
  /\ UNCHANGED <<log, tool, filling, faults>>

\* _push_revocations: from now on no token of the account is taken.
Push(a) ==
  /\ at[a] = "push"
  /\ account' = "cut"
  /\ Goes(a, "idle")
  /\ UNCHANGED <<log, erased, missed, left, reported, twice, tool, filling, faults>>

\* Or they run out by themselves.
TokensExpire ==
  /\ account = "gone" /\ \A a \in Admin : at[a] # "push"
  /\ account' = "cut"
  /\ UNCHANGED <<log, at, erased, missed, left, reported, twice, tool, filling, faults>>

-----------------------------------------------------------------------------
(* tools/operator.py erase, and tools/backfill_subjects.py *)

Live == payload \cap ByActor

\* It lists the rows before it takes the chain's lock.
ListLive ==
  /\ tool.at = "idle" /\ Live # {}
  /\ tool' = [tool EXCEPT !.at = "listed", !.listed = Live]
  /\ UNCHANGED <<log, calls, filling, faults>>

\* Under it: an erasure event that counts the list, the UPDATE, and a whole verification.
EraseActor ==
  /\ tool.at = "listed"
  /\ payload' = payload \ ByActor
  /\ tool' = [tool EXCEPT !.at = "ran", !.hit = Live]
  /\ UNCHANGED <<waiting, rows, subjects, calls, filling, faults>>

ToolDies ==
  /\ tool.at = "listed" /\ Fault
  /\ tool' = NoTool
  /\ UNCHANGED <<log, calls, filling>>

Unfilled == {e \in payload \ subjects : e > filling.cursor}

\* Bug: the batch is not ordered, and begins with the latest rows.
LatestBatch == {e \in Unfilled : Cardinality({d \in Unfilled : d >= e}) <= Batch}

\* ORDER BY sequence_number LIMIT _BATCH.
NextBatch == {e \in Unfilled : Cardinality({d \in Unfilled : d <= e}) <= Batch}

\* The next batch of rows without subjects and with a payload, or there is none.
ReadBatch ==
  /\ filling.at \in {"idle", "read"}
  /\ filling' =
       IF Unfilled = {} THEN [filling EXCEPT !.at = "done"]
       ELSE [filling EXCEPT !.at = "update", !.batch = NextBatch]
  /\ UNCHANGED <<log, calls, tool, faults>>

\* Their subjects, in the transaction that has read them; the cursor is its last row.
UpdateBatch ==
  /\ filling.at = "update"
  /\ subjects' = subjects \cup {e \in filling.batch : NamesIt(e)}
  /\ filling' = [at |-> "read", cursor |-> Max(filling.batch), batch |-> {}]
  /\ UNCHANGED <<waiting, rows, payload, calls, tool, faults>>

\* It dies, and is run again from the start.
FillDies ==
  /\ filling.at \in {"read", "update"} /\ Fault
  /\ filling' = NoFill
  /\ UNCHANGED <<log, calls, tool>>

Next ==
  \/ \E e \in Event : Happen(e) \/ Deliver(e)
  \/ \E a \in Admin : Begin(a) \/ EraseSubject(a) \/ Abandon(a) \/ Delete(a) \/ Push(a)
  \/ TokensExpire
  \/ ListLive \/ EraseActor \/ ToolDies
  \/ ReadBatch \/ UpdateBatch \/ FillDies

Spec == Init /\ [][Next]_vars

-----------------------------------------------------------------------------

\* delete_user: what the log still tells of a deleted account was on its way to the log, or
\* not filled in, when the request that deleted it had it erased.
OnlyTheLateIsLeft == account # "there" => payload \subseteq left

\* ErasePayloads by two requests, or again after a lost answer: the account is deleted once,
\* and no payload is counted by two erasure events.
ErasedIsCountedOnce == ~twice

\* backfill_subjects: once it has ended, whatever died and was erased meanwhile, an erasure by
\* subject reaches every older payload.
BackfillReachesAll == filling.at = "done" => Legacy \cap payload \subseteq subjects
=============================================================================
