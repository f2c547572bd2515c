----------------------------- MODULE AuditReads -----------------------------
(***************************************************************************)
(* Reading the audit log. A query for a page of events, for a checkpoint   *)
(* or for a verification appends a record of itself in the transaction in  *)
(* which it has read, and is answered once that is committed; the pages of *)
(* a walk follow one another by sequence number, while services append.    *)
(*                                                                         *)
(* Every statement is a step over what is committed; sequence numbers are  *)
(* taken from an identity, which no rollback gives back.                   *)
(***************************************************************************)
EXTENDS Naturals, FiniteSetsExt

CONSTANTS
  Writer,       \* database sessions of AppendEvent
  Reader,       \* and of the queries, one for each caller
  None,
  Asked,        \* page sizes that are asked for
  DefaultSize,  \* _DEFAULT_PAGE_SIZE
  MaxSize,      \* _MAX_PAGE_SIZE
  MaxSeq        \* bound: values taken from the identity

AuditReadsAssumption ==
  /\ None \notin Writer \cup Reader /\ Writer \cap Reader = {}
  /\ Asked \subseteq Nat /\ {DefaultSize, MaxSize} \subseteq Nat \ {0} /\ MaxSeq \in Nat

VARIABLES
  rows,      \* audit_events: what is committed, with who appended it
  next,      \* next value of the identity
  lock,      \* holder of the advisory transaction lock
  pc,        \* where each session is
  inserted,  \* the row it has inserted and not committed
  page,      \* the rows a query has read
  full,      \* whether they fill the page
  token,     \* the page token of a caller
  filter,    \* whether it asks for the events of services only
  seen,      \* the rows a caller has been given
  through,   \* history: the sequence number up to which its pages have passed
  ahead      \* history: the last one committed when its query ran

vars == <<rows, next, lock, pc, inserted, page, full, token, filter, seen, through, ahead>>

Session == Writer \cup Reader

Row == [seq : 1 .. MaxSeq, by : Session, shown : Nat]

TypeOK ==
  /\ rows \subseteq Row
  /\ next \in 1 .. MaxSeq + 1
  /\ lock \in Session \cup {None}
  /\ pc \in [Session -> {"idle", "lock", "insert", "commit", "reply"}]
  /\ inserted \in [Session -> Row \cup {None}]
  /\ page \in [Reader -> SUBSET Row] /\ full \in [Reader -> BOOLEAN]
  /\ \A f \in {token, through, ahead} : f \in [Reader -> 0 .. MaxSeq]
  /\ filter \in [Reader -> BOOLEAN]
  /\ seen \in [Reader -> SUBSET (1 .. MaxSeq)]

Init ==
  /\ rows = {} /\ next = 1 /\ lock = None
  /\ pc = [s \in Session |-> "idle"]
  /\ inserted = [s \in Session |-> None]
  /\ page = [r \in Reader |-> {}] /\ full = [r \in Reader |-> FALSE]
  /\ token = [r \in Reader |-> 0]
  /\ filter \in [Reader -> BOOLEAN]
  /\ seen = [r \in Reader |-> {}]
  /\ through = [r \in Reader |-> 0] /\ ahead = [r \in Reader |-> 0]

Goes(s, step) == pc' = [pc EXCEPT ![s] = step]

Last(R) == IF R = {} THEN 0 ELSE Max({q.seq : q \in R})

-----------------------------------------------------------------------------
(* The queries *)

Size(n) == IF n = 0 THEN DefaultSize ELSE Min({n, MaxSize})

Matching(r) == {q \in rows : q.seq > token[r] /\ (filter[r] => q.by \in Writer)}

\* ORDER BY sequence_number LIMIT n.
FirstOf(r, n) ==
  {q \in Matching(r) : Cardinality({p \in Matching(r) : p.seq <= q.seq}) <= n}

\* QueryEvents: the page after the token.
Query(r, n) ==
  /\ pc[r] = "idle"
  /\ page' = [page EXCEPT ![r] = FirstOf(r, Size(n))]
  /\ full' = [full EXCEPT ![r] = Cardinality(Matching(r)) >= Size(n)]
  /\ ahead' = [ahead EXCEPT ![r] = Last(rows)]
  /\ Goes(r, "lock")
  /\ UNCHANGED <<rows, next, lock, inserted, token, filter, seen, through>>

\* GetCheckpoint and VerifyChain, which show no events: their records are counted as 0.
Inspect(r) ==
  /\ pc[r] = "idle"
  /\ Goes(r, "lock")
  /\ UNCHANGED <<rows, next, lock, inserted, page, full, token, filter, seen, through, ahead>>

\* The reply, whose token is that of the last row if the page is full; a caller that has
\* been given the last page begins anew from there.
Reply(r) ==
  LET passed == IF full[r] THEN Last(page[r]) ELSE Max({ahead[r], through[r]}) IN
  /\ pc[r] = "reply"
  /\ seen' = [seen EXCEPT ![r] = @ \cup {q.seq : q \in page[r]}]
  /\ token' = [token EXCEPT ![r] = Max({@, Last(page[r])})]
  /\ through' = [through EXCEPT ![r] = Max({@, passed})]
  /\ page' = [page EXCEPT ![r] = {}] /\ full' = [full EXCEPT ![r] = FALSE]
  /\ ahead' = [ahead EXCEPT ![r] = 0]
  /\ Goes(r, "idle")
  /\ UNCHANGED <<rows, next, lock, inserted, filter>>

-----------------------------------------------------------------------------
(* append, of a service's event or of the record of a query *)

AppendEvent(w) ==
  /\ pc[w] = "idle"
  /\ Goes(w, "lock")
  /\ UNCHANGED <<rows, next, lock, inserted, page, full, token, filter, seen, through, ahead>>

\* Bug: appends run side by side.
NobodyWaits == TRUE

LockIsFree == lock = None

\* pg_advisory_xact_lock.
TakeLock(s) ==
  /\ pc[s] = "lock" /\ LockIsFree
  /\ lock' = s
  /\ Goes(s, "insert")
  /\ UNCHANGED <<rows, next, inserted, page, full, token, filter, seen, through, ahead>>

Insert(s) ==
  /\ pc[s] = "insert" /\ next <= MaxSeq
  /\ next' = next + 1
  /\ inserted' = [inserted EXCEPT ![s] =
       [seq |-> next, by |-> s, shown |-> IF s \in Reader THEN Cardinality(page[s]) ELSE 0]]
  /\ Goes(s, "commit")
  /\ UNCHANGED <<rows, lock, page, full, token, filter, seen, through, ahead>>

\* Ends the transaction of s, which releases the lock.
Release(s) ==
  /\ lock' = IF lock = s THEN None ELSE lock
  /\ inserted' = [inserted EXCEPT ![s] = None]

Commit(s) ==
  /\ pc[s] = "commit"
  /\ rows' = rows \cup {inserted[s]}
  /\ Release(s)
  /\ Goes(s, IF s \in Reader THEN "reply" ELSE "idle")
  /\ UNCHANGED <<next, page, full, token, filter, seen, through, ahead>>

\* Bug: a query is answered although its record could not be written.
AnswersAnyway(s) ==
  /\ Goes(s, IF s \in Reader THEN "reply" ELSE "idle")
  /\ UNCHANGED <<page, full, ahead>>

Fails(s) ==
  /\ Goes(s, "idle")
  /\ page' = [r \in Reader |-> IF r = s THEN {} ELSE page[r]]
  /\ full' = [r \in Reader |-> full[r] /\ r # s]
  /\ ahead' = [r \in Reader |-> IF r = s THEN 0 ELSE ahead[r]]

\* The store fails, or the pseudonym key is missing: the transaction is rolled back and the
\* caller gets an error. An answer that is lost on its way ends the same.
Abort(s) ==
  /\ pc[s] # "idle"
  /\ Release(s)
  /\ Fails(s)
  /\ UNCHANGED <<rows, next, token, filter, seen, through>>

Next ==
  \/ \E r \in Reader : \/ \E n \in Asked : Query(r, n)
                       \/ Inspect(r) \/ Reply(r)
  \/ \E w \in Writer : AppendEvent(w)
  \/ \E s \in Session : TakeLock(s) \/ Insert(s) \/ Commit(s) \/ Abort(s)

Spec == Init /\ [][Next]_vars

-----------------------------------------------------------------------------

\* What the log has a record of: for each query of the caller, as many events as its record
\* says it was shown.
Recorded(r) == UNION {{q} \X (1 .. q.shown) : q \in {p \in rows : p.by = r}}

\* _record_access: of everything a caller has been shown, the log itself holds a record.
AnswersAreRecorded == \A r \in Reader : Cardinality(seen[r]) <= Cardinality(Recorded(r))

\* query and append: sequence numbers become visible in their order, so that a walk by page
\* tokens passes over no event, however many are appended and rolled back meanwhile.
WalksMissNothing ==
  \A r \in Reader : \A q \in rows :
    q.seq <= through[r] /\ (filter[r] => q.by \in Writer) => q.seq \in seen[r]
=============================================================================
