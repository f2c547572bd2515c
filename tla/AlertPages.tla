----------------------------- MODULE AlertPages -----------------------------
(***************************************************************************)
(* Reading the list of alerts page by page, newest first, while alerts     *)
(* come, go and change: the cursor that one page hands to the next, the    *)
(* pages and the count in the API's cache, and the console that walks      *)
(* them.                                                                   *)
(***************************************************************************)
EXTENDS Integers, Sequences, FiniteSets, SequencesExt

CONSTANTS Alerts,       \* the alerts, as their _id: 1 .. n
          Born(_),      \* what stamps them when they are created
          Counted,      \* whether the console asks for their number, too
          Limit,        \* rows of a page
          MaxChanges    \* bound on changes of the alerts
AlertPagesAssumption ==
  /\ Alerts \subseteq Nat \ {0} /\ IsFiniteSet(Alerts)
  /\ \A a \in Alerts : Born(a) \in Nat \ {0}
  /\ Counted \in BOOLEAN
  /\ Limit \in Nat \ {0} /\ MaxChanges \in Nat

VARIABLES order,      \* what the list is sorted by: created_at or decided_at
          here,       \* the alerts in the database
          decided,    \* their decided_at, 0 when there is none
          moved,      \* history: the change that last touched an alert
          changes,    \* how many changes there were
          owed,       \* caches that the last change has still to delete
          cached,     \* the pages and the count in Redis
          loading,    \* a page that was loaded and is not yet stored
          pages,      \* what the console has of the list
          total       \* and of its count
vars == <<order, here, decided, moved, changes, owed, cached, loading, pages, total>>

Start == <<0, 0>>                          \* no cursor
End == <<-1, -1>>                          \* next_cursor is NoAlert
NoAlert == [at |-> -1]

Init ==
  /\ order \in {"created_at", "decided_at"}
  /\ here \in {s \in SUBSET Alerts : Cardinality(s) + 1 >= Cardinality(Alerts)}
  /\ decided = [a \in Alerts |-> IF order = "decided_at" /\ a \in here THEN Born(a) ELSE 0]
  /\ moved = [a \in Alerts |-> 0] /\ changes = 0 /\ owed = {}
  /\ cached = {} /\ loading = NoAlert /\ pages = <<>> /\ total = NoAlert

-----------------------------------------------------------------------------
(* The changes. Each is one write, after which its caches are deleted. *)
Change(a) ==
  /\ changes < MaxChanges
  /\ changes' = changes + 1
  /\ moved' = [moved EXCEPT ![a] = changes + 1]
  /\ owed' = {"list", "count"}
  /\ UNCHANGED <<order, cached, loading, pages, total>>

\* create stamps the alert before it inserts it.
Create(a) ==
  /\ a \notin here /\ moved[a] = 0
  /\ here' = here \cup {a}
  /\ UNCHANGED decided /\ Change(a)

Delete(a) ==
  /\ a \in here
  /\ here' = here \ {a}
  /\ UNCHANGED decided /\ Change(a)

\* A decision is stamped as it is made, by the clock of its replica; or it is taken back.
Decide(a) ==
  /\ a \in here
  /\ \E at \in {0} \cup {Born(b) : b \in Alerts} :
       at # decided[a] /\ decided' = [decided EXCEPT ![a] = at]
  /\ UNCHANGED here /\ Change(a)

\* invalidate_prefix of the lists, and then of the counts.
Invalidate ==
  /\ owed # {}
  /\ LET kind == IF "list" \in owed THEN "list" ELSE "count"
     IN /\ cached' = {c \in cached : c.kind # kind}
        /\ owed' = owed \ {kind}
  /\ UNCHANGED <<order, here, decided, moved, changes, loading, pages, total>>

Expire ==
  /\ \E c \in cached : cached' = cached \ {c}
  /\ UNCHANGED <<order, here, decided, moved, changes, owed, loading, pages, total>>

-----------------------------------------------------------------------------
(* The query: a filter, the order with _id as the tie breaker, and a limit. *)
Key(a) == IF order = "decided_at" THEN decided[a] ELSE Born(a)
Listed == {a \in here : order = "decided_at" => decided[a] # 0}

\* Bug: the clause compares stamps alone.
AfterByStamp(a, cursor) == cursor = Start \/ Key(a) < cursor[1]

\* The clause of a cursor: what comes after it.
After(a, cursor) ==
  \/ cursor = Start
  \/ Key(a) < cursor[1]
  \/ (Key(a) = cursor[1] /\ a < cursor[2])

Newer(a, b) == Key(a) > Key(b) \/ (Key(a) = Key(b) /\ a > b)
Found(cursor) == SetToSortSeq({a \in Listed : After(a, cursor)}, Newer)

\* Bug: the cursor is the first row of the next page.
CursorOfTheNext(found) ==
  IF Len(found) > Limit THEN <<Key(found[Limit + 1]), found[Limit + 1]>> ELSE End

\* encode_cursor of the last row, if there are more than the limit.
NextCursor(found) ==
  IF Len(found) > Limit THEN <<Key(found[Limit]), found[Limit]>> ELSE End
FirstOf(found) == {found[i] : i \in {i \in DOMAIN found : i <= Limit}}
Page(cursor) ==
  LET found == Found(cursor)
  IN [kind |-> "list", of |-> cursor, at |-> changes, next |-> NextCursor(found),
      items |-> SelectSeq(found, LAMBDA a : a \in FirstOf(found))]
Count == [kind |-> "count", of |-> Start, at |-> changes, items |-> Found(Start), next |-> End]

-----------------------------------------------------------------------------
(* The console fetches the next page, or the count, through the cache. *)
Wanted == IF pages = <<>> THEN Start ELSE Last(pages).next
Shows(answer) ==
  IF answer.kind = "list"
  THEN pages' = Append(pages, answer) /\ UNCHANGED total
  ELSE total' = answer /\ UNCHANGED pages

Asks(kind, cursor) ==
  /\ loading = NoAlert
  /\ \/ /\ \E c \in cached : c.kind = kind /\ c.of = cursor /\ Shows(c)
        /\ UNCHANGED loading
     \/ /\ \A c \in cached : c.kind # kind \/ c.of # cursor
        /\ loading' = IF kind = "list" THEN Page(cursor) ELSE Count
        /\ UNCHANGED <<pages, total>>
  /\ UNCHANGED <<order, here, decided, moved, changes, owed, cached>>

FetchNextPage == Wanted # End /\ Asks("list", Wanted)
FetchCount == Counted /\ total = NoAlert /\ Asks("count", Start)

\* What was loaded is stored, whatever has become of it meanwhile.
Store ==
  /\ loading # NoAlert
  /\ cached' = {c \in cached : c.kind # loading.kind \/ c.of # loading.of} \cup {loading}
  /\ Shows(loading)
  /\ loading' = NoAlert
  /\ UNCHANGED <<order, here, decided, moved, changes, owed>>

\* The console starts again at the first page.
Refetch ==
  /\ loading = NoAlert /\ pages # <<>>
  /\ pages' = <<>> /\ total' = NoAlert
  /\ UNCHANGED <<order, here, decided, moved, changes, owed, cached, loading>>

Next ==
  \/ \E a \in Alerts : Create(a) \/ Delete(a) \/ Decide(a)
  \/ Invalidate \/ Expire
  \/ FetchNextPage \/ FetchCount \/ Store \/ Refetch

Spec == Init /\ [][Next]_vars

-----------------------------------------------------------------------------
TypeOK ==
  /\ order \in {"created_at", "decided_at"}
  /\ here \subseteq Alerts /\ decided \in [Alerts -> Nat]
  /\ moved \in [Alerts -> 0 .. changes] /\ changes \in 0 .. MaxChanges
  /\ owed \subseteq {"list", "count"}
  /\ \A c \in cached \cup (IF loading = NoAlert THEN {} ELSE {loading}) :
       c.kind \in {"list", "count"} /\ Range(c.items) \subseteq Alerts

Rows == FlattenSeq([i \in DOMAIN pages |-> pages[i].items])
\* Nothing has touched the alert since the oldest of these answers was loaded.
Settled(a, answers) == \A x \in answers : moved[a] <= x.at

\* list_page and encode_cursor: who walks all pages sees every alert of the list once, and
\* no other, of those that were left alone meanwhile; however old the cached pages are.
WalkIsComplete ==
  pages # <<>> /\ Wanted = End =>
    \A a \in Alerts : Settled(a, Range(pages)) =>
      Cardinality({i \in DOMAIN Rows : Rows[i] = a}) = IF a \in Listed THEN 1 ELSE 0

\* The rows are in order, newest first, over the bounds of the pages.
WalkIsInOrder ==
  \A i, j \in DOMAIN Rows :
    i < j /\ Settled(Rows[i], Range(pages)) /\ Settled(Rows[j], Range(pages)) =>
      Newer(Rows[i], Rows[j])

\* count: it is the number of rows that a walk finds, if nothing has changed meanwhile.
CountAgrees ==
  pages # <<>> /\ Wanted = End /\ total # NoAlert
    /\ (\A a \in Alerts : Settled(a, Range(pages) \cup {total})) =>
      Len(total.items) = Len(Rows)
=============================================================================
