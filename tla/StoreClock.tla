----------------------------- MODULE StoreClock -----------------------------
(***************************************************************************)
(* Counting alerts by the store's clock: the windows that the pages of the *)
(* console ask for, and the buckets that the API answers with, around a    *)
(* change of the zone's offset.                                            *)
(*                                                                         *)
(* Instants are integers (UTC). The zone (Africa/Casablanca) changes its   *)
(* offset once, at Change, away from midnight: either back by an hour, so  *)
(* that an hour of wall time comes twice, or forward, so that one is       *)
(* missing. A wall time is an integer too; fold tells the two apart.       *)
(***************************************************************************)
EXTENDS Integers, FiniteSets, FiniteSetsExt

CONSTANTS Alert,
          Hour, Day,     \* lengths, in ticks
          Change,        \* the instant at which the offset changes
          Days,          \* the store days that are asked for: 0 .. Days - 1
          MaxBuckets     \* MAX_BUCKETS
StoreClockAssumption ==
  /\ {Hour, Day, Days, MaxBuckets} \subseteq Nat \ {0}
  /\ Change \in Nat /\ Day % Hour = 0 /\ Change % Hour = 0
  /\ Change % Day \in Hour .. Day - 2 * Hour    \* not at midnight
  /\ MaxBuckets > Day \div Hour                 \* a day fits, with the hour that comes twice

VARIABLES turn,       \* "back" or "forward"
          now,
          raised,     \* created_at of an alert, Never when there is none
          decided,    \* decided_at
          ask,        \* the page that was asked for, and its bounds
          loads,      \* the queries that are still to be answered
          answer      \* what they answered
vars == <<turn, now, raised, decided, ask, loads, answer>>

Never == -1
Time == 0 .. Days * Day - 1
Units == {"hour", "day"}
Size(unit) == IF unit = "hour" THEN Hour ELSE Day
NoAsk == [page |-> "none"]
NoAnswer == [rows |-> {}, rowsOf |-> {}, alerts |-> <<>>, alertsOf |-> {}, decisions |-> <<>>,
             ruled |-> {}, breakdown |-> <<>>, raised |-> {}, raisedOf |-> {}]

\* The zone.
Before == IF turn = "back" THEN Hour ELSE 0
After == Hour - Before
Offset(t) == IF t < Change THEN Before ELSE After
Wall(t) == t + Offset(t)
Fold(t) == IF turn = "back" /\ t \in Change .. Change + Hour - 1 THEN 1 ELSE 0
\* An aware datetime as an instant; one in the gap is taken by the offset before it.
Instant(at) ==
  at.wall - (IF at.wall >= Change + (IF at.fold = 0 THEN Hour ELSE 0) THEN After ELSE Before)
Floor(w, size) == w - (w % size)
StoreDay(t) == Wall(t) \div Day

Init ==
  /\ turn \in {"back", "forward"} /\ now = 0
  /\ raised = [a \in Alert |-> Never] /\ decided = [a \in Alert |-> Never]
  /\ ask = NoAsk /\ loads = {} /\ answer = NoAnswer

-----------------------------------------------------------------------------
(* The alerts. *)
\* A page is answered within one tick.
Pass ==
  /\ ask = NoAsk
  /\ now + 1 \in Time /\ now' = now + 1
  /\ UNCHANGED <<turn, raised, decided, ask, loads, answer>>

Raise(a) ==
  /\ raised[a] = Never
  /\ raised' = [raised EXCEPT ![a] = now]
  /\ UNCHANGED <<turn, now, decided, ask, loads, answer>>

\* AlertRepository.decide stamps the decision; one that is taken back has no stamp.
Decide(a) ==
  /\ raised[a] # Never
  /\ decided' \in {[decided EXCEPT ![a] = now], [decided EXCEPT ![a] = Never]}
  /\ UNCHANGED <<turn, now, raised, ask, loads, answer>>

-----------------------------------------------------------------------------
(* The bounds that the pages ask for. *)

\* The list of alerts: whole days by the store's clock.
ResolveBoundary(naive) == naive - Offset(naive - Offset(naive))

\* Bug: the range holds the midnight it ends with.
EndsAtMidnight(from, to) ==
  [start |-> ResolveBoundary(from * Day), end |-> ResolveBoundary((to + 1) * Day)]

ListBounds(from, to) ==
  [start |-> ResolveBoundary(from * Day), end |-> ResolveBoundary((to + 1) * Day) - 1]
PresetBounds(days) == ListBounds(StoreDay(now) + 1 - days, StoreDay(now))

\* The history: today by UTC, or the last days up to the moment.
HistoryBounds(days) ==
  [start |-> IF days = 0 THEN Floor(now, Day) ELSE now - days * Day, end |-> now]

\* The analytics: days with the offset that the store has at noon UTC of each.
Noon(day) == day * Day + Day \div 2
StartInstant(day) == day * Day - Offset(Noon(day))
EndInstant(day) == (day + 1) * Day - 1 - Offset(Noon(day))

\* Bug: hours are counted as days.
CountsDaysOnly(from, to, unit) == to - from + 1

BucketCount(from, to, unit) == (to - from + 1) * (IF unit = "day" THEN 1 ELSE Day \div Hour)

-----------------------------------------------------------------------------
(* The window and the buckets of the API. *)
Truncate(t, unit) == [wall |-> Floor(Wall(t), Size(unit)), fold |-> Fold(t)]

\* Bug: the window ends where its last bucket begins.
StopsAtTheLast(end, unit) == [wall |-> Truncate(end, unit).wall, fold |-> 0]

Stop(end, unit) == [wall |-> Truncate(end, unit).wall + Size(unit), fold |-> 0]
Clamp(begin, stop, unit) ==
  IF (stop.wall - begin.wall) \div Size(unit) > MaxBuckets
  THEN [wall |-> stop.wall - Size(unit) * MaxBuckets, fold |-> 0] ELSE begin
Window(start, end, unit) ==
  [begin |-> Clamp(Truncate(start, unit), Stop(end, unit), unit), stop |-> Stop(end, unit)]

Within(t, window) == t # Never /\ Instant(window.begin) <= t /\ t < Instant(window.stop)
Walk(window, unit) ==
  {w \in window.begin.wall .. window.stop.wall - 1 : (w - window.begin.wall) % Size(unit) = 0}
\* $dateTrunc in the zone of the store.
DateTrunc(t, unit) ==
  IF unit = "hour" THEN Floor(t, Hour) ELSE Max({s \in t - 2 * Day .. t : Wall(s) % Day = 0})
Grouped(stamps, window, unit) ==
  {<<DateTrunc(stamps[a], unit), a>> : a \in {a \in Alert : Within(stamps[a], window)}}
AlertsOverTime(window, unit) == Grouped(raised, window, unit)
DecisionsOverTime(window, unit) == Grouped(decided, window, unit)
\* The rows are filled into the walk. Equal wall times are one bucket.
Fill(rows, window, unit) ==
  [w \in Walk(window, unit) |-> {a \in Alert : \E r \in rows : r[2] = a /\ Wall(r[1]) = w}]

\* The classes of the time from an alert to its decision: under one, two, four hours, over.
Spread(seconds) ==
  [c \in 1 .. 4 |-> {a \in DOMAIN seconds :
     /\ c # 1 => seconds[a] >= (<<0, Hour, 2 * Hour, 4 * Hour>>)[c]
     /\ c # 4 => seconds[a] < (<<Hour, 2 * Hour, 4 * Hour, 0>>)[c]}]

-----------------------------------------------------------------------------
(* The pages. Their queries run at once and are answered in any order. *)
Asks(page, bounds, unit, from, to) ==
  /\ ask = NoAsk
  /\ bounds.start <= bounds.end
  /\ ask' = [page |-> page, start |-> bounds.start, end |-> bounds.end, unit |-> unit,
             from |-> from, to |-> to, window |-> Window(bounds.start, bounds.end, unit)]
  /\ loads' = CASE page = "list" -> {"rows"}
                [] page = "history" -> {"rows", "series"}
                [] OTHER -> {"series", "breakdown"}
  /\ UNCHANGED <<turn, now, raised, decided, answer>>

AskList ==
  \/ \E from, to \in 0 .. Days - 1 :
       from <= to /\ Asks("list", ListBounds(from, to), "day", from, to)
  \/ \E days \in 1 .. 2 :
       Asks("list", PresetBounds(days), "day", StoreDay(now) + 1 - days, StoreDay(now))
AskHistory ==
  \/ Asks("history", HistoryBounds(0), "hour", 0, 0)
  \/ Asks("history", HistoryBounds(1), "day", 0, 0)
AskAnalytics ==
  \E from, to \in 0 .. Days - 1, unit \in Units :
    /\ from <= to
    /\ Asks("analytics", [start |-> StartInstant(from), end |-> EndInstant(to)], unit, from, to)

Known == {a \in Alert : raised[a] # Never}
Ruled == {a \in Alert : Within(decided[a], ask.window)}
CreatedBreakdown == {a \in Alert : Within(raised[a], ask.window)}
DecidedBreakdown == Spread([a \in Ruled |-> decided[a] - raised[a]])
\* alertsOf, rowsOf and raisedOf are history: the alerts that there were at that moment.
Loads(query, found) ==
  /\ query \in loads
  /\ loads' = loads \ {query}
  /\ answer' = found
  /\ UNCHANGED <<turn, now, raised, decided, ask>>

LoadRows ==
  Loads("rows", [answer EXCEPT !.rowsOf = Known,
                   !.rows = {a \in Known : ask.start <= raised[a] /\ raised[a] <= ask.end}])
\* The two aggregations of the series, of which neither reads what the other counts.
LoadSeries ==
  Loads("series", [answer EXCEPT !.alertsOf = Known, !.ruled = Ruled,
                     !.alerts = Fill(AlertsOverTime(ask.window, ask.unit), ask.window, ask.unit),
                     !.decisions = Fill(DecisionsOverTime(ask.window, ask.unit), ask.window,
                                        ask.unit)])
LoadBreakdown ==
  Loads("breakdown", [answer EXCEPT !.raisedOf = Known,
                        !.raised = CreatedBreakdown,
                        !.breakdown = DecidedBreakdown])

Leave ==
  /\ ask # NoAsk /\ loads = {}
  /\ ask' = NoAsk /\ answer' = NoAnswer
  /\ UNCHANGED <<turn, now, raised, decided, loads>>

\* What the history and the analytics add up of the buckets.
Summed(series) == UNION {series[w] : w \in DOMAIN series}
\* The console says that the server has shortened the window.
Shortened == BucketCount(ask.from, ask.to, ask.unit) > Cardinality(DOMAIN answer.alerts)

Next ==
  \/ Pass \/ \E a \in Alert : Raise(a) \/ Decide(a)
  \/ AskList \/ AskHistory \/ AskAnalytics
  \/ LoadRows \/ LoadSeries \/ LoadBreakdown
  \/ Leave

Spec == Init /\ [][Next]_vars

-----------------------------------------------------------------------------
TypeOK ==
  /\ turn \in {"back", "forward"} /\ now \in Time
  /\ raised \in [Alert -> Time \cup {Never}] /\ decided \in [Alert -> Time \cup {Never}]
  /\ loads \subseteq {"rows", "series", "breakdown"}
  /\ answer.rows \cup answer.alertsOf \cup answer.ruled \cup answer.raised \subseteq Alert

Once(series, a) == Cardinality({w \in DOMAIN series : a \in series[w]}) = 1

\* alerts_over_time, _fill_alerts and _walk: every alert of the window is in one bucket, also
\* where an hour of wall time comes twice or is missing; so is every decision, and each is in
\* one class of its duration.
CountedOnce ==
  /\ ask # NoAsk /\ ask.page # "list" /\ "series" \notin loads =>
       /\ \A a \in answer.alertsOf : Within(raised[a], ask.window) => Once(answer.alerts, a)
       /\ \A a \in answer.ruled : Once(answer.decisions, a)
  /\ ask # NoAsk /\ ask.page = "analytics" /\ "breakdown" \notin loads =>
       \A a \in Alert : Cardinality({c \in 1 .. 4 : a \in answer.breakdown[c]}) <= 1

\* _resolve_window and bucketCount: an alert of the days that were asked for is counted, or
\* the page says that the window has been shortened.
ShortenedIsTold ==
  ask # NoAsk /\ ask.page = "analytics" /\ "series" \notin loads =>
    \A a \in answer.alertsOf :
      StoreDay(raised[a]) \in ask.from .. ask.to => a \in Summed(answer.alerts) \/ Shortened

\* created_breakdown counts what the series counts, but for alerts raised in between.
BreakdownAgrees ==
  ask # NoAsk /\ ask.page = "analytics" /\ loads \cap {"series", "breakdown"} = {} =>
    Summed(answer.alerts) \cap answer.raisedOf = answer.raised \cap answer.alertsOf

\* fetchArchiveSummary counts every alert that the history lists.
SummaryCoversList ==
  ask # NoAsk /\ ask.page = "history" /\ loads \cap {"rows", "series"} = {} =>
    answer.rows \cap answer.alertsOf \subseteq Summed(answer.alerts)

\* rangeBounds: the list has the alerts of the store's days, no others.
ListIsByStoreDay ==
  ask # NoAsk /\ ask.page = "list" /\ "rows" \notin loads =>
    answer.rows = {a \in answer.rowsOf : StoreDay(raised[a]) \in ask.from .. ask.to}
=============================================================================
