----------------------------- MODULE AuditChain -----------------------------
(***************************************************************************)
(* The audit service over PostgreSQL: concurrent appends of hash-chained   *)
(* events under an advisory lock, signed checkpoints of the tail, retention *)
(* that seals the oldest events into a segment and drops them, payload     *)
(* erasure, and verification of the chain.                                 *)
(*                                                                         *)
(* Transactions are READ COMMITTED: every statement is one atomic step     *)
(* over what is committed at that moment, and other transactions commit    *)
(* between two statements.  Hashes do not collide, so a chain hash is the  *)
(* sequence of the events hashed into it and the genesis hash is <<>>.     *)
(***************************************************************************)
EXTENDS Naturals, Sequences, FiniteSets
LOCAL INSTANCE TLC

CONSTANTS
  Event,        \* event_id of the events sent by the platform's services
  Personal,     \* those whose subjects hold the one a caller erases
  Server,       \* database sessions of the audit server
  Operator,     \* the owner session of tools/operator.py, run one at a time
  None,
  Backdate,     \* max_backdate_seconds, in ticks of the clock
  Interval,     \* segment_interval_days, in ticks
  Retention,    \* retention_days, in ticks
  MaxRows,      \* retention_max_rows_per_run
  MaxClock,     \* bound: the clock stops
  Ranges,       \* the first sequence numbers verifications ask for; 0 for the whole chain
  MaxSeq        \* bound: values taken from the identity of audit_events

\* A chain hash, as the events hashed into it.
Hash == UNION {[1..n -> Event] : n \in 0..MaxSeq}

ASSUME AuditAssumption ==
  /\ Operator \notin Server /\ None \notin Server \cup {Operator} /\ Personal \subseteq Event
  /\ None \notin Event /\ None \notin Hash
  /\ (Event \cup {None}) \cap {"checkpoint", "seal", "verify"} = {}
  /\ {Backdate, Interval, Retention, MaxRows, MaxClock, MaxSeq} \subseteq Nat
  /\ Ranges \subseteq 0..MaxSeq
  /\ Interval > 0 /\ MaxRows > 0
  /\ Backdate < Retention   \* 7 days against 365

VARIABLES
  rows,         \* audit_events: the committed rows
  segments,     \* audit_chain_segments, in the order they were sealed
  checkpoints,  \* audit_checkpoints, in order
  next,         \* next value of the identity sequence_number
  lock,         \* holder of the advisory transaction lock
  clock,        \* database and server time
  occurred,     \* occurred_at of each event
  pc,           \* where each session is
  job,          \* the event a session appends, or what else it does
  start,        \* when its transaction began: now() in PostgreSQL
  tail,         \* prev_hash of the tail it read
  fresh,        \* the row it inserted and has not committed
  candidate,    \* the segment the operator is about to seal
  from,         \* first sequence number a verification asks for; 0 for all
  seed,         \* the hash it expects the first row to link to
  quiet         \* its range began in the chain, and nothing was sealed since

table == <<rows, segments, checkpoints, next>>
walk  == <<from, seed, quiet>>
vars  == <<rows, segments, checkpoints, next, lock, clock, occurred, pc, job, start,
           tail, fresh, candidate, from, seed, quiet>>

Session == Server \cup {Operator}
Seq1    == 1..MaxSeq
Time    == 0..MaxClock
Genesis == <<>>

Row     == [seq : Seq1, id : Event, prev : Hash, chain : Hash, at : Time, erased : BOOLEAN]
Segment == [first : Seq1, last : Seq1, prev : Hash, terminal : Hash, count : Seq1,
            checkpoint : Nat]
Checkpoint == [tail : Seq1, hash : Hash, size : Seq1]

TypeOK ==
  /\ rows \subseteq Row
  /\ segments \in Seq(Segment)
  /\ checkpoints \in Seq(Checkpoint)
  /\ next \in 1..MaxSeq + 1
  /\ lock \in Session \cup {None}
  /\ clock \in Time
  /\ occurred \in [Event -> Time]
  /\ pc \in [Session -> {"idle", "lock", "locked", "insert", "commit", "rejected",
                         "head", "segment", "walk", "alarm"}]
  /\ job \in [Session -> Event \cup {"checkpoint", "seal", "verify", None}]
  /\ start \in [Session -> Time]
  /\ tail \in [Session -> Hash]
  /\ fresh \in [Session -> Row \cup {None}]
  /\ candidate \in Segment \cup {None}
  /\ from \in [Session -> 0..MaxSeq]
  /\ seed \in [Session -> Hash \cup {None}]
  /\ quiet \in [Session -> BOOLEAN]

Init ==
  /\ rows = {} /\ segments = <<>> /\ checkpoints = <<>> /\ next = 1
  /\ lock = None
  /\ clock = 0
  /\ occurred \in [Event -> Time]
  /\ pc = [s \in Session |-> "idle"]
  /\ job = [s \in Session |-> None]
  /\ start = [s \in Session |-> 0]
  /\ tail = [s \in Session |-> Genesis]
  /\ fresh = [s \in Session |-> None]
  /\ candidate = None
  /\ from = [s \in Session |-> 0]
  /\ seed = [s \in Session |-> None]
  /\ quiet = [s \in Session |-> TRUE]

-----------------------------------------------------------------------------
(* Reading the tables *)

\* ORDER BY sequence_number LIMIT 1, descending and ascending.
Last(R)  == CHOOSE r \in R : \A q \in R : q.seq <= r.seq
First(R) == CHOOSE r \in R : \A q \in R : q.seq >= r.seq

Stored(e)    == \E r \in rows : r.id = e
RowsAfter(n) == {r \in rows : r.seq > n}

\* terminal_chain_hash and last_sequence_number of the last segment.
LastTerminal == IF segments = <<>> THEN None ELSE segments[Len(segments)].terminal
SealedThrough == IF segments = <<>> THEN 0 ELSE segments[Len(segments)].last

\* prev_hash of tail_state: the last row, else the last segment, else the genesis hash.
TailHash ==
  IF rows # {} THEN Last(rows).chain
  ELSE IF LastTerminal # None THEN LastTerminal ELSE Genesis

\* tail_sequence_number of tail_state.
TailSeq == IF rows # {} THEN Last(rows).seq ELSE SealedThrough

-----------------------------------------------------------------------------
(* Sessions and the advisory lock *)

Step(s, step) == pc' = [pc EXCEPT ![s] = step]

\* The transaction ends: COMMIT or ROLLBACK, which releases the lock.
Leave(s) ==
  /\ pc' = [pc EXCEPT ![s] = "idle"]
  /\ job' = [job EXCEPT ![s] = None]
  /\ start' = [start EXCEPT ![s] = 0]
  /\ tail' = [tail EXCEPT ![s] = Genesis]
  /\ fresh' = [fresh EXCEPT ![s] = None]
  /\ candidate' = IF s = Operator THEN None ELSE candidate
  /\ from' = [from EXCEPT ![s] = 0]
  /\ seed' = [seed EXCEPT ![s] = None]
  /\ lock' = IF lock = s THEN None ELSE lock

End(s) == Leave(s) /\ quiet' = [quiet EXCEPT ![s] = TRUE]

\* Bug: the lock is not exclusive.
LockIsFreeAlways == TRUE

LockIsFree == lock = None

\* pg_advisory_xact_lock.
TakeLock(s) ==
  /\ pc[s] = "lock"
  /\ LockIsFree
  /\ lock' = s
  /\ Step(s, "locked")
  /\ UNCHANGED <<table, clock, occurred, job, start, tail, fresh, candidate, walk>>

\* A timeout, a lost connection or a crash ends the transaction with a ROLLBACK.  The
\* caller of AppendEvent does not learn the outcome and sends the event again.
Abort(s) ==
  /\ pc[s] \notin {"idle", "alarm"}
  /\ End(s)
  /\ UNCHANGED <<table, clock, occurred>>

-----------------------------------------------------------------------------
(* AppendEvent *)

\* Bug: an event may be any age.
AnyAge(e) == occurred[e] <= clock

\* _clock_within_bounds.
ClockWithinBounds(e) == occurred[e] <= clock /\ clock <= occurred[e] + Backdate

\* A stored event_id is answered without a transaction of its own.
BeginAppend(s, e) ==
  /\ pc[s] = "idle"
  /\ ClockWithinBounds(e)
  /\ ~Stored(e)
  /\ job' = [job EXCEPT ![s] = e]
  /\ start' = [start EXCEPT ![s] = clock]
  /\ Step(s, "lock")
  /\ UNCHANGED <<table, lock, clock, occurred, tail, fresh, candidate, walk>>

\* Under the lock: the second look at event_id, then tail_state.
ReadTail(s) ==
  /\ pc[s] = "locked"
  /\ job[s] \in Event
  /\ IF Stored(job[s])
     THEN End(s)
     ELSE /\ tail' = [tail EXCEPT ![s] = TailHash]
          /\ Step(s, "insert")
          /\ UNCHANGED <<lock, job, start, fresh, candidate, walk>>
  /\ UNCHANGED <<table, clock, occurred>>

\* The unique columns event_id, prev_hash and chain_hash.
Clash(r, R) == \E q \in R : q.id = r.id \/ q.prev = r.prev \/ q.chain = r.chain

\* INSERT takes a sequence number even if the transaction fails later, stamps the row
\* with the time the transaction began, waits for uncommitted rows it clashes with and
\* is refused by committed ones.
Insert(s) ==
  /\ pc[s] = "insert"
  /\ next <= MaxSeq
  /\ next' = next + 1
  /\ LET r == [seq |-> next, id |-> job[s], prev |-> tail[s],
               chain |-> Append(tail[s], job[s]), at |-> start[s], erased |-> FALSE]
     IN  /\ ~Clash(r, {fresh[v] : v \in {v \in Session \ {s} : fresh[v] # None}})
         /\ IF Clash(r, rows)
            THEN fresh' = fresh /\ Step(s, "rejected")
            ELSE fresh' = [fresh EXCEPT ![s] = r] /\ Step(s, "commit")
  /\ UNCHANGED <<rows, segments, checkpoints, lock, clock, occurred, job, start, tail,
                 candidate, walk>>

Commit(s) ==
  /\ pc[s] = "commit"
  /\ rows' = rows \cup {fresh[s]}
  /\ End(s)
  /\ UNCHANGED <<segments, checkpoints, next, clock, occurred>>

-----------------------------------------------------------------------------
(* create_checkpoint *)

BeginCheckpoint(s) ==
  /\ pc[s] = "idle"
  /\ job' = [job EXCEPT ![s] = "checkpoint"]
  /\ Step(s, "lock")
  /\ UNCHANGED <<table, lock, clock, occurred, start, tail, fresh, candidate, walk>>

\* Bug: the tail is signed again although nothing was appended.
TailIsNewAlways == rows # {}

TailIsNew ==
  /\ rows # {}
  /\ checkpoints = <<>> \/ checkpoints[Len(checkpoints)].tail # Last(rows).seq

WriteCheckpoint(s) ==
  /\ pc[s] = "locked"
  /\ job[s] = "checkpoint"
  /\ checkpoints' =
       IF TailIsNew
       THEN Append(checkpoints, [tail |-> Last(rows).seq, hash |-> Last(rows).chain,
                                 size |-> Cardinality(rows)])
       ELSE checkpoints
  /\ End(s)
  /\ UNCHANGED <<rows, segments, next, clock, occurred>>

-----------------------------------------------------------------------------
(* Retention: next_segment, then seal_and_drop *)

\* The oldest rows persisted before the window's end, at most MaxRows of them.
Window ==
  LET oldest == First(RowsAfter(SealedThrough))
      expired == {r \in RowsAfter(SealedThrough) : r.at < oldest.at + Interval}
  IN  {r \in expired : Cardinality({q \in expired : q.seq <= r.seq}) <= MaxRows}

\* Bug: a segment begins with the hash of its first row, not with the one before it.
SpanFromFirst(W) == [first |-> First(W).seq, last |-> Last(W).seq, prev |-> First(W).chain,
                     terminal |-> Last(W).chain, count |-> Cardinality(W), checkpoint |-> 0]

\* The SegmentCandidate of the rows W.
Span(W) == [first |-> First(W).seq, last |-> Last(W).seq, prev |-> First(W).prev,
            terminal |-> Last(W).chain, count |-> Cardinality(W), checkpoint |-> 0]

\* next_segment, without the lock: the window lies wholly before the cutoff, and a
\* surviving row links to its last row.
ProposeSegment ==
  /\ pc[Operator] = "idle"
  /\ RowsAfter(SealedThrough) # {}
  /\ First(RowsAfter(SealedThrough)).at + Interval + Retention <= clock
  /\ LET W == Window IN
       /\ RowsAfter(Last(W).seq) # {}
       /\ First(RowsAfter(Last(W).seq)).prev = Last(W).chain
       /\ candidate' = Span(W)
  /\ job' = [job EXCEPT ![Operator] = "seal"]
  /\ Step(Operator, "lock")
  /\ UNCHANGED <<table, lock, clock, occurred, start, tail, fresh, walk>>

\* The DELETE of seal_and_drop.
Dropped(c) == {r \in rows : c.first <= r.seq /\ r.seq <= c.last}

\* The latest checkpoint, if there is one, covers the segment.
Covers(c) == checkpoints = <<>> \/ checkpoints[Len(checkpoints)].tail >= c.last

\* The number of rows dropped is compared.
CountMatches(c) == Cardinality(Dropped(c)) = c.count

\* Under the lock: check, insert the segment, delete its rows, check the survivor; any
\* RetentionError rolls everything back.
SealAndDrop ==
  /\ pc[Operator] = "locked"
  /\ job[Operator] = "seal"
  /\ LET c == candidate
         survivors == {r \in rows \ Dropped(c) : r.seq > c.last}
     IN  IF /\ Covers(c)
            /\ CountMatches(c)
            /\ survivors # {}
            /\ First(survivors).prev = c.terminal
         THEN /\ segments' = Append(segments, [c EXCEPT !.checkpoint = Len(checkpoints)])
              /\ rows' = rows \ Dropped(c)
              /\ quiet' = [s \in Session |-> s = Operator]
         ELSE UNCHANGED <<rows, segments, quiet>>
  /\ Leave(Operator)
  /\ UNCHANGED <<checkpoints, next, clock, occurred>>

-----------------------------------------------------------------------------
(* ErasePayloads *)

\* One UPDATE of every event of the subject, which leaves the chain columns alone.
Erase ==
  /\ \E r \in rows : r.id \in Personal /\ ~r.erased
  /\ rows' = {[r EXCEPT !.erased = @ \/ r.id \in Personal] : r \in rows}
  /\ UNCHANGED <<segments, checkpoints, next, lock, clock, occurred, pc, job, start, tail,
                 fresh, candidate, walk>>

-----------------------------------------------------------------------------
(* VerifyChain: _seed_expected_prev, then one streamed SELECT *)

\* The first statement: the last segment for a whole verification, else the predecessor.
BeginVerify(s, n) ==
  /\ pc[s] = "idle"
  /\ LET before == {r \in rows : r.seq < n} IN
       IF n = 0
       THEN seed' = [seed EXCEPT ![s] = LastTerminal] /\ Step(s, "head")
       ELSE IF before # {}
       THEN seed' = [seed EXCEPT ![s] = Last(before).chain] /\ Step(s, "walk")
       ELSE seed' = seed /\ Step(s, "segment")
  /\ from' = [from EXCEPT ![s] = n]
  /\ quiet' = [quiet EXCEPT ![s] = n <= TailSeq + 1]
  /\ job' = [job EXCEPT ![s] = "verify"]
  /\ UNCHANGED <<table, lock, clock, occurred, start, tail, fresh, candidate>>

\* The head row must link to the last segment, or it is expected to link to genesis.
ReadHead(s) ==
  /\ pc[s] = "head"
  /\ seed' = [seed EXCEPT ![s] =
                IF rows # {} /\ First(rows).prev = @ THEN @ ELSE Genesis]
  /\ Step(s, "walk")
  /\ UNCHANGED <<table, lock, clock, occurred, job, start, tail, fresh, candidate, from,
                 quiet>>

\* No row before the range: it is expected to link to the last segment.
ReadSegment(s) ==
  /\ pc[s] = "segment"
  /\ seed' = [seed EXCEPT ![s] = IF LastTerminal # None THEN LastTerminal ELSE Genesis]
  /\ Step(s, "walk")
  /\ UNCHANGED <<table, lock, clock, occurred, job, start, tail, fresh, candidate, from,
                 quiet>>

\* Bug: an erased payload is taken for a missing one.
PayloadMissing(r) == r.erased

\* event_bytes IS NULL without erased_at.
PayloadLost(r) == FALSE

\* The loop of verify over the rows R.
Intact(R, expected) ==
  \A r \in R :
    LET before == {q \in R : q.seq < r.seq} IN
    /\ r.prev = IF before = {} THEN expected ELSE Last(before).chain
    /\ ~PayloadLost(r)
    /\ r.chain = Append(r.prev, r.id)

Walk(s) ==
  /\ pc[s] = "walk"
  /\ IF Intact({r \in rows : r.seq >= from[s]}, seed[s])
     THEN End(s)
     ELSE /\ Step(s, "alarm")
          /\ UNCHANGED <<lock, job, start, tail, fresh, candidate, walk>>
  /\ UNCHANGED <<table, clock, occurred>>

\* The reply chain_intact = false is sent.
Report(s) ==
  /\ pc[s] = "alarm"
  /\ End(s)
  /\ UNCHANGED <<table, clock, occurred>>

-----------------------------------------------------------------------------

\* lock_timeout and statement_timeout end a transaction within seconds, long before a
\* second tick.
Tick ==
  /\ clock < MaxClock
  /\ \A s \in Session : job[s] \in Event => start[s] = clock
  /\ clock' = clock + 1
  /\ UNCHANGED <<table, lock, occurred, pc, job, start, tail, fresh, candidate, walk>>

Next ==
  \/ \E s \in Server : \/ \E e \in Event : BeginAppend(s, e)
                       \/ ReadTail(s) \/ Insert(s) \/ Commit(s)
                       \/ BeginCheckpoint(s) \/ WriteCheckpoint(s)
                       \/ \E n \in Ranges : BeginVerify(s, n)
                       \/ ReadHead(s) \/ ReadSegment(s) \/ Walk(s) \/ Report(s)
  \/ \E s \in Session : TakeLock(s) \/ Abort(s)
  \/ ProposeSegment \/ SealAndDrop
  \/ Erase
  \/ Tick

Spec == Init /\ [][Next]_vars

-----------------------------------------------------------------------------
(* Properties *)

\* No append is refused by a unique constraint.  The caller would bury the event.
NoAppendIsRejected == \A s \in Session : pc[s] # "rejected"

\* Sealed segments and live rows are one unbroken chain from the genesis hash: every
\* row links to the row before it, the first one to the last sealed segment, every
\* segment to the segment before it. The row_count of a segment is the number of events
\* its hashes span, so that none is dropped unaccounted for, and none is refused.
ChainLinked ==
  /\ \A k \in DOMAIN segments :
       /\ segments[k].prev = IF k = 1 THEN Genesis ELSE segments[k - 1].terminal
       /\ segments[k].count = Len(segments[k].terminal) - Len(segments[k].prev)
  /\ Intact(rows, IF segments = <<>> THEN Genesis ELSE segments[Len(segments)].terminal)
  /\ NoAppendIsRejected

\* Every checkpoint signs a prefix of the chain, each longer than the one before, and what
\* is dropped was covered by the checkpoint its segment names.
CheckpointsBindTheChain ==
  /\ \A k \in DOMAIN checkpoints :
       /\ checkpoints[k].hash = SubSeq(TailHash, 1, Len(checkpoints[k].hash))
       /\ k > 1 => checkpoints[k - 1].tail < checkpoints[k].tail
  /\ \A k \in DOMAIN segments :
       segments[k].checkpoint > 0
         => checkpoints[segments[k].checkpoint].tail >= segments[k].last

\* While no segment is sealed, verification from any row on never reports an intact
\* chain as broken, however many events are appended and erased meanwhile.
NoFalseAlarm == \A s \in Session : pc[s] = "alarm" => ~quiet[s]

\* The service implements the log: what has been hashed into the tail only grows, by
\* one event at a time, and never holds an event twice.
Log == INSTANCE AuditLog WITH log <- TailHash
ImplementsLog == Log!Spec

\* tests/integration/test_retention.py asserts of a candidate that its row_count is
\* last_sequence_number - first_sequence_number + 1: it covers every row between its
\* first and its last.
CandidateCoversItsRange == candidate # None => CountMatches(candidate)

\* For TLC: events are alike, and so are the sessions of servers.
Symmetric == Permutations(Event) \cup Permutations(Server)
=============================================================================
