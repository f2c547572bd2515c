--------------------------- MODULE ServicesLemmas ---------------------------
(***************************************************************************)
(* Theorems about the parts of ServiceParts, each by itself, with any      *)
(* constants that keep its assumptions: how many operators, presses,       *)
(* pollers, links, logins, replicas, events, keys, callers and requests    *)
(* there are, and how many calls fail.                                     *)
(***************************************************************************)
EXTENDS ServiceParts, Sequences, FiniteSets, FiniteSetTheorems, TLAPS

\* A set has the same number of elements in every part.
LEMMA SameSizes ==
  ASSUME NEW S
  PROVE  /\ Presses!IsFiniteSet(S) <=> IsFiniteSet(S)
         /\ Presses!Cardinality(S) = Cardinality(S)
         /\ Readings!Cardinality(S) = Cardinality(S)
         /\ Erasing!Cardinality(S) = Cardinality(S)
         /\ Taking!IsFiniteSet(S) <=> IsFiniteSet(S)
         /\ Taking!Cardinality(S) = Cardinality(S)
<1>1. Presses!IsFiniteSet(S) <=> IsFiniteSet(S)
  BY DEF Presses!IsFiniteSet, IsFiniteSet
<1>2. Presses!Cardinality(S) = Cardinality(S)
  BY DEF Presses!Cardinality, Cardinality
<1>3. Readings!Cardinality(S) = Cardinality(S)
  BY DEF Readings!Cardinality, Cardinality
<1>4. Erasing!Cardinality(S) = Cardinality(S)
  BY DEF Erasing!Cardinality, Cardinality
<1>5. Taking!IsFiniteSet(S) <=> IsFiniteSet(S)
  BY DEF Taking!IsFiniteSet, IsFiniteSet
<1>6. Taking!Cardinality(S) = Cardinality(S)
  BY DEF Taking!Cardinality, Cardinality
<1> QED BY <1>1, <1>2, <1>3, <1>4, <1>5, <1>6

-----------------------------------------------------------------------------
(* The decisions *)

\* The decisions that were begun, and those of them that are over, or only to be answered:
\* a decision reads the clock once before it is begun, and once before it is over.
Begun == {d \in Presses!Decider : dpc[d] # "new"}
Over  == {d \in Presses!Decider : dpc[d] \in {"answer", "done"}}

Timed == [value : Presses!Value, at : 0..clock]

\* The types, and that the clock was read twice at most for each decision.
ApiShape ==
  /\ clock \in Nat /\ clock <= Cardinality(Begun) + Cardinality(Over)
  /\ decision \in Timed
  /\ dpc \in [Presses!Decider -> {"new", "stamped", "written", "answer", "done"}]
  /\ ask \in [Presses!Decider -> [value : Presses!Value, at : 0..clock, done : BOOLEAN]]

DisplayShape ==
  /\ notices \subseteq Timed /\ edits \subseteq Timed /\ message \in Timed \cup {None}
  /\ shownAt \in 0..clock /\ last \in 0..clock /\ muddled \subseteq Presses!Reason
  /\ message = None => edits = {} /\ shownAt = 0

\* A press that a poller is at was marked by it alone, and is not answered.
PollShape ==
  /\ updates \subseteq Press /\ seen \subseteq Press /\ lease \in Poller \cup {None}
  /\ poller \in [Poller -> {"standby", "poll", "handle"} \cup Press]
  /\ batch \in [Poller -> SUBSET Press] /\ offset \in [Poller -> SUBSET Press]
  /\ dfaults \in 0..MaxFaults
  /\ answered \subseteq seen
  /\ \A q \in Poller : poller[q] \in Press => poller[q] \in seen
  /\ Presses!PressedOnce

\* What a poller that stops handling leaves of the invariant.
LEMMA PollerMoves ==
  ASSUME Presses!DecisionsAssumption, PollShape, NEW q \in Poller,
         NEW step \in {"standby", "poll", "handle"}, poller' = [poller EXCEPT ![q] = step],
         answered' = answered \/ (poller[q] \in Press /\ answered' = answered \cup {poller[q]}),
         seen' = seen
  PROVE  /\ poller' \in [Poller -> {"standby", "poll", "handle"} \cup Press]
         /\ answered' \subseteq seen'
         /\ \A r \in Poller : poller'[r] \in Press => poller'[r] \in seen'
         /\ Presses!PressedOnce'
<1>1. /\ poller \in [Poller -> {"standby", "poll", "handle"} \cup Press] /\ answered \subseteq seen
      /\ \A r \in Poller : poller[r] \in Press =>
           /\ poller[r] \in seen /\ poller[r] \notin answered
           /\ \A rival \in Poller \ {r} : poller[rival] # poller[r]
  BY DEF PollShape, Presses!PressedOnce
<1>2. step \notin Press
  BY DEF Presses!DecisionsAssumption
<1>3. \A r \in Poller : poller'[r] \in Press => r # q /\ poller'[r] = poller[r]
  BY <1>1, <1>2
<1>4. \A r \in Poller : poller'[r] \in Press =>
        /\ poller'[r] \in seen' /\ poller'[r] \notin answered'
        /\ \A rival \in Poller \ {r} : poller'[rival] # poller'[r]
  <2> SUFFICES ASSUME NEW r \in Poller, poller'[r] \in Press
               PROVE  /\ poller'[r] \in seen' /\ poller'[r] \notin answered'
                      /\ \A rival \in Poller \ {r} : poller'[rival] # poller'[r]
    OBVIOUS
  <2>1. r # q /\ poller'[r] = poller[r] /\ poller[r] \in Press
    BY <1>3
  <2>2. poller[r] # poller[q]
    BY <1>1, <2>1
  <2>3. \A rival \in Poller \ {r} : poller'[rival] # poller'[r]
    BY <1>1, <1>2, <2>1
  <2> QED BY <1>1, <2>1, <2>2, <2>3
<1>5. poller' \in [Poller -> {"standby", "poll", "handle"} \cup Press] /\ answered' \subseteq seen'
  BY <1>1
<1> QED BY <1>4, <1>5 DEF Presses!PressedOnce

\* An update that is handled is marked before: a press that another poller is at was seen.
LEMMA HandleStep ==
  ASSUME Presses!DecisionsAssumption, PollShape, NEW q \in Poller, Presses!Handle(q)
  PROVE  PollShape'
<1>1. /\ updates \subseteq Press /\ seen \subseteq Press /\ lease \in Poller \cup {None}
      /\ poller \in [Poller -> {"standby", "poll", "handle"} \cup Press]
      /\ batch \in [Poller -> SUBSET Press] /\ offset \in [Poller -> SUBSET Press]
      /\ dfaults \in 0..MaxFaults /\ answered \subseteq seen
      /\ \A r \in Poller : poller[r] \in Press =>
           /\ poller[r] \in seen /\ poller[r] \notin answered
           /\ \A rival \in Poller \ {r} : poller[rival] # poller[r]
  BY DEF PollShape, Presses!PressedOnce
<1>2. PICK p \in batch[q] :
        /\ batch' = [batch EXCEPT ![q] = @ \ {p}] /\ offset' = [offset EXCEPT ![q] = @ \cup {p}]
        /\ seen' = seen \cup {p}
        /\ poller' = [poller EXCEPT ![q] =
             IF p \notin seen THEN p ELSE IF batch[q] = {p} THEN "poll" ELSE "handle"]
        /\ UNCHANGED <<updates, lease, answered, dfaults>>
  BY DEF Presses!Handle, Presses!Marked, Presses!Does
<1>3. p \in Press
  BY <1>1
<1>4. CASE p \notin seen
  <2>1. poller' = [poller EXCEPT ![q] = p]
    BY <1>2, <1>4
  <2>2. \A r \in Poller : poller'[r] \in Press =>
          /\ poller'[r] \in seen' /\ poller'[r] \notin answered'
          /\ \A rival \in Poller \ {r} : poller'[rival] # poller'[r]
    BY <1>1, <1>2, <1>4, <2>1
  <2> QED BY <1>1, <1>2, <1>3, <2>1, <2>2 DEF PollShape, Presses!PressedOnce
<1>5. CASE p \in seen
  <2>1. seen' = seen
    BY <1>2, <1>5
  <2>2. PICK step \in {"standby", "poll", "handle"} : poller' = [poller EXCEPT ![q] = step]
    BY <1>2, <1>5
  <2> QED BY <1>1, <1>2, <1>3, <2>1, <2>2, PollerMoves DEF PollShape
<1> QED BY <1>4, <1>5

\* Of the poller's steps, those that neither mark an update nor forward a press.
LEMMA RestStep ==
  ASSUME Presses!DecisionsAssumption, PollShape, NEW q \in Poller,
         \/ Presses!Acquire(q) \/ Presses!Poll(q) \/ Presses!PollRefused(q) \/ Presses!LostLease(q)
         \/ Presses!PassOver(q) \/ Presses!Dies(q)
         \/ \E p \in Press : Presses!Refuse(q, p) \/ Presses!Unavailable(q, p)
              \/ Presses!Answer(q, p)
  PROVE  PollShape'
<1>1. /\ updates \subseteq Press /\ seen \subseteq Press /\ lease \in Poller \cup {None}
      /\ batch \in [Poller -> SUBSET Press] /\ offset \in [Poller -> SUBSET Press]
      /\ dfaults \in 0..MaxFaults /\ MaxFaults \in Nat
  BY DEF PollShape, Presses!DecisionsAssumption
<1>2. seen' = seen /\ updates' \subseteq updates /\ lease' \in Poller \cup {None}
  <2>1. CASE Presses!Acquire(q) \/ Presses!Poll(q) \/ Presses!PollRefused(q) \/ Presses!LostLease(q)
             \/ Presses!PassOver(q) \/ Presses!Dies(q)
    BY <1>1, <2>1 DEF Presses!Acquire, Presses!Poll, Presses!PollRefused, Presses!LostLease,
                      Presses!PassOver, Presses!Dies
  <2>2. ASSUME NEW p \in Press,
               Presses!Refuse(q, p) \/ Presses!Unavailable(q, p) \/ Presses!Answer(q, p)
        PROVE  seen' = seen /\ updates' = updates /\ lease' = lease
    BY <2>2 DEF Presses!Refuse, Presses!Unavailable, Presses!Answer
  <2> QED BY <1>1, <2>1, <2>2
<1>3. batch' \in [Poller -> SUBSET Press] /\ offset' \in [Poller -> SUBSET Press]
  <2>1. CASE Presses!Acquire(q) \/ Presses!PollRefused(q) \/ Presses!LostLease(q)
             \/ Presses!Dies(q)
    BY <1>1, <2>1 DEF Presses!Acquire, Presses!PollRefused, Presses!LostLease, Presses!Dies
  <2>2. CASE Presses!Poll(q)
    BY <1>1, <1>2, <2>2 DEF Presses!Poll
  <2>3. CASE Presses!PassOver(q)
    <3>1. PICK p \in batch[q] : /\ batch' = [batch EXCEPT ![q] = @ \ {p}]
                                /\ offset' = [offset EXCEPT ![q] = @ \cup {p}]
      BY <2>3 DEF Presses!PassOver
    <3> QED BY <1>1, <3>1
  <2>4. ASSUME NEW p \in Press,
               Presses!Refuse(q, p) \/ Presses!Unavailable(q, p) \/ Presses!Answer(q, p)
        PROVE  UNCHANGED <<batch, offset>>
    BY <2>4 DEF Presses!Refuse, Presses!Unavailable, Presses!Answer
  <2> QED BY <1>1, <2>1, <2>2, <2>3, <2>4
<1>4. dfaults' \in 0..MaxFaults
  <2>1. dfaults' = dfaults \/ (dfaults < MaxFaults /\ dfaults' = dfaults + 1)
    BY DEF Presses!Acquire, Presses!Poll, Presses!PollRefused, Presses!LostLease,
           Presses!PassOver, Presses!Dies, Presses!Refuse, Presses!Unavailable, Presses!Answer,
           Presses!Fault
  <2> QED BY <1>1, <2>1
<1>5. /\ \E step \in {"standby", "poll", "handle"} : poller' = [poller EXCEPT ![q] = step]
      /\ answered' = answered \/ (poller[q] \in Press /\ answered' = answered \cup {poller[q]})
  <2>1. CASE Presses!Acquire(q) \/ Presses!Poll(q) \/ Presses!PollRefused(q) \/ Presses!LostLease(q)
             \/ Presses!PassOver(q) \/ Presses!Dies(q)
    BY <2>1 DEF Presses!Acquire, Presses!Poll, Presses!PollRefused, Presses!LostLease,
                Presses!PassOver, Presses!Dies, Presses!Does
  <2>2. ASSUME NEW p \in Press,
               Presses!Refuse(q, p) \/ Presses!Unavailable(q, p) \/ Presses!Answer(q, p)
        PROVE  /\ \E step \in {"standby", "poll", "handle"} : poller' = [poller EXCEPT ![q] = step]
               /\ poller[q] = p /\ answered' = answered \cup {p}
    BY <2>2 DEF Presses!Refuse, Presses!Unavailable, Presses!Answer, Presses!Resumes, Presses!Does
  <2> QED BY <2>1, <2>2
<1> QED BY <1>1, <1>2, <1>3, <1>4, <1>5, PollerMoves DEF PollShape

\* The poller keeps its part of the invariant.
LEMMA PollStep ==
  ASSUME Presses!DecisionsAssumption, PollShape, [Presses!Next]_(Presses!vars)
  PROVE  PollShape'
<1>1. CASE UNCHANGED <<updates, seen, lease, poller, batch, offset, answered>>
  <2>1. dfaults' = dfaults \/ (dfaults < MaxFaults /\ dfaults' = dfaults + 1)
    <3>1. CASE \/ \E d \in Console : Presses!FromConsole(d)
               \/ \E d \in Presses!Decider : Presses!Decide(d)
               \/ Presses!Post
               \/ UNCHANGED Presses!vars
      BY <3>1 DEF Presses!FromConsole, Presses!Decide, Presses!Write, Presses!Notify,
                  Presses!NotifyFails, Presses!Post, Presses!Fault, Presses!vars
    <3>2. CASE \E n \in notices \cup edits : Presses!Show(n)
      BY <3>2 DEF Presses!Show, Presses!Skip, Presses!ClaimDisplay, Presses!Stale, Presses!Edit,
                  Presses!EditAgain, Presses!EditFails, Presses!Fault
    <3>3. CASE (\E p \in Press : Presses!Presses(p)) \/ Presses!LeaseLapses
      BY <3>3 DEF Presses!Presses, Presses!LeaseLapses
    <3>4. CASE \E q \in Poller : Presses!Acquire(q) \/ Presses!Work(q) \/ Presses!PollRefused(q)
                                 \/ Presses!PassOver(q) \/ Presses!Dies(q)
      BY <3>4 DEF Presses!Acquire, Presses!Poll, Presses!PollRefused, Presses!LostLease,
           Presses!PassOver, Presses!Dies, Presses!Refuse, Presses!Unavailable, Presses!Answer,
           Presses!Fault, Presses!Handle, Presses!Forward, Presses!Work
    <3> QED BY <3>1, <3>2, <3>3, <3>4 DEF Presses!Next
  <2>2. dfaults' \in 0..MaxFaults
    BY <2>1 DEF PollShape, Presses!DecisionsAssumption
  <2> QED BY <1>1, <2>2 DEF PollShape, Presses!PressedOnce
<1>2. CASE (\E p \in Press : Presses!Presses(p)) \/ Presses!LeaseLapses
  <2>1. /\ updates' \subseteq Press /\ lease' \in Poller \cup {None}
        /\ UNCHANGED <<seen, poller, batch, offset, answered, dfaults>>
    BY <1>2 DEF Presses!Presses, Presses!LeaseLapses, PollShape
  <2> QED BY <2>1 DEF PollShape, Presses!PressedOnce
<1>3. ASSUME NEW q \in Poller, NEW p \in Press, Presses!Forward(q, p)
      PROVE  UNCHANGED <<updates, seen, lease, poller, batch, offset, answered>>
  BY <1>3 DEF Presses!Forward, Presses!polling
<1>4. CASE \/ \E d \in Console : Presses!FromConsole(d)
           \/ \E d \in Presses!Decider : Presses!Decide(d)
           \/ Presses!Post
           \/ UNCHANGED Presses!vars
           \/ \E n \in notices \cup edits : Presses!Show(n)
  <2>1. UNCHANGED <<updates, seen, lease, poller, batch, offset, answered>>
    BY <1>4 DEF Presses!FromConsole, Presses!Decide, Presses!Write, Presses!Notify,
                Presses!NotifyFails, Presses!Post, Presses!vars, Presses!polling,
                Presses!Show, Presses!Skip, Presses!ClaimDisplay, Presses!Stale, Presses!Edit,
                Presses!EditAgain, Presses!EditFails
  <2> QED BY <1>1, <2>1
<1> QED BY <1>1, <1>2, <1>3, <1>4, HandleStep, RestStep DEF Presses!Next, Presses!Work

\* What a step is to the API: it stamps, writes or notifies, ends a press, or rests.
LEMMA ApiSteps ==
  ASSUME Presses!DecisionsAssumption, [Presses!Next]_(Presses!vars)
  PROVE  \/ \E d \in Presses!Decider, v \in Presses!Value :
              dpc[d] = "new" /\ Presses!Stamp(d, v)
              /\ UNCHANGED <<notices, edits, shownAt, message, last, muddled>>
         \/ \E d \in Presses!Decider :
              Presses!Write(d) \/ Presses!Notify(d) \/ Presses!NotifyFails(d)
         \/ \E p \in Press : /\ dpc[p] \in {"new", "answer"} /\ dpc' = [dpc EXCEPT ![p] = "done"]
                             /\ UNCHANGED <<clock, decision, ask>>
         \/ UNCHANGED <<clock, decision, dpc, ask>>
<1>1. ASSUME NEW c \in Console, Presses!FromConsole(c)
      PROVE  \E d \in Presses!Decider, v \in Presses!Value :
               dpc[d] = "new" /\ Presses!Stamp(d, v)
               /\ UNCHANGED <<notices, edits, shownAt, message, last, muddled>>
  BY <1>1 DEF Presses!FromConsole, Presses!Decider, Presses!display, Presses!ghosts
<1>2. ASSUME NEW q \in Poller, NEW p \in Press, Presses!Forward(q, p)
      PROVE  \E d \in Presses!Decider, v \in Presses!Value :
               dpc[d] = "new" /\ Presses!Stamp(d, v)
               /\ UNCHANGED <<notices, edits, shownAt, message, last, muddled>>
  BY <1>2 DEF Presses!Forward, Presses!Decider, Presses!display, Presses!ghosts
<1>3. ASSUME NEW q \in Poller, NEW p \in Press,
             Presses!Refuse(q, p) \/ Presses!Unavailable(q, p) \/ Presses!Answer(q, p)
      PROVE  \/ /\ dpc[p] \in {"new", "answer"} /\ dpc' = [dpc EXCEPT ![p] = "done"]
                /\ UNCHANGED <<clock, decision, ask>>
             \/ UNCHANGED <<clock, decision, dpc, ask>>
  BY <1>3 DEF Presses!Refuse, Presses!Unavailable, Presses!Answer, Presses!Reached
<1>4. CASE \/ Presses!Post \/ Presses!LeaseLapses \/ UNCHANGED Presses!vars
           \/ \E p \in Press : Presses!Presses(p)
           \/ \E n \in notices \cup edits : Presses!Show(n)
  BY <1>4 DEF Presses!Post, Presses!LeaseLapses, Presses!vars, Presses!Presses, Presses!api,
              Presses!Show, Presses!Skip, Presses!ClaimDisplay, Presses!Stale, Presses!Edit,
              Presses!EditAgain, Presses!EditFails
<1>5. ASSUME NEW q \in Poller,
             \/ Presses!Acquire(q) \/ Presses!Poll(q) \/ Presses!LostLease(q) \/ Presses!Handle(q)
             \/ Presses!PollRefused(q) \/ Presses!PassOver(q) \/ Presses!Dies(q)
      PROVE  UNCHANGED <<clock, decision, dpc, ask>>
  BY <1>5 DEF Presses!Acquire, Presses!Poll, Presses!PollRefused, Presses!LostLease,
              Presses!PassOver, Presses!Dies, Presses!Handle, Presses!api
<1> QED BY <1>1, <1>2, <1>3, <1>4, <1>5 DEF Presses!Next, Presses!Decide, Presses!Work

\* Those who decide are finitely many.
LEMMA FiniteDeciders ==
  ASSUME Presses!DecisionsAssumption
  PROVE  /\ IsFiniteSet(Presses!Decider) /\ Cardinality(Presses!Decider) \in Nat
         /\ Presses!Time = 0..(2 * Cardinality(Presses!Decider))
         /\ \A S \in SUBSET Presses!Decider :
              /\ IsFiniteSet(S) /\ Cardinality(S) \in Nat
              /\ Cardinality(S) <= Cardinality(Presses!Decider)
<1>1. IsFiniteSet(Presses!Decider) /\ Presses!Time = 0..(2 * Cardinality(Presses!Decider))
  BY SameSizes DEF Presses!DecisionsAssumption, Presses!Time, Presses!LastTime
<1>2. ASSUME NEW S \in SUBSET Presses!Decider
      PROVE  /\ IsFiniteSet(S) /\ Cardinality(S) \in Nat
             /\ Cardinality(S) <= Cardinality(Presses!Decider)
  BY <1>1, FS_Subset, FS_CardinalityType
<1> QED BY <1>1, <1>2, FS_CardinalityType

\* Decisions only come further: what they have read of the clock still bounds it.
LEMMA CountGrows ==
  ASSUME Presses!DecisionsAssumption, ApiShape, clock' = clock,
         Begun \subseteq Begun', Over \subseteq Over', Begun' \subseteq Presses!Decider,
         Over' \subseteq Presses!Decider
  PROVE  clock' <= Cardinality(Begun') + Cardinality(Over')
<1>1. /\ Begun \in SUBSET Begun' /\ Over \in SUBSET Over'
      /\ IsFiniteSet(Begun') /\ IsFiniteSet(Over')
      /\ Cardinality(Begun') \in Nat /\ Cardinality(Over') \in Nat
      /\ Cardinality(Begun) \in Nat /\ Cardinality(Over) \in Nat
  BY FiniteDeciders DEF Begun, Over
<1>2. Cardinality(Begun) <= Cardinality(Begun') /\ Cardinality(Over) <= Cardinality(Over')
  BY <1>1, FS_Subset
<1>3. clock' \in Nat /\ clock' <= Cardinality(Begun) + Cardinality(Over)
  BY DEF ApiShape
<1> QED BY <1>1, <1>2, <1>3

\* A time that was read stays one.
LEMMA TimeGoesOn ==
  ASSUME clock \in Nat, clock' \in {clock, clock + 1}
  PROVE  /\ clock' \in Nat /\ 0..clock \subseteq 0..clock' /\ Timed \subseteq Timed'
         /\ clock' \in 0..clock'
<1>1. clock' \in Nat /\ 0..clock \subseteq 0..clock' /\ clock' \in 0..clock'
  OBVIOUS
<1> QED BY <1>1 DEF Timed

\* The times given so far, after a step.
LEMMA StampShape ==
  ASSUME Presses!DecisionsAssumption, ApiShape,
         NEW d \in Presses!Decider, NEW v \in Presses!Value, dpc[d] = "new", Presses!Stamp(d, v)
  PROVE  ApiShape'
<1>1. /\ clock' = clock + 1 /\ decision' = decision
      /\ ask' = [ask EXCEPT ![d] = [value |-> v, at |-> clock', done |-> FALSE]]
      /\ dpc' = [dpc EXCEPT ![d] = "stamped"]
  BY DEF Presses!Stamp, Presses!Reached
<1>2. /\ clock \in Nat /\ clock <= Cardinality(Begun) + Cardinality(Over) /\ decision \in Timed
      /\ dpc \in [Presses!Decider -> {"new", "stamped", "written", "answer", "done"}]
      /\ ask \in [Presses!Decider -> [value : Presses!Value, at : 0..clock, done : BOOLEAN]]
  BY DEF ApiShape
<1>3. clock' \in Nat /\ 0..clock \subseteq 0..clock' /\ Timed \subseteq Timed'
        /\ clock' \in 0..clock'
  BY <1>1, <1>2, TimeGoesOn
<1>4. ask' \in [Presses!Decider -> [value : Presses!Value, at : 0..clock', done : BOOLEAN]]
  <2>1. \A e \in Presses!Decider :
          ask[e] \in [value : Presses!Value, at : 0..clock', done : BOOLEAN]
    BY <1>2, <1>3
  <2>2. [value |-> v, at |-> clock', done |-> FALSE]
          \in [value : Presses!Value, at : 0..clock', done : BOOLEAN]
    BY <1>3
  <2> QED BY <1>1, <1>2, <2>1, <2>2
<1>5. clock' <= Cardinality(Begun') + Cardinality(Over')
  <2>1. Begun' = Begun \cup {d} /\ d \notin Begun /\ Over' = Over
    BY <1>1, <1>2 DEF Begun, Over
  <2>2. /\ IsFiniteSet(Begun) /\ Cardinality(Begun) \in Nat /\ Cardinality(Over) \in Nat
    BY FiniteDeciders DEF Begun, Over
  <2>3. Cardinality(Begun') = Cardinality(Begun) + 1
    BY <2>1, <2>2, FS_AddElement
  <2> QED BY <1>1, <1>2, <2>1, <2>2, <2>3
<1>6. dpc' \in [Presses!Decider -> {"new", "stamped", "written", "answer", "done"}]
  BY <1>1, <1>2
<1> QED BY <1>1, <1>2, <1>3, <1>4, <1>5, <1>6 DEF ApiShape

\* A write of the decision.
LEMMA WriteShape ==
  ASSUME Presses!DecisionsAssumption, ApiShape, NEW d \in Presses!Decider, Presses!Write(d)
  PROVE  ApiShape'
<1>1. /\ clock' = clock /\ dpc[d] = "stamped"
      /\ \/ /\ decision' = [value |-> ask[d].value,
                            at |-> IF ask[d].value = "none" THEN 0 ELSE ask[d].at]
            /\ ask' = [ask EXCEPT ![d].done = TRUE]
            /\ dpc' = [dpc EXCEPT ![d] = "written"]
         \/ /\ decision' = decision
            /\ ask' = [ask EXCEPT ![d] = [value |-> decision.value, at |-> decision.at,
                                          done |-> FALSE]]
            /\ \E s \in {"answer", "done"} : dpc' = [dpc EXCEPT ![d] = s]
  BY DEF Presses!Write, Presses!Reached
<1>2. /\ clock \in Nat /\ decision \in Timed
      /\ dpc \in [Presses!Decider -> {"new", "stamped", "written", "answer", "done"}]
      /\ ask \in [Presses!Decider -> [value : Presses!Value, at : 0..clock, done : BOOLEAN]]
  BY DEF ApiShape
<1>3. dpc' \in [Presses!Decider -> {"new", "stamped", "written", "answer", "done"}]
  BY <1>1, <1>2
<1>4. /\ decision' \in Timed
      /\ ask' \in [Presses!Decider -> [value : Presses!Value, at : 0..clock, done : BOOLEAN]]
  <2>1. /\ ask[d] \in [value : Presses!Value, at : 0..clock, done : BOOLEAN]
        /\ decision.value \in Presses!Value /\ decision.at \in 0..clock /\ 0 \in 0..clock
    BY <1>2 DEF Timed
  <2>2. [ask[d] EXCEPT !.done = TRUE] \in [value : Presses!Value, at : 0..clock, done : BOOLEAN]
    BY <2>1
  <2>3. decision' \in Timed
    BY <1>1, <1>2, <2>1 DEF Timed
  <2>4. [value |-> decision.value, at |-> decision.at, done |-> FALSE]
          \in [value : Presses!Value, at : 0..clock, done : BOOLEAN]
    BY <2>1
  <2>5. \/ ask' = [ask EXCEPT ![d] = [ask[d] EXCEPT !.done = TRUE]]
        \/ ask' = [ask EXCEPT ![d] = [value |-> decision.value, at |-> decision.at,
                                      done |-> FALSE]]
    BY <1>1
  <2> DEFINE Asks == [value : Presses!Value, at : 0..clock, done : BOOLEAN]
             one == [ask[d] EXCEPT !.done = TRUE]
             refused == [value |-> decision.value, at |-> decision.at, done |-> FALSE]
  <2>6. ask' = [ask EXCEPT ![d] = one] \/ ask' = [ask EXCEPT ![d] = refused]
    BY <2>5
  <2>7. ask \in [Presses!Decider -> Asks] /\ one \in Asks /\ refused \in Asks
    BY <1>2, <2>2, <2>4
  <2> HIDE DEF Asks, one, refused
  <2>8. ask' \in [Presses!Decider -> Asks]
    BY <2>6, <2>7
  <2> QED BY <2>3, <2>8 DEF Asks
<1>5. Begun \subseteq Begun' /\ Over \subseteq Over' /\ Begun' \cup Over' \subseteq Presses!Decider
  BY <1>1, <1>2 DEF Begun, Over
<1>6. clock' <= Cardinality(Begun') + Cardinality(Over')
  BY <1>1, <1>5, CountGrows
<1> QED BY <1>1, <1>2, <1>3, <1>4, <1>6 DEF ApiShape, Timed

\* The clock is read again for the notice of a decision that was taken back.
LEMMA NotifyShape ==
  ASSUME Presses!DecisionsAssumption, ApiShape, NEW d \in Presses!Decider,
         Presses!Notify(d) \/ Presses!NotifyFails(d)
  PROVE  ApiShape' /\ clock' \in {clock, clock + 1}
<1>1. /\ dpc[d] = "written" /\ decision' = decision /\ ask' = ask
      /\ \E s \in {"answer", "done"} : dpc' = [dpc EXCEPT ![d] = s]
      /\ clock' \in {clock, clock + 1}
  BY DEF Presses!Notify, Presses!NotifyFails, Presses!Reached
<1>2. /\ clock \in Nat /\ clock <= Cardinality(Begun) + Cardinality(Over) /\ decision \in Timed
      /\ dpc \in [Presses!Decider -> {"new", "stamped", "written", "answer", "done"}]
      /\ ask \in [Presses!Decider -> [value : Presses!Value, at : 0..clock, done : BOOLEAN]]
  BY DEF ApiShape
<1>3. clock' \in Nat /\ 0..clock \subseteq 0..clock' /\ Timed \subseteq Timed'
  BY <1>1, <1>2, TimeGoesOn
<1>4. ask' \in [Presses!Decider -> [value : Presses!Value, at : 0..clock', done : BOOLEAN]]
  <2>1. \A e \in Presses!Decider :
          ask[e] \in [value : Presses!Value, at : 0..clock', done : BOOLEAN]
    BY <1>2, <1>3
  <2> QED BY <1>1, <1>2, <2>1
<1>5. clock' <= Cardinality(Begun') + Cardinality(Over')
  <2>1. Over' = Over \cup {d} /\ d \notin Over /\ Begun' = Begun
    BY <1>1, <1>2 DEF Begun, Over
  <2>2. /\ IsFiniteSet(Over) /\ Cardinality(Begun) \in Nat /\ Cardinality(Over) \in Nat
    BY FiniteDeciders DEF Begun, Over
  <2>3. Cardinality(Over') = Cardinality(Over) + 1
    BY <2>1, <2>2, FS_AddElement
  <2> QED BY <1>1, <1>2, <2>1, <2>2, <2>3
<1>6. dpc' \in [Presses!Decider -> {"new", "stamped", "written", "answer", "done"}]
  BY <1>1, <1>2
<1> QED BY <1>1, <1>2, <1>3, <1>4, <1>5, <1>6 DEF ApiShape

\* The api keeps its part of the invariant.
LEMMA ApiShapeStep ==
  ASSUME Presses!DecisionsAssumption, ApiShape, [Presses!Next]_(Presses!vars)
  PROVE  ApiShape' /\ clock' \in {clock, clock + 1}
<1>1. ASSUME NEW d \in Presses!Decider, NEW v \in Presses!Value, dpc[d] = "new",
             Presses!Stamp(d, v)
      PROVE  ApiShape' /\ clock' \in {clock, clock + 1}
  BY <1>1, StampShape DEF Presses!Stamp
<1>2. ASSUME NEW d \in Presses!Decider, Presses!Write(d)
      PROVE  ApiShape' /\ clock' \in {clock, clock + 1}
  BY <1>2, WriteShape DEF Presses!Write
<1>3. ASSUME NEW p \in Press, dpc[p] \in {"new", "answer"}, dpc' = [dpc EXCEPT ![p] = "done"],
             UNCHANGED <<clock, decision, ask>>
      PROVE  ApiShape' /\ clock' \in {clock, clock + 1}
  <2>1. /\ dpc \in [Presses!Decider -> {"new", "stamped", "written", "answer", "done"}]
        /\ p \in Presses!Decider
    BY DEF ApiShape, Presses!Decider
  <2>2. dpc' \in [Presses!Decider -> {"new", "stamped", "written", "answer", "done"}]
    BY <1>3, <2>1
  <2>3. Begun \subseteq Begun' /\ Over \subseteq Over'
          /\ Begun' \cup Over' \subseteq Presses!Decider
    BY <1>3, <2>1 DEF Begun, Over
  <2>4. clock' <= Cardinality(Begun') + Cardinality(Over')
    BY <1>3, <2>3, CountGrows
  <2> QED BY <1>3, <2>2, <2>4 DEF ApiShape, Timed
<1>4. CASE UNCHANGED <<clock, decision, dpc, ask>>
  <2>1. Begun' = Begun /\ Over' = Over
    BY <1>4 DEF Begun, Over
  <2> QED BY <1>4, <2>1 DEF ApiShape, Timed
<1> QED BY <1>1, <1>2, <1>3, <1>4, ApiSteps, NotifyShape

\* What a decision that is made, and told of or not, has recorded.
Recorded(d) == [value |-> ask[d].value, at |-> ask[d].at]
Tells == {d \in Presses!Decider : dpc[d] \in {"written", "answer"} /\ ask[d].value # "none"}

\* All that the message may come to show, and what the document holds.
Known ==
  notices \cup edits \cup ({message} \ {None})
    \cup {x \in {decision} : x.value # "none"} \cup {Recorded(d) : d \in Tells}

\* A time tells what was decided: what carries the same one has the same value, and the times
\* of those that are not written yet are still free. What is shown was claimed.
TimesInv ==
  /\ last <= clock
  /\ \A x \in Known : x.at <= last /\ (x.at = 0 => x.value = "none")
  /\ \A x, y \in Known : x.at = y.at => x.value = y.value
  /\ \A d \in Presses!Decider : dpc[d] = "stamped" =>
       /\ ask[d].at > 0
       /\ \A x \in Known : x.at # ask[d].at
       /\ \A e \in Presses!Decider \ {d} : dpc[e] = "stamped" => ask[e].at # ask[d].at
  /\ shownAt <= last
  /\ \A x \in edits \cup ({message} \ {None}) : x.at <= shownAt

\* Where the latest decision is: still to be told of, on its way to the chat, or shown.
Untold  == \E d \in Presses!Decider : /\ dpc[d] = "written" /\ ask[d].value = decision.value
                                      /\ ask[d].value # "none" => ask[d].at = last
OnItsWay == \E n \in notices \cup edits : n.at = last /\ n.value = decision.value
Shown    == message # None /\ message.at = last /\ message.value = decision.value
Unmade   == message = None /\ last = 0 /\ decision.value = "none"

\* Unless one of the reasons the code leaves open has muddled it.
LatestInv ==
  muddled = {} => /\ decision.value # "none" => decision.at = last
                  /\ Untold \/ OnItsWay \/ Shown \/ Unmade

DecisionsInv == ApiShape /\ DisplayShape /\ PollShape /\ TimesInv /\ LatestInv

\* A step of the API, of the workers or of neither.
LEMMA DecisionSteps ==
  ASSUME Presses!DecisionsAssumption, [Presses!Next]_(Presses!vars)
  PROVE  \/ \E d \in Presses!Decider, v \in Presses!Value :
              dpc[d] = "new" /\ Presses!Stamp(d, v)
              /\ UNCHANGED <<notices, edits, shownAt, message, last, muddled>>
         \/ \E d \in Presses!Decider :
              Presses!Write(d) \/ Presses!Notify(d) \/ Presses!NotifyFails(d)
         \/ \E p \in Press :
              /\ dpc[p] = "answer" /\ dpc' = [dpc EXCEPT ![p] = "done"]
              /\ notices' = Presses!Resync(p)
              /\ UNCHANGED <<clock, decision, ask, edits, shownAt, message, last, muddled>>
         \/ /\ dpc' = dpc \/ \E p \in Press : dpc[p] = "new" /\ dpc' = [dpc EXCEPT ![p] = "done"]
            /\ UNCHANGED <<clock, decision, ask, notices, edits, shownAt, message, last, muddled>>
         \/ /\ Presses!Post \/ \E n \in notices \cup edits : Presses!Show(n)
            /\ UNCHANGED <<clock, decision, dpc, ask>>
<1>1. ASSUME NEW c \in Console, Presses!FromConsole(c)
      PROVE  \E d \in Presses!Decider, v \in Presses!Value :
               dpc[d] = "new" /\ Presses!Stamp(d, v)
               /\ UNCHANGED <<notices, edits, shownAt, message, last, muddled>>
  BY <1>1 DEF Presses!FromConsole, Presses!Decider, Presses!display, Presses!ghosts
<1>2. ASSUME NEW q \in Poller, NEW p \in Press, Presses!Forward(q, p)
      PROVE  \E d \in Presses!Decider, v \in Presses!Value :
               dpc[d] = "new" /\ Presses!Stamp(d, v)
               /\ UNCHANGED <<notices, edits, shownAt, message, last, muddled>>
  BY <1>2 DEF Presses!Forward, Presses!Decider, Presses!display, Presses!ghosts
<1>3. ASSUME NEW q \in Poller, NEW p \in Press, Presses!Answer(q, p)
      PROVE  /\ dpc[p] = "answer" /\ dpc' = [dpc EXCEPT ![p] = "done"]
             /\ notices' = Presses!Resync(p)
             /\ UNCHANGED <<clock, decision, ask, edits, shownAt, message, last, muddled>>
  BY <1>3 DEF Presses!Answer, Presses!Reached, Presses!ghosts
<1>4. ASSUME NEW q \in Poller, NEW p \in Press, Presses!Refuse(q, p) \/ Presses!Unavailable(q, p)
      PROVE  /\ dpc' = dpc \/ (dpc[p] = "new" /\ dpc' = [dpc EXCEPT ![p] = "done"])
             /\ UNCHANGED <<clock, decision, ask, notices, edits, shownAt, message, last, muddled>>
  BY <1>4 DEF Presses!Refuse, Presses!Unavailable, Presses!Reached, Presses!display, Presses!ghosts
<1>5. CASE \/ Presses!LeaseLapses \/ UNCHANGED Presses!vars \/ \E p \in Press : Presses!Presses(p)
  <2>1. UNCHANGED <<dpc, clock, decision, ask, notices, edits, shownAt, message, last, muddled>>
    BY <1>5 DEF Presses!LeaseLapses, Presses!vars, Presses!Presses, Presses!api, Presses!display,
                Presses!ghosts
  <2> QED BY <2>1
<1>6. ASSUME NEW q \in Poller,
             \/ Presses!Acquire(q) \/ Presses!Poll(q) \/ Presses!LostLease(q) \/ Presses!Handle(q)
             \/ Presses!PollRefused(q) \/ Presses!PassOver(q) \/ Presses!Dies(q)
      PROVE  UNCHANGED <<dpc, clock, decision, ask, notices, edits, shownAt, message, last,
             muddled>>
  BY <1>6 DEF Presses!Acquire, Presses!Poll, Presses!PollRefused, Presses!LostLease,
              Presses!PassOver, Presses!Dies, Presses!Handle, Presses!api, Presses!display,
              Presses!ghosts
<1>7. CASE Presses!Post \/ \E n \in notices \cup edits : Presses!Show(n)
  BY <1>7 DEF Presses!Post, Presses!api, Presses!Show, Presses!Skip, Presses!ClaimDisplay,
              Presses!Stale, Presses!Edit, Presses!EditAgain, Presses!EditFails
<1>8. CASE \/ \E d \in Presses!Decider : Presses!Decide(d)
           \/ \E q \in Poller : Presses!Acquire(q) \/ Presses!Work(q) \/ Presses!PollRefused(q)
                                \/ Presses!PassOver(q) \/ Presses!Dies(q)
  BY <1>8, <1>2, <1>3, <1>4, <1>6 DEF Presses!Decide, Presses!Work
<1> QED BY <1>1, <1>5, <1>7, <1>8 DEF Presses!Next

\* What is known of a decision is of a time that has been.
LEMMA KnownTimed ==
  ASSUME ApiShape, DisplayShape
  PROVE  Known \subseteq Timed /\ \A x \in Timed : x.at \in Nat /\ x.value \in Presses!Value
<1>1. \A d \in Tells : Recorded(d) \in Timed
  <2> SUFFICES ASSUME NEW d \in Tells PROVE Recorded(d) \in Timed
    OBVIOUS
  <2>1. ask[d] \in [value : Presses!Value, at : 0..clock, done : BOOLEAN]
    BY DEF ApiShape, Tells
  <2> QED BY <2>1 DEF Recorded, Timed
<1>2. notices \cup edits \cup ({message} \ {None}) \subseteq Timed /\ decision \in Timed
  BY DEF ApiShape, DisplayShape
<1>3. \A x \in Timed : x.at \in Nat /\ x.value \in Presses!Value
  BY DEF Timed, ApiShape
<1> QED BY <1>1, <1>2, <1>3 DEF Known

\* What is known by its time stays so when nothing becomes known but what has a time of its
\* own, or one of the same value.
LEMMA TimesGrow ==
  ASSUME TimesInv, ApiShape, DisplayShape, clock' \in {clock, clock + 1},
         last' \in Nat, last <= last', last' <= clock',
         NEW New, Known' \subseteq Known \cup New, \A j, k \in New : j = k,
         \A k \in New : /\ k.at \in Nat /\ k.at <= last' /\ (k.at = 0 => k.value = "none")
                        /\ \A x \in Known : x.at = k.at => x.value = k.value,
         \A d \in Presses!Decider : dpc'[d] = "stamped" =>
           dpc[d] = "stamped" /\ ask'[d].at = ask[d].at /\ \A k \in New : k.at # ask[d].at,
         shownAt' \in Nat, shownAt' <= last',
         \A x \in edits' \cup ({message'} \ {None}) : x.at <= shownAt'
  PROVE  TimesInv'
<1>1. last \in Nat /\ \A x \in Known : x.at \in Nat
  BY KnownTimed DEF ApiShape, DisplayShape
<1>2. \A x \in Known' : x.at <= last' /\ (x.at = 0 => x.value = "none")
  <2>1. \A x \in Known : x.at <= last' /\ (x.at = 0 => x.value = "none")
    BY <1>1 DEF TimesInv
  <2> QED BY <2>1
<1>3. \A x, y \in Known' : x.at = y.at => x.value = y.value
  <2>1. \A x, y \in Known : x.at = y.at => x.value = y.value
    BY DEF TimesInv
  <2> QED BY <2>1
<1>4. \A d \in Presses!Decider : dpc'[d] = "stamped" =>
        /\ ask'[d].at > 0
        /\ \A x \in Known' : x.at # ask'[d].at
        /\ \A e \in Presses!Decider \ {d} : dpc'[e] = "stamped" => ask'[e].at # ask'[d].at
  <2>1. \A d \in Presses!Decider : dpc[d] = "stamped" =>
          /\ ask[d].at > 0
          /\ \A x \in Known : x.at # ask[d].at
          /\ \A e \in Presses!Decider \ {d} : dpc[e] = "stamped" => ask[e].at # ask[d].at
    BY DEF TimesInv
  <2> QED BY <2>1
<1> QED BY <1>2, <1>3, <1>4 DEF TimesInv, Presses!Decider

\* What the broker, the workers and the message hold is a decision of a time that was read.
LEMMA DisplayShapeStep ==
  ASSUME Presses!DecisionsAssumption, ApiShape, DisplayShape, [Presses!Next]_(Presses!vars)
  PROVE  DisplayShape'
<1>1. /\ notices \subseteq Timed /\ edits \subseteq Timed /\ message \in Timed \cup {None}
      /\ shownAt \in 0..clock /\ last \in 0..clock /\ muddled \subseteq Presses!Reason
      /\ message = None => edits = {} /\ shownAt = 0
      /\ clock \in Nat /\ decision \in Timed
  BY DEF DisplayShape, ApiShape
<1>2. clock' \in {clock, clock + 1} /\ clock' \in Nat /\ 0..clock \subseteq 0..clock'
      /\ Timed \subseteq Timed' /\ clock' \in 0..clock'
  BY <1>1, ApiShapeStep, TimeGoesOn
<1>3. \A x \in Timed : x # None /\ x.at \in 0..clock
  BY <1>1 DEF Timed, Presses!DecisionsAssumption
<1>4. \A d \in Presses!Decider :
        ask[d].value \in Presses!Value /\ ask[d].at \in 0..clock /\ Recorded(d) \in Timed
  <2> SUFFICES ASSUME NEW d \in Presses!Decider
               PROVE  ask[d].value \in Presses!Value /\ ask[d].at \in 0..clock
                        /\ Recorded(d) \in Timed
    OBVIOUS
  <2>1. ask[d] \in [value : Presses!Value, at : 0..clock, done : BOOLEAN]
    BY DEF ApiShape
  <2> QED BY <2>1 DEF Recorded, Timed
<1>5. ASSUME UNCHANGED <<notices, edits, shownAt, message, last, muddled>>
      PROVE  DisplayShape'
  BY <1>1, <1>2, <1>5 DEF DisplayShape
<1>6. ASSUME NEW d \in Presses!Decider, Presses!Write(d)
      PROVE  DisplayShape'
  <2>1. UNCHANGED <<notices, edits, shownAt, message>> /\ last' \in {last, ask[d].at}
    BY <1>6 DEF Presses!Write, Presses!Later, Presses!display, Presses!ghosts
  <2>2. muddled' \in {muddled, muddled \cup {"order"}}
    BY <1>6 DEF Presses!Write, Presses!Muddle, Presses!ghosts
  <2> QED BY <1>1, <1>2, <1>4, <2>1, <2>2 DEF DisplayShape, Presses!Reason
<1>7. ASSUME NEW d \in Presses!Decider, Presses!Notify(d)
      PROVE  DisplayShape'
  <2>1. /\ notices' = notices \cup {Presses!NoticeOf(d)} /\ UNCHANGED <<edits, shownAt, message>>
        /\ last' \in {last, Presses!NoticeOf(d).at}
        /\ clock' = IF ask[d].value = "none" THEN clock + 1 ELSE clock
    BY <1>7 DEF Presses!Notify, Presses!Later
  <2>2. muddled' \in {muddled, muddled \cup {"cleared"}}
    BY <1>7 DEF Presses!Notify, Presses!Muddle
  <2>3. Presses!NoticeOf(d) \in Timed' /\ Presses!NoticeOf(d).at \in 0..clock'
    <3>1. CASE ask[d].value = "none"
      BY <1>2, <1>4, <2>1, <3>1 DEF Presses!NoticeOf, Timed
    <3>2. CASE ask[d].value # "none"
      BY <1>2, <1>4, <2>1, <3>2 DEF Presses!NoticeOf, Timed
    <3> QED BY <3>1, <3>2
  <2> QED BY <1>1, <1>2, <2>1, <2>2, <2>3 DEF DisplayShape, Presses!Reason
<1>8. ASSUME NEW d \in Presses!Decider, Presses!NotifyFails(d)
      PROVE  DisplayShape'
  BY <1>1, <1>2, <1>8 DEF DisplayShape, Presses!NotifyFails, Presses!Muddle, Presses!display,
                          Presses!Reason
<1>9. ASSUME NEW p \in Press, notices' = Presses!Resync(p),
             UNCHANGED <<edits, shownAt, message, last, muddled>>
      PROVE  DisplayShape'
  <2>1. notices' \subseteq notices \cup {Recorded(p)} /\ p \in Presses!Decider
    BY <1>9 DEF Presses!Resync, Recorded, Presses!Decider
  <2> QED BY <1>1, <1>2, <1>4, <1>9, <2>1 DEF DisplayShape
<1>10. CASE Presses!Post
  <2>1. message' = [value |-> "none", at |-> 0]
          /\ UNCHANGED <<notices, edits, shownAt, last, muddled>>
    BY <1>10 DEF Presses!Post, Presses!ghosts
  <2>2. message' \in Timed' /\ message' # None
    BY <1>2, <1>3, <2>1 DEF Timed, Presses!Value, Presses!DecisionsAssumption
  <2> QED BY <1>1, <1>2, <2>1, <2>2 DEF DisplayShape
<1>11. ASSUME NEW n \in notices \cup edits, Presses!Show(n)
       PROVE  DisplayShape'
  <2>1. notices' \subseteq notices \cup {n} /\ edits' \subseteq edits \cup {n} /\ last' = last
        /\ shownAt' \in {shownAt, n.at} /\ message' \in {message, n}
    BY <1>11 DEF Presses!Show, Presses!Skip, Presses!ClaimDisplay, Presses!Stale, Presses!Edit,
                 Presses!EditAgain, Presses!EditFails, Presses!ghosts
  <2>2. muddled' \in {muddled, muddled \cup {"early"}, muddled \cup {"overtaken"},
        muddled \cup {"lost"}}
    BY <1>11 DEF Presses!Show, Presses!Skip, Presses!ClaimDisplay, Presses!Stale, Presses!Edit,
                 Presses!EditAgain, Presses!EditFails, Presses!ghosts, Presses!Muddle
  <2>3. message' = None => edits' = {} /\ shownAt' = 0
    <3>1. message' = None => message = None
      BY <1>1, <1>3, <2>1
    <3>2. message = None => Presses!Skip(n)
      BY <1>1, <1>11 DEF Presses!Show, Presses!Skip, Presses!ClaimDisplay, Presses!Stale,
                         Presses!Edit, Presses!EditAgain, Presses!EditFails
    <3>3. Presses!Skip(n) => edits' = edits /\ shownAt' = shownAt
      BY DEF Presses!Skip
    <3> QED BY <1>1, <3>1, <3>2, <3>3
  <2> QED BY <1>1, <1>2, <1>3, <2>1, <2>2, <2>3 DEF DisplayShape, Presses!Reason
<1> QED BY <1>5, <1>6, <1>7, <1>8, <1>9, <1>10, <1>11, DecisionSteps

\* What no step of the decision changes keeps its times.
LEMMA TimesStay ==
  ASSUME TimesInv, ApiShape, DisplayShape, clock' \in {clock, clock + 1},
         last' = last, Known' \subseteq Known,
         \A d \in Presses!Decider : dpc'[d] = "stamped" =>
           dpc[d] = "stamped" /\ ask'[d].at = ask[d].at,
         shownAt' \in Nat, shownAt' <= last,
         \A x \in edits' \cup ({message'} \ {None}) : x.at <= shownAt'
  PROVE  TimesInv'
<1> DEFINE New == {}
<1>1. last' \in Nat /\ last <= last' /\ last' <= clock' /\ shownAt' <= last'
  BY DEF DisplayShape, ApiShape
<1>2. /\ Known' \subseteq Known \cup New /\ \A j, k \in New : j = k
      /\ \A k \in New : /\ k.at \in Nat /\ k.at <= last' /\ (k.at = 0 => k.value = "none")
                        /\ \A x \in Known : x.at = k.at => x.value = k.value
      /\ \A d \in Presses!Decider : dpc'[d] = "stamped" =>
           dpc[d] = "stamped" /\ ask'[d].at = ask[d].at /\ \A k \in New : k.at # ask[d].at
  OBVIOUS
<1> HIDE DEF New
<1> QED BY <1>1, <1>2, TimesGrow

\* A decision is stamped with a time that nothing carries yet.
LEMMA StampTimes ==
  ASSUME ApiShape, DisplayShape, TimesInv, NEW d \in Presses!Decider, NEW v \in Presses!Value,
         dpc[d] = "new", Presses!Stamp(d, v),
         UNCHANGED <<notices, edits, shownAt, message, last, muddled>>
  PROVE  TimesInv' /\ Known' = Known
<1>1. /\ dpc \in [Presses!Decider -> {"new", "stamped", "written", "answer", "done"}]
      /\ \A e \in Presses!Decider : ask[e].at \in 0..clock
      /\ clock \in Nat /\ last \in 0..clock /\ DOMAIN ask = Presses!Decider
  BY DEF ApiShape, DisplayShape
<1>2. /\ clock' = clock + 1 /\ decision' = decision
      /\ ask' = [ask EXCEPT ![d] = [value |-> v, at |-> clock + 1, done |-> FALSE]]
      /\ dpc' = [dpc EXCEPT ![d] = "stamped"]
  BY DEF Presses!Stamp, Presses!Reached
<1>3. ask'[d].at = clock + 1 /\ \A e \in Presses!Decider \ {d} : ask'[e] = ask[e]
        /\ dpc'[e] = dpc[e]
  BY <1>1, <1>2
<1>4. Known' = Known
  <2>1. Tells' = Tells /\ d \notin Tells
    BY <1>1, <1>2, <1>3 DEF Tells
  <2>2. \A e \in Tells : Recorded(e)' = Recorded(e)
    BY <1>3, <2>1 DEF Tells, Recorded
  <2> QED BY <1>2, <2>1, <2>2 DEF Known
<1>5. \A x \in Known : x.at \in Nat /\ x.at <= last
  BY KnownTimed DEF TimesInv
<1>6. \A e \in Presses!Decider : dpc'[e] = "stamped" =>
        /\ ask'[e].at > 0
        /\ \A x \in Known : x.at # ask'[e].at
        /\ \A f \in Presses!Decider \ {e} : dpc'[f] = "stamped" => ask'[f].at # ask'[e].at
  <2>1. \A e \in Presses!Decider : dpc[e] = "stamped" =>
          /\ ask[e].at > 0
          /\ \A x \in Known : x.at # ask[e].at
          /\ \A f \in Presses!Decider \ {e} : dpc[f] = "stamped" => ask[f].at # ask[e].at
    BY DEF TimesInv
  <2>2. \A e \in Presses!Decider \ {d} : ask'[e].at # ask'[d].at
    BY <1>1, <1>3
  <2>3. ask'[d].at > 0 /\ \A x \in Known : x.at # ask'[d].at
    BY <1>1, <1>3, <1>5
  <2> QED BY <1>3, <2>1, <2>2, <2>3
<1>7. last' <= clock'
  BY <1>1, <1>2
<1> QED BY <1>2, <1>4, <1>6, <1>7 DEF TimesInv

\* The update makes a decision known by the time it was stamped with, or makes none known.
LEMMA WriteTimes ==
  ASSUME ApiShape, DisplayShape, TimesInv, NEW d \in Presses!Decider, Presses!Write(d)
  PROVE  TimesInv'
<1>1. /\ dpc \in [Presses!Decider -> {"new", "stamped", "written", "answer", "done"}]
      /\ \A e \in Presses!Decider : ask[e].at \in 0..clock
      /\ clock \in Nat /\ last \in 0..clock /\ DOMAIN ask = Presses!Decider /\ shownAt \in 0..clock
  BY DEF ApiShape, DisplayShape
<1>2. /\ dpc[d] = "stamped" /\ clock' = clock
      /\ UNCHANGED <<notices, edits, shownAt, message>>
  BY DEF Presses!Write, Presses!display
<1>3. /\ \A e \in Presses!Decider : dpc[e] = "stamped" =>
           /\ ask[e].at > 0
           /\ \A x \in Known : x.at # ask[e].at
           /\ \A f \in Presses!Decider \ {e} : dpc[f] = "stamped" => ask[f].at # ask[e].at
      /\ shownAt <= last /\ last <= clock
      /\ \A x \in edits \cup ({message} \ {None}) : x.at <= shownAt
  BY DEF TimesInv
<1>4. CASE Presses!Matches(d)
  <2> DEFINE New == {[value |-> ask[d].value, at |-> ask[d].at]}
  <2>1. /\ decision' = [value |-> ask[d].value, at |-> IF ask[d].value = "none" THEN 0
             ELSE ask[d].at]
        /\ ask' = [ask EXCEPT ![d].done = TRUE]
        /\ dpc' = [dpc EXCEPT ![d] = "written"]
        /\ last' = IF ask[d].at > last THEN ask[d].at ELSE last
    BY <1>4 DEF Presses!Write, Presses!Reached, Presses!Later
  <2>2. /\ \A e \in Presses!Decider : Recorded(e)' = Recorded(e) /\ ask'[e].at = ask[e].at
                                        /\ ask'[e].value = ask[e].value
        /\ \A e \in Presses!Decider \ {d} : dpc'[e] = dpc[e]
        /\ dpc'[d] = "written"
    <3>1. ask[d] \in [value : Presses!Value, at : 0..clock, done : BOOLEAN]
      BY DEF ApiShape
    <3>2. ask'[d].at = ask[d].at /\ ask'[d].value = ask[d].value
      BY <1>1, <2>1, <3>1
    <3> QED BY <1>1, <2>1, <3>2 DEF Recorded
  <2>3. Known' \subseteq Known \cup New
    <3>1. {x \in {decision'} : x.value # "none"} \subseteq New
      BY <2>1
    <3>2. \A e \in Tells' : e \in Tells \/ e = d
      BY <2>2 DEF Tells
    <3>3. \A e \in Tells' : Recorded(e)' \in {Recorded(h) : h \in Tells} \cup New
      BY <2>2, <3>2 DEF Recorded, Tells
    <3> QED BY <1>2, <3>1, <3>3 DEF Known
  <2>4. last' \in Nat /\ last <= last' /\ last' <= clock' /\ ask[d].at <= last' /\ ask[d].at \in Nat
    BY <1>1, <1>2, <2>1
  <2>5. \A k \in New : /\ k.at \in Nat /\ k.at <= last' /\ (k.at = 0 => k.value = "none")
                       /\ \A x \in Known : x.at = k.at => x.value = k.value
    BY <1>2, <1>3, <2>4
  <2>6. \A e \in Presses!Decider : dpc'[e] = "stamped" =>
          dpc[e] = "stamped" /\ ask'[e].at = ask[e].at /\ \A k \in New : k.at # ask[e].at
    BY <1>2, <1>3, <2>2
  <2>7. shownAt' \in Nat /\ shownAt' <= last'
          /\ \A x \in edits' \cup ({message'} \ {None}) : x.at <= shownAt'
    BY <1>1, <1>2, <1>3, <2>4
  <2>8. \A j, k \in New : j = k
    OBVIOUS
  <2> HIDE DEF New
  <2> QED BY <1>2, <2>3, <2>4, <2>5, <2>6, <2>7, <2>8, TimesGrow
<1>5. CASE ~Presses!Matches(d)
  <2>1. /\ decision' = decision /\ last' = last
        /\ ask' = [ask EXCEPT ![d] = [value |-> decision.value, at |-> decision.at, done |-> FALSE]]
        /\ \E s \in {"answer", "done"} : dpc' = [dpc EXCEPT ![d] = s]
    BY <1>5 DEF Presses!Write, Presses!Reached, Presses!ghosts
  <2>2. /\ \A e \in Presses!Decider \ {d} : dpc'[e] = dpc[e] /\ ask'[e] = ask[e]
        /\ dpc'[d] \in {"answer", "done"}
        /\ ask'[d].value = decision.value /\ ask'[d].at = decision.at
    BY <1>1, <2>1
  <2>3. decision = [value |-> decision.value, at |-> decision.at]
    BY DEF ApiShape, Timed
  <2>4. Known' \subseteq Known
    <3>1. ASSUME NEW e \in Tells' PROVE Recorded(e)' \in Known
      <4>1. CASE e = d
        BY <2>2, <2>3, <3>1, <4>1 DEF Tells, Recorded, Known
      <4>2. CASE e # d
        <5>1. e \in Tells /\ Recorded(e)' = Recorded(e)
          BY <2>2, <3>1, <4>2 DEF Tells, Recorded
        <5> QED BY <5>1 DEF Known
      <4> QED BY <4>1, <4>2
    <3> QED BY <1>2, <2>1, <3>1 DEF Known
  <2>5. \A e \in Presses!Decider : dpc'[e] = "stamped" =>
          dpc[e] = "stamped" /\ ask'[e].at = ask[e].at
    BY <2>2
  <2> QED BY <1>1, <1>2, <1>3, <2>1, <2>4, <2>5, TimesStay
<1> QED BY <1>4, <1>5

\* A decision that is taken back is told of with a time of its own.
LEMMA NotifyTimes ==
  ASSUME ApiShape, DisplayShape, TimesInv, NEW d \in Presses!Decider, Presses!Notify(d)
  PROVE  TimesInv'
<1>1. /\ \A e \in Presses!Decider : ask[e].at \in 0..clock
      /\ dpc \in [Presses!Decider -> {"new", "stamped", "written", "answer", "done"}]
      /\ clock \in Nat /\ last \in 0..clock /\ shownAt \in 0..clock
  BY DEF ApiShape, DisplayShape
<1>2. /\ dpc[d] = "written" /\ notices' = notices \cup {Presses!NoticeOf(d)}
      /\ clock' = (IF ask[d].value = "none" THEN clock + 1 ELSE clock)
      /\ last' = (IF Presses!NoticeOf(d).at > last THEN Presses!NoticeOf(d).at ELSE last)
      /\ UNCHANGED <<decision, ask, edits, shownAt, message>>
      /\ \E s \in {"answer", "done"} : dpc' = [dpc EXCEPT ![d] = s]
  BY DEF Presses!Notify, Presses!Reached, Presses!Later
<1>3. /\ shownAt <= last /\ last <= clock
      /\ \A x \in edits \cup ({message} \ {None}) : x.at <= shownAt
  BY DEF TimesInv
<1>4. \A e \in Presses!Decider : dpc'[e] = "stamped" => dpc[e] = "stamped" /\ ask'[e].at = ask[e].at
  BY <1>1, <1>2
<1>5. {Recorded(e)' : e \in Tells'} \subseteq {Recorded(e) : e \in Tells} \cup {Recorded(d)}
        /\ \A e \in Tells' \ {d} : e \in Tells
  BY <1>1, <1>2 DEF Tells, Recorded
<1>6. (ask[d].value # "none" => d \in Tells) /\ (d \in Tells' => d \in Tells)
  BY <1>2 DEF Tells
<1>7. {Recorded(e)' : e \in Tells'} \subseteq {Recorded(e) : e \in Tells}
  BY <1>2, <1>5, <1>6 DEF Recorded
<1>8. CASE ask[d].value # "none"
  <2>1. Presses!NoticeOf(d) = Recorded(d) /\ Presses!NoticeOf(d).at = ask[d].at
    BY <1>8 DEF Presses!NoticeOf, Recorded
  <2>2. Recorded(d) \in Known /\ Recorded(d).at = ask[d].at
    BY <1>6, <1>8 DEF Known, Recorded
  <2>3. ask[d].at <= last
    BY <2>2 DEF TimesInv
  <2>4. last' = last /\ clock' = clock
    BY <1>1, <1>2, <1>8, <2>1, <2>3
  <2>5. Known' \subseteq Known
    BY <1>2, <1>7, <2>1, <2>2 DEF Known
  <2> QED BY <1>1, <1>2, <1>3, <1>4, <2>4, <2>5, TimesStay
<1>9. CASE ask[d].value = "none"
  <2> DEFINE New == {[value |-> "none", at |-> clock + 1]}
  <2>1. Presses!NoticeOf(d) = [value |-> "none", at |-> clock + 1]
    BY <1>9 DEF Presses!NoticeOf
  <2>2. clock' = clock + 1 /\ last' = clock + 1
    BY <1>1, <1>2, <1>9, <2>1
  <2>3. Known' \subseteq Known \cup New
    BY <1>2, <1>7, <2>1 DEF Known
  <2>4. \A x \in Known : x.at \in Nat /\ x.at <= clock
    BY <1>1, KnownTimed DEF TimesInv
  <2>5. \A k \in New : /\ k.at \in Nat /\ k.at <= last' /\ (k.at = 0 => k.value = "none")
                       /\ \A x \in Known : x.at = k.at => x.value = k.value
    BY <1>1, <2>2, <2>4
  <2>6. \A e \in Presses!Decider : dpc'[e] = "stamped" =>
          dpc[e] = "stamped" /\ ask'[e].at = ask[e].at /\ \A k \in New : k.at # ask[e].at
    BY <1>1, <1>4
  <2>7. \A j, k \in New : j = k
    OBVIOUS
  <2>8. last' \in Nat /\ last <= last' /\ last' <= clock' /\ shownAt' \in Nat /\ shownAt' <= last'
        /\ \A x \in edits' \cup ({message'} \ {None}) : x.at <= shownAt'
    BY <1>1, <1>2, <1>3, <2>2
  <2> HIDE DEF New
  <2> QED BY <2>2, <2>3, <2>5, <2>6, <2>7, <2>8, TimesGrow
<1> QED BY <1>8, <1>9

\* What is recorded by a decision that is not written anew: nothing becomes known.
LEMMA TellsStay ==
  ASSUME UNCHANGED ask, \A d \in Presses!Decider : dpc'[d] \in {"written", "answer"} =>
                          dpc[d] \in {"written", "answer"}
  PROVE  {Recorded(d)' : d \in Tells'} \subseteq {Recorded(d) : d \in Tells}
<1>1. \A d \in Tells' : d \in Tells /\ Recorded(d)' = Recorded(d)
  BY DEF Tells, Recorded
<1> QED BY <1>1

\* The notice is lost, a press is answered or ends, or nothing of it is concerned.
LEMMA RestTimes ==
  ASSUME ApiShape, DisplayShape, TimesInv, NEW d \in Presses!Decider,
         \/ Presses!NotifyFails(d)
         \/ /\ dpc[d] = "answer" /\ dpc' = [dpc EXCEPT ![d] = "done"]
            /\ notices' = Presses!Resync(d)
            /\ UNCHANGED <<clock, decision, ask, edits, shownAt, message, last, muddled>>
         \/ /\ dpc' = dpc \/ (dpc[d] = "new" /\ dpc' = [dpc EXCEPT ![d] = "done"])
            /\ UNCHANGED <<clock, decision, ask, notices, edits, shownAt, message, last, muddled>>
  PROVE  TimesInv'
<1>1. /\ clock \in Nat /\ shownAt \in Nat /\ shownAt <= last
      /\ dpc \in [Presses!Decider -> {"new", "stamped", "written", "answer", "done"}]
      /\ \A x \in edits \cup ({message} \ {None}) : x.at <= shownAt
  BY DEF ApiShape, DisplayShape, TimesInv
<1>2. /\ UNCHANGED <<clock, decision, ask, edits, shownAt, message, last>>
      /\ dpc' = dpc \/ (dpc[d] = "written" /\ dpc' = [dpc EXCEPT ![d] = "answer"])
         \/ dpc' = [dpc EXCEPT ![d] = "done"]
  BY DEF Presses!NotifyFails, Presses!Reached, Presses!api, Presses!display
<1>3. \A e \in Presses!Decider :
        /\ dpc'[e] \in {"written", "answer"} => dpc[e] \in {"written", "answer"}
        /\ dpc'[e] = "stamped" => dpc[e] = "stamped"
  BY <1>1, <1>2
<1>4. notices' \subseteq Known
  <2>1. CASE Presses!NotifyFails(d)
    BY <2>1 DEF Presses!NotifyFails, Presses!display, Known
  <2>2. CASE notices' = notices
    BY <2>2 DEF Known
  <2>3. CASE dpc[d] = "answer" /\ notices' = Presses!Resync(d)
    <3>1. notices' = notices \/ (ask[d].value # "none" /\ notices' = notices \cup {Recorded(d)})
      BY <2>3 DEF Presses!Resync, Recorded
    <3>2. ask[d].value # "none" => d \in Tells
      BY <2>3 DEF Tells
    <3> QED BY <3>1, <3>2 DEF Known
  <2> QED BY <2>1, <2>2, <2>3
<1>5. Known' \subseteq Known
  <2>1. {Recorded(e)' : e \in Tells'} \subseteq Known
    BY <1>2, <1>3, TellsStay DEF Known
  <2> QED BY <1>2, <1>4, <2>1 DEF Known
<1> QED BY <1>1, <1>2, <1>3, <1>5, TimesStay

\* The message is posted, and shows nothing but what was claimed.
LEMMA ShowTimes ==
  ASSUME ApiShape, DisplayShape, TimesInv, UNCHANGED <<clock, decision, dpc, ask>>,
         Presses!Post \/ \E n \in notices \cup edits : Presses!Show(n)
  PROVE  TimesInv'
<1>1. /\ clock \in Nat /\ last \in Nat /\ shownAt \in Nat /\ shownAt <= last /\ last <= clock
      /\ \A x \in edits \cup ({message} \ {None}) : x.at <= shownAt
      /\ \A x \in Known : x.at \in Nat /\ x.at <= last
  BY KnownTimed DEF ApiShape, DisplayShape, TimesInv
<1>2. {Recorded(e)' : e \in Tells'} = {Recorded(e) : e \in Tells}
  <2>1. Tells' = Tells /\ \A e \in Tells : Recorded(e)' = Recorded(e)
    BY DEF Tells, Recorded
  <2> QED BY <2>1
<1>3. CASE Presses!Post
  <2> DEFINE New == {[value |-> "none", at |-> 0]}
  <2>1. message' = [value |-> "none", at |-> 0] /\ UNCHANGED <<notices, edits, shownAt, last>>
    BY <1>3 DEF Presses!Post, Presses!ghosts
  <2>2. Known' \subseteq Known \cup New
    BY <1>2, <2>1 DEF Known
  <2>3. \A k \in New : /\ k.at \in Nat /\ k.at <= last' /\ (k.at = 0 => k.value = "none")
                       /\ \A x \in Known : x.at = k.at => x.value = k.value
    BY <1>1, <2>1 DEF TimesInv
  <2>4. \A e \in Presses!Decider : dpc'[e] = "stamped" =>
          dpc[e] = "stamped" /\ ask'[e].at = ask[e].at /\ \A k \in New : k.at # ask[e].at
    <3>1. \A e \in Presses!Decider : dpc[e] = "stamped" => ask[e].at > 0
      BY DEF TimesInv
    <3>2. \A e \in Presses!Decider : dpc[e] = "stamped" => ask[e].at # 0
      BY <3>1
    <3> QED BY <3>2
  <2>5. \A x \in edits' \cup ({message'} \ {None}) : x.at <= shownAt'
    BY <1>1, <2>1
  <2>6. \A j, k \in New : j = k
    OBVIOUS
  <2>7. last' \in Nat /\ last <= last' /\ last' <= clock' /\ shownAt' \in Nat /\ shownAt' <= last'
    BY <1>1, <2>1
  <2> HIDE DEF New
  <2> QED BY <2>2, <2>3, <2>4, <2>5, <2>6, <2>7, TimesGrow
<1>4. ASSUME NEW n \in notices \cup edits, Presses!Show(n)
      PROVE  TimesInv'
  <2>1. n \in Known
    BY DEF Known
  <2>2. /\ notices' \subseteq notices \cup {n} /\ edits' \subseteq edits \cup {n} /\ last' = last
        /\ message' \in {message, n}
    BY <1>4 DEF Presses!Show, Presses!Skip, Presses!ClaimDisplay, Presses!Stale, Presses!Edit,
                Presses!EditAgain, Presses!EditFails, Presses!ghosts
  <2>3. Known' \subseteq Known
    BY <1>2, <2>1, <2>2 DEF Known
  <2>4. /\ shownAt' \in Nat /\ shownAt' <= last
        /\ \A x \in edits' \cup ({message'} \ {None}) : x.at <= shownAt'
    <3>1. CASE Presses!ClaimDisplay(n)
      <4>1. /\ shownAt' = n.at /\ edits' = edits \cup {n} /\ message' = message /\ shownAt <= n.at
        BY <3>1 DEF Presses!ClaimDisplay, Presses!Newer
      <4>2. \A x \in edits \cup ({message} \ {None}) : x.at \in Nat
        BY <1>1 DEF Known
      <4> QED BY <1>1, <2>1, <4>1, <4>2
    <3>2. CASE Presses!Edit(n)
      <4>1. shownAt' = shownAt /\ edits' \subseteq edits /\ message' = n /\ n \in edits
        BY <3>2 DEF Presses!Edit
      <4> QED BY <1>1, <4>1
    <3>3. CASE Presses!Skip(n) \/ Presses!Stale(n) \/ Presses!EditAgain(n) \/ Presses!EditFails(n)
      <4>1. shownAt' = shownAt /\ edits' \subseteq edits /\ message' = message
        BY <3>3 DEF Presses!Skip, Presses!Stale, Presses!EditAgain, Presses!EditFails
      <4> QED BY <1>1, <4>1
    <3> QED BY <1>4, <3>1, <3>2, <3>3 DEF Presses!Show
  <2> QED BY <1>1, <2>2, <2>3, <2>4, TimesStay
<1> QED BY <1>3, <1>4

\* Every step keeps the times.
LEMMA TimesStep ==
  ASSUME Presses!DecisionsAssumption, ApiShape, DisplayShape, TimesInv,
         [Presses!Next]_(Presses!vars)
  PROVE  TimesInv'
<1>1. Press \subseteq Presses!Decider
  BY DEF Presses!Decider
<1>2. CASE UNCHANGED <<clock, decision, dpc, ask, notices, edits, shownAt, message, last>>
  BY <1>2 DEF TimesInv, Known, Tells, Recorded
<1> QED BY <1>1, <1>2, StampTimes, WriteTimes, NotifyTimes, RestTimes, ShowTimes, DecisionSteps

\* A decision that is begun concerns none that is made; one that is made is the latest, and
\* is still to be told of, or another was before it.
LEMMA DecideLatest ==
  ASSUME ApiShape, DisplayShape, TimesInv, LatestInv, NEW d \in Presses!Decider,
         \/ \E v \in Presses!Value :
              dpc[d] = "new" /\ Presses!Stamp(d, v)
              /\ UNCHANGED <<notices, edits, shownAt, message, last, muddled>>
         \/ Presses!Write(d)
  PROVE  LatestInv'
<1>1. /\ dpc \in [Presses!Decider -> {"new", "stamped", "written", "answer", "done"}]
      /\ clock \in Nat /\ last \in 0..clock /\ DOMAIN ask = Presses!Decider
      /\ \A e \in Presses!Decider : ask[e].at \in 0..clock
  BY DEF ApiShape, DisplayShape
<1>2. ASSUME UNCHANGED <<decision, notices, edits, message, last, muddled>>,
             \A e \in Presses!Decider : dpc[e] = "written" =>
               dpc'[e] = "written" /\ ask'[e] = ask[e]
      PROVE  LatestInv'
  <2>1. Untold => Untold'
    <3> SUFFICES ASSUME NEW e \in Presses!Decider,
                        dpc[e] = "written" /\ ask[e].value = decision.value
                        /\ (ask[e].value # "none" => ask[e].at = last)
                 PROVE  Untold'
      BY DEF Untold
    <3>1. dpc'[e] = "written" /\ ask'[e] = ask[e]
      BY <1>2
    <3> QED BY <1>2, <3>1 DEF Untold
  <2> QED BY <1>2, <2>1 DEF LatestInv, OnItsWay, Shown, Unmade
<1>3. ASSUME NEW v \in Presses!Value, dpc[d] = "new", Presses!Stamp(d, v),
             UNCHANGED <<notices, edits, shownAt, message, last, muddled>>
      PROVE  LatestInv'
  <2>1. /\ decision' = decision
        /\ ask' = [ask EXCEPT ![d] = [value |-> v, at |-> clock + 1, done |-> FALSE]]
        /\ dpc' = [dpc EXCEPT ![d] = "stamped"]
    BY <1>3 DEF Presses!Stamp, Presses!Reached
  <2>2. \A e \in Presses!Decider : dpc[e] = "written" => dpc'[e] = "written" /\ ask'[e] = ask[e]
    BY <1>1, <1>3, <2>1
  <2> QED BY <1>2, <1>3, <2>1, <2>2
<1>4. ASSUME Presses!Write(d), Presses!Matches(d)
      PROVE  LatestInv'
  <2>1. /\ decision' = [value |-> ask[d].value, at |-> IF ask[d].value = "none" THEN 0
             ELSE ask[d].at]
        /\ ask' = [ask EXCEPT ![d].done = TRUE]
        /\ dpc' = [dpc EXCEPT ![d] = "written"]
        /\ last' = IF ask[d].at > last THEN ask[d].at ELSE last
        /\ muddled' = IF last > ask[d].at THEN muddled \cup {"order"} ELSE muddled
    BY <1>4 DEF Presses!Write, Presses!Reached, Presses!Later, Presses!Muddle
  <2> SUFFICES ASSUME muddled' = {}
               PROVE  (decision'.value # "none" => decision'.at = last') /\ Untold'
    BY DEF LatestInv
  <2>2. last' = ask[d].at
    BY <1>1, <2>1
  <2>3. ask'[d].at = ask[d].at /\ ask'[d].value = ask[d].value /\ dpc'[d] = "written"
    <3>1. ask[d] \in [value : Presses!Value, at : 0..clock, done : BOOLEAN]
      BY DEF ApiShape
    <3> QED BY <1>1, <2>1, <3>1
  <2>4. decision'.value = ask'[d].value /\ (decision'.value # "none" => decision'.at = last')
    BY <2>1, <2>2, <2>3
  <2> QED BY <2>2, <2>3, <2>4 DEF Untold
<1>5. ASSUME Presses!Write(d), ~Presses!Matches(d)
      PROVE  LatestInv'
  <2>1. /\ dpc[d] = "stamped" /\ UNCHANGED <<decision, notices, edits, message, last, muddled>>
        /\ ask' = [ask EXCEPT ![d] = [value |-> decision.value, at |-> decision.at, done |-> FALSE]]
        /\ \E s \in {"answer", "done"} : dpc' = [dpc EXCEPT ![d] = s]
    BY <1>5 DEF Presses!Write, Presses!Reached, Presses!ghosts, Presses!display
  <2>2. \A e \in Presses!Decider : dpc[e] = "written" => dpc'[e] = "written" /\ ask'[e] = ask[e]
    BY <1>1, <2>1
  <2> QED BY <1>2, <2>1, <2>2
<1> QED BY <1>3, <1>4, <1>5

\* The latest decision is told of with the latest time.
LEMMA NotifyLatest ==
  ASSUME ApiShape, DisplayShape, TimesInv, LatestInv, NEW d \in Presses!Decider, Presses!Notify(d)
  PROVE  LatestInv'
<1>1. /\ dpc \in [Presses!Decider -> {"new", "stamped", "written", "answer", "done"}]
      /\ clock \in Nat /\ last \in 0..clock
  BY DEF ApiShape, DisplayShape
<1>2. /\ dpc[d] = "written" /\ notices' = notices \cup {Presses!NoticeOf(d)}
      /\ last' = (IF Presses!NoticeOf(d).at > last THEN Presses!NoticeOf(d).at ELSE last)
      /\ UNCHANGED <<decision, ask, edits, shownAt, message>>
      /\ \E s \in {"answer", "done"} : dpc' = [dpc EXCEPT ![d] = s]
      /\ muddled' = IF ask[d].value = "none" /\ decision.value # "none"
                    THEN muddled \cup {"cleared"} ELSE muddled
  BY DEF Presses!Notify, Presses!Reached, Presses!Later, Presses!Muddle
<1> SUFFICES ASSUME muddled' = {}
             PROVE  /\ decision'.value # "none" => decision'.at = last'
                    /\ Untold' \/ OnItsWay' \/ Shown' \/ Unmade'
  BY DEF LatestInv
<1>3. muddled = {} /\ (ask[d].value = "none" => decision.value = "none")
  BY <1>2
<1>4. CASE ask[d].value = "none"
  <2>1. Presses!NoticeOf(d) = [value |-> "none", at |-> clock + 1]
    BY <1>4 DEF Presses!NoticeOf
  <2>2. last' = clock + 1
    BY <1>1, <1>2, <2>1
  <2>3. OnItsWay'
    BY <1>2, <1>3, <1>4, <2>1, <2>2 DEF OnItsWay
  <2> QED BY <1>2, <1>3, <1>4, <2>3
<1>5. CASE ask[d].value # "none"
  <2>1. /\ Presses!NoticeOf(d).at = ask[d].at /\ Presses!NoticeOf(d).value = ask[d].value
    BY <1>5 DEF Presses!NoticeOf
  <2>2. Recorded(d) \in Known /\ Recorded(d).at = ask[d].at
    BY <1>2, <1>5 DEF Known, Tells, Recorded
  <2>3. last' = last
    <3>1. ask[d].at <= last
      BY <2>2 DEF TimesInv
    <3>2. ask[d].at \in Nat
      BY <2>2, KnownTimed
    <3> QED BY <1>1, <1>2, <2>1, <3>1, <3>2
  <2>4. CASE Untold
    <3>1. PICK e \in Presses!Decider : /\ dpc[e] = "written" /\ ask[e].value = decision.value
                                       /\ ask[e].value # "none" => ask[e].at = last
      BY <2>4 DEF Untold
    <3>2. ASSUME e = d PROVE OnItsWay'
      <4>1. Presses!NoticeOf(d) \in notices' /\ UNCHANGED <<decision, last>>
        BY <1>2, <2>3
      <4>2. Presses!NoticeOf(d).at = last /\ Presses!NoticeOf(d).value = decision.value
        BY <1>5, <2>1, <3>1, <3>2
      <4> QED BY <4>1, <4>2 DEF OnItsWay
    <3>3. ASSUME e # d PROVE Untold'
      <4>1. dpc'[e] = "written"
        BY <1>1, <1>2, <3>1, <3>3
      <4>2. UNCHANGED <<decision, ask, last>>
        BY <1>2, <2>3
      <4> QED BY <3>1, <4>1, <4>2 DEF Untold
    <3>4. decision.value # "none" => decision.at = last
      BY <1>3 DEF LatestInv
    <3>5. decision' = decision /\ last' = last
      BY <1>2, <2>3
    <3> QED BY <3>2, <3>3, <3>4, <3>5
  <2>5. CASE OnItsWay \/ Shown \/ Unmade
    BY <1>2, <1>3, <2>3, <2>5 DEF OnItsWay, Shown, Unmade, LatestInv
  <2> QED BY <1>3, <2>4, <2>5 DEF LatestInv
<1> QED BY <1>4, <1>5

\* What a press enqueues again, and what the poller does else, takes no notice away.
LEMMA RestLatest ==
  ASSUME ApiShape, LatestInv, NEW d \in Presses!Decider,
         notices \subseteq notices', UNCHANGED <<decision, ask, edits, message, last, muddled>>,
         dpc' = dpc \/ (dpc[d] # "written" /\ dpc' = [dpc EXCEPT ![d] = "done"])
  PROVE  LatestInv'
<1>1. dpc \in [Presses!Decider -> {"new", "stamped", "written", "answer", "done"}]
  BY DEF ApiShape
<1>2. \A e \in Presses!Decider : dpc[e] = "written" => dpc'[e] = "written"
  BY <1>1
<1>3. Untold => Untold'
  BY <1>2 DEF Untold
<1>4. OnItsWay => OnItsWay'
  BY DEF OnItsWay
<1> QED BY <1>3, <1>4 DEF LatestInv, Shown, Unmade

\* The workers show the latest decision, or bring it back, or the message was muddled.
LEMMA ShowLatest ==
  ASSUME Presses!DecisionsAssumption, ApiShape, DisplayShape, TimesInv, LatestInv,
         UNCHANGED <<clock, decision, dpc, ask>>,
         Presses!Post \/ \E n \in notices \cup edits : Presses!Show(n)
  PROVE  LatestInv'
<1>1. /\ clock \in Nat /\ last \in Nat /\ shownAt \in Nat /\ shownAt <= last
      /\ \A x \in edits \cup ({message} \ {None}) : x.at <= shownAt
      /\ \A x \in Known : x.at \in Nat /\ x.at <= last
      /\ \A x, y \in Known : x.at = y.at => x.value = y.value
      /\ message = None => edits = {}
  BY KnownTimed DEF ApiShape, DisplayShape, TimesInv
<1>2. last' = last
  BY DEF Presses!Post, Presses!Show, Presses!Skip, Presses!ClaimDisplay, Presses!Stale,
         Presses!Edit,
         Presses!EditAgain, Presses!EditFails, Presses!ghosts
<1> SUFFICES ASSUME muddled' = {}
             PROVE  /\ decision'.value # "none" => decision'.at = last'
                    /\ Untold' \/ OnItsWay' \/ Shown' \/ Unmade'
  BY DEF LatestInv
<1>3. muddled = {}
  BY DEF Presses!Post, Presses!Show, Presses!Skip, Presses!ClaimDisplay, Presses!Stale,
         Presses!Edit,
         Presses!EditAgain, Presses!EditFails, Presses!ghosts, Presses!Muddle
<1>4. /\ decision'.value # "none" => decision'.at = last'
      /\ Untold => Untold'
      /\ Untold \/ OnItsWay \/ Shown \/ Unmade
  BY <1>2, <1>3 DEF LatestInv, Untold
<1>5. CASE Presses!Post
  <2>1. message = None /\ message' = [value |-> "none", at |-> 0] /\ UNCHANGED <<notices, edits>>
    BY <1>5 DEF Presses!Post
  <2>2. message' # None
    BY <2>1 DEF Presses!DecisionsAssumption, Presses!Value
  <2>3. OnItsWay => OnItsWay'
    BY <1>2, <2>1 DEF OnItsWay
  <2>4. Unmade => Shown'
    BY <1>2, <2>1, <2>2 DEF Unmade, Shown
  <2> QED BY <1>4, <2>1, <2>3, <2>4 DEF Shown
<1>6. ASSUME NEW n \in notices \cup edits, Presses!ClaimDisplay(n) \/ Presses!EditAgain(n)
      PROVE  Untold' \/ OnItsWay' \/ Shown' \/ Unmade'
  <2>1. notices' \cup edits' = notices \cup edits /\ message' = message
    BY <1>6 DEF Presses!ClaimDisplay, Presses!EditAgain
  <2>2. OnItsWay => OnItsWay'
    BY <1>2, <2>1 DEF OnItsWay
  <2> QED BY <1>2, <1>4, <2>1, <2>2 DEF Shown, Unmade
<1>7. ASSUME NEW n \in notices \cup edits, Presses!Stale(n)
      PROVE  Untold' \/ OnItsWay' \/ Shown' \/ Unmade'
  <2>1. notices' = notices \ {n} /\ edits' = edits /\ message' = message /\ ~(shownAt <= n.at)
    BY <1>7 DEF Presses!Stale, Presses!Newer
  <2>2. n.at # last
    BY <1>1, <2>1 DEF Known
  <2>3. OnItsWay => OnItsWay'
    BY <1>2, <2>1, <2>2 DEF OnItsWay
  <2> QED BY <1>2, <1>4, <2>1, <2>3 DEF Shown, Unmade
<1>8. ASSUME NEW n \in notices \cup edits, Presses!Edit(n)
      PROVE  Untold' \/ OnItsWay' \/ Shown' \/ Unmade'
  <2>1. /\ n \in edits /\ edits' = edits \ {n} /\ notices' = notices /\ message' = n
        /\ ~(shownAt > n.at /\ message.at > n.at)
    BY <1>8 DEF Presses!Edit, Presses!Muddle
  <2>2. n # None /\ n \in Known
    <3>1. n \in Timed
      BY <2>1 DEF DisplayShape
    <3>2. n \in [value : Presses!Value, at : Nat]
      BY <1>1, <3>1 DEF Timed
    <3> QED BY <2>1, <3>2 DEF Presses!DecisionsAssumption, Known
  <2>3. CASE n.at = last /\ n.value = decision.value
    BY <1>2, <2>1, <2>2, <2>3 DEF Shown
  <2>4. CASE OnItsWay /\ ~(n.at = last /\ n.value = decision.value)
    BY <1>2, <2>1, <2>4 DEF OnItsWay
  <2>5. CASE Shown
    <3>1. message # None /\ message \in Known /\ message.at = last /\ message.value = decision.value
      BY <2>5 DEF Shown, Known
    <3>2. message.at <= shownAt /\ n.at \in Nat /\ n.at <= last
      BY <1>1, <2>1, <2>2, <3>1
    <3>3. n.at = last
      BY <1>1, <2>1, <3>1, <3>2
    <3>4. n.value = decision.value
      BY <1>1, <2>2, <3>1, <3>3
    <3> QED BY <2>3, <3>3, <3>4
  <2>6. ~Unmade
    BY <1>1, <2>1 DEF Unmade
  <2> QED BY <1>4, <2>3, <2>4, <2>5, <2>6
<1>9. ASSUME NEW n \in notices \cup edits, Presses!Skip(n) \/ Presses!EditFails(n)
      PROVE  FALSE
  BY <1>9 DEF Presses!Skip, Presses!EditFails, Presses!Muddle
<1> QED BY <1>4, <1>5, <1>6, <1>7, <1>8, <1>9 DEF Presses!Show

\* Every step keeps the latest decision the one that is shown last.
LEMMA LatestStep ==
  ASSUME Presses!DecisionsAssumption, ApiShape, DisplayShape, TimesInv, LatestInv,
         [Presses!Next]_(Presses!vars)
  PROVE  LatestInv'
<1>1. ASSUME NEW d \in Presses!Decider, Presses!NotifyFails(d)
      PROVE  LatestInv'
  <2>1. muddled' # {}
    BY <1>1 DEF Presses!NotifyFails, Presses!Muddle
  <2> QED BY <2>1 DEF LatestInv
<1>2. ASSUME NEW p \in Press, dpc[p] = "answer", dpc' = [dpc EXCEPT ![p] = "done"],
             notices' = Presses!Resync(p),
             UNCHANGED <<clock, decision, ask, edits, shownAt, message, last, muddled>>
      PROVE  LatestInv'
  <2>1. p \in Presses!Decider /\ notices \subseteq notices'
    BY <1>2 DEF Presses!Resync, Presses!Decider
  <2> QED BY <1>2, <2>1, RestLatest
<1>3. ASSUME NEW p \in Press, dpc[p] = "new", dpc' = [dpc EXCEPT ![p] = "done"],
             UNCHANGED <<clock, decision, ask, notices, edits, shownAt, message, last, muddled>>
      PROVE  LatestInv'
  <2>1. p \in Presses!Decider
    BY DEF Presses!Decider
  <2> QED BY <1>3, <2>1, RestLatest
<1>4. CASE UNCHANGED <<clock, decision, dpc, ask, notices, edits, shownAt, message, last, muddled>>
  BY <1>4 DEF LatestInv, Untold, OnItsWay, Shown, Unmade
<1> QED BY <1>1, <1>2, <1>3, <1>4, DecideLatest, NotifyLatest, ShowLatest, DecisionSteps

\* Nothing is decided yet.
LEMMA DecisionsStart ==
  ASSUME Presses!DecisionsAssumption, Presses!Init
  PROVE  DecisionsInv
<1>1. /\ clock = 0 /\ decision = [value |-> "none", at |-> 0] /\ notices = {} /\ edits = {}
      /\ dpc = [d \in Presses!Decider |-> "new"] /\ ask = [d \in Presses!Decider |-> Presses!Idle]
      /\ shownAt = 0 /\ message = None /\ last = 0 /\ muddled = {}
  BY DEF Presses!Init
<1>2. ApiShape
  <2>1. Begun = {} /\ Over = {}
    BY <1>1 DEF Begun, Over
  <2>2. Cardinality(Begun) = 0 /\ Cardinality(Over) = 0
    BY <2>1, FS_EmptySet
  <2>3. "none" \in Presses!Value /\ 0 \in 0..clock
    BY <1>1 DEF Presses!Value
  <2>4. Presses!Idle \in [value : Presses!Value, at : 0..clock, done : BOOLEAN]
    BY <2>3 DEF Presses!Idle
  <2>5. clock \in Nat /\ clock <= Cardinality(Begun) + Cardinality(Over) /\ decision \in Timed
    BY <1>1, <2>2, <2>3 DEF Timed
  <2>6. ask \in [Presses!Decider -> [value : Presses!Value, at : 0..clock, done : BOOLEAN]]
    BY <1>1, <2>4
  <2> QED BY <1>1, <2>5, <2>6 DEF ApiShape
<1>3. DisplayShape
  BY <1>1 DEF DisplayShape
<1>4. PollShape
  BY DEF PollShape, Presses!Init, Presses!PressedOnce, Presses!DecisionsAssumption
<1>5. TimesInv
  <2>1. Tells = {}
    BY <1>1 DEF Tells
  <2>2. Known = {}
    BY <1>1, <2>1 DEF Known
  <2> QED BY <1>1, <2>2 DEF TimesInv
<1>6. LatestInv
  BY <1>1 DEF LatestInv, Unmade
<1> QED BY <1>2, <1>3, <1>4, <1>5, <1>6 DEF DecisionsInv

\* The invariant is kept by every step.
LEMMA DecisionsStep ==
  ASSUME Presses!DecisionsAssumption, DecisionsInv, [Presses!Next]_(Presses!vars)
  PROVE  DecisionsInv'
BY ApiShapeStep, DisplayShapeStep, PollStep, TimesStep, LatestStep DEF DecisionsInv

\* The invariant gives the types.
LEMMA DecisionTypes ==
  ASSUME Presses!DecisionsAssumption, DecisionsInv
  PROVE  Presses!TypeOK
<1>1. clock \in Nat /\ 0..clock \subseteq Presses!Time
  <2>1. Begun \subseteq Presses!Decider /\ Over \subseteq Presses!Decider
    BY DEF Begun, Over
  <2>2. /\ Cardinality(Begun) \in Nat /\ Cardinality(Over) \in Nat
        /\ Cardinality(Presses!Decider) \in Nat
        /\ Cardinality(Begun) <= Cardinality(Presses!Decider)
        /\ Cardinality(Over) <= Cardinality(Presses!Decider)
    BY <2>1, FiniteDeciders
  <2>3. clock \in Nat /\ clock <= 2 * Cardinality(Presses!Decider)
    BY <2>2 DEF DecisionsInv, ApiShape
  <2>4. 0..clock \subseteq 0..(2 * Cardinality(Presses!Decider))
    BY <2>2, <2>3
  <2> QED BY <2>3, <2>4, FiniteDeciders
<1>2. Timed \subseteq Presses!Decision /\ Timed \subseteq [value : Presses!Value, at : Presses!Time]
  BY <1>1 DEF Timed, Presses!Decision
<1>3. clock \in Presses!Time
  BY <1>1
<1>4. ask \in [Presses!Decider -> [value : Presses!Value, at : Presses!Time, done : BOOLEAN]]
  <2>1. \A d \in Presses!Decider :
          ask[d] \in [value : Presses!Value, at : Presses!Time, done : BOOLEAN]
    BY <1>1 DEF DecisionsInv, ApiShape
  <2> QED BY <2>1 DEF DecisionsInv, ApiShape
<1>5. /\ decision \in Presses!Decision
      /\ dpc \in [Presses!Decider -> {"new", "stamped", "written", "answer", "done"}]
  BY <1>2 DEF DecisionsInv, ApiShape
<1>6. /\ notices \subseteq Presses!Decision /\ edits \subseteq Presses!Decision
      /\ message \in [value : Presses!Value, at : Presses!Time] \cup {None}
      /\ shownAt \in Presses!Time /\ last \in Presses!Time /\ muddled \subseteq Presses!Reason
      /\ message = None => edits = {} /\ shownAt = 0
  BY <1>1, <1>2 DEF DecisionsInv, DisplayShape
<1>7. /\ updates \subseteq Press /\ seen \subseteq Press /\ lease \in Poller \cup {None}
      /\ poller \in [Poller -> {"standby", "poll", "handle"} \cup Press]
      /\ batch \in [Poller -> SUBSET Press] /\ offset \in [Poller -> SUBSET Press]
      /\ dfaults \in 0..MaxFaults /\ answered \subseteq Press
  BY DEF DecisionsInv, PollShape
<1> QED BY <1>3, <1>4, <1>5, <1>6, <1>7 DEF Presses!TypeOK

\* When all is quiet no decision is untold of and none is on its way.
LEMMA QuietShown ==
  ASSUME DecisionsInv
  PROVE  Presses!MessageShowsDecision
<1> SUFFICES ASSUME Presses!Quiet, muddled = {} PROVE message.value = decision.value
  BY DEF Presses!MessageShowsDecision
<1>1. ~Untold
  BY DEF Untold, Presses!Quiet
<1>2. ~OnItsWay /\ ~Unmade
  BY DEF OnItsWay, Unmade, Presses!Quiet
<1> QED BY <1>1, <1>2 DEF DecisionsInv, LatestInv, Shown

\* For any decisions, presses, pollers and faults: when nothing is under way the message shows
\* the decision, unless one of the five reasons that the code leaves open has muddled it, and
\* no press is forwarded to the API by two pollers, or once it was answered.
THEOREM DecisionsHold ==
  ASSUME Presses!DecisionsAssumption
  PROVE  Presses!Spec
         => [](Presses!TypeOK /\ Presses!MessageShowsDecision /\ Presses!PressedOnce)
<1>1. Presses!Init => DecisionsInv
  BY DecisionsStart
<1>2. DecisionsInv /\ [Presses!Next]_(Presses!vars) => DecisionsInv'
  BY DecisionsStep
<1>3. DecisionsInv => Presses!TypeOK /\ Presses!MessageShowsDecision /\ Presses!PressedOnce
  BY DecisionTypes, QuietShown DEF DecisionsInv, PollShape
<1> QED BY <1>1, <1>2, <1>3, PTL DEF Presses!Spec

-----------------------------------------------------------------------------
(* The links to a Telegram account *)

\* A link that is good, and that no fault left behind, has just been set, is the one under
\* the key of its owner, or is about to be deleted by the request that replaced it there.
LinksInv ==
  \A l \in good \ stray :
    \/ issued[l] = "set"
    \/ owner[For(l)] = l
    \/ \E m \in Link : issued[m] = "owned" /\ For(m) = For(l) /\ previous[m] = l

\* A step of the binding keeps the types.
LEMMA LinkTypes ==
  ASSUME Links!TelegramLinkAssumption, Links!TypeOK, [Links!Next]_(Links!vars)
  PROVE  Links!TypeOK'
<1> USE DEF Links!TelegramLinkAssumption, Links!TypeOK
<1>1. ASSUME NEW l \in Link, Links!SetLink(l) PROVE Links!TypeOK'
  BY <1>1 DEF Links!SetLink, Links!Issued
<1>2. ASSUME NEW l \in Link, Links!SetOwner(l) PROVE Links!TypeOK'
  <2>1. /\ owner' \in [User -> Link \cup {None}] /\ previous' \in [Link -> Link \cup {None}]
        /\ issued' \in [Link -> {"new", "set", "owned", "done"}]
    BY <1>2 DEF Links!SetOwner, Links!Issued
  <2> QED BY <1>2, <2>1 DEF Links!SetOwner
<1>3. ASSUME NEW l \in Link, Links!DeletePrevious(l) PROVE Links!TypeOK'
  BY <1>3 DEF Links!DeletePrevious, Links!WithoutPrevious, Links!Issued
<1>4. ASSUME NEW l \in Link, Links!IssueFails(l) PROVE Links!TypeOK'
  <2>1. stray' \subseteq Link
    BY <1>4 DEF Links!IssueFails
  <2> QED BY <1>4, <2>1 DEF Links!IssueFails, Links!Issued, Links!Fault
<1>5. ASSUME NEW l \in Link, Links!LinkExpires(l) PROVE Links!TypeOK'
  BY <1>5 DEF Links!LinkExpires
<1>6. ASSUME NEW l \in Link, NEW a \in Account, Links!Start(l, a) PROVE Links!TypeOK'
  BY <1>6 DEF Links!Start
<1>7. ASSUME NEW l \in Link, Links!Consume(l) PROVE Links!TypeOK'
  BY <1>7 DEF Links!Consume
<1>8. ASSUME NEW l \in Link, Links!Bind(l) PROVE Links!TypeOK'
  BY <1>8 DEF Links!Bind, Links!Handled
<1>9. ASSUME NEW l \in Link, Links!BindFails(l) PROVE Links!TypeOK'
  BY <1>9 DEF Links!BindFails, Links!Handled, Links!Fault
<1>10. ASSUME NEW u \in User, Links!Unlink(u) \/ Links!Disable(u) PROVE Links!TypeOK'
  BY <1>10 DEF Links!Unlink, Links!Disable
<1>11. CASE UNCHANGED Links!vars
  BY <1>11 DEF Links!vars
<1> QED BY <1>1, <1>2, <1>3, <1>4, <1>5, <1>6, <1>7, <1>8, <1>9, <1>10, <1>11 DEF Links!Next

\* The invariant is kept by every step.
LEMMA LinksStep ==
  ASSUME Links!TelegramLinkAssumption, Links!TypeOK, LinksInv, [Links!Next]_(Links!vars)
  PROVE  LinksInv'
<1> USE DEF Links!TelegramLinkAssumption, Links!TypeOK, LinksInv
<1>1. ASSUME NEW l \in Link, Links!SetLink(l) PROVE LinksInv'
  <2>1. /\ issued[l] = "new" /\ issued' = [issued EXCEPT ![l] = "set"] /\ good' = good \cup {l}
        /\ UNCHANGED <<previous, owner, stray>>
    BY <1>1 DEF Links!SetLink, Links!Issued
  <2> SUFFICES ASSUME NEW k \in good \ stray, k # l
               PROVE  \/ issued'[k] = "set" \/ owner'[For(k)] = k
                      \/ \E m \in Link : issued'[m] = "owned" /\ For(m) = For(k) /\ previous'[m] = k
    BY <2>1
  <2>2. \A m \in Link : issued[m] \in {"set", "owned"} => issued'[m] = issued[m]
    BY <2>1
  <2> QED BY <2>1, <2>2
<1>2. ASSUME NEW l \in Link, Links!SetOwner(l) PROVE LinksInv'
  <2>1. /\ issued[l] = "set" /\ issued' = [issued EXCEPT ![l] = "owned"]
        /\ owner' = [owner EXCEPT ![For(l)] = l]
        /\ previous' = [previous EXCEPT ![l] = owner[For(l)]]
        /\ UNCHANGED <<good, stray>>
    BY <1>2 DEF Links!SetOwner, Links!Issued
  <2> SUFFICES ASSUME NEW k \in good \ stray
               PROVE  \/ issued'[k] = "set" \/ owner'[For(k)] = k
                      \/ \E m \in Link : issued'[m] = "owned" /\ For(m) = For(k) /\ previous'[m] = k
    BY <2>1
  <2>2. CASE k = l
    BY <2>1, <2>2
  <2>3. CASE k # l /\ issued[k] = "set"
    BY <2>1, <2>3
  <2>4. CASE k # l /\ owner[For(k)] = k
    <3>1. CASE For(k) = For(l)
      <4>1. issued'[l] = "owned" /\ previous'[l] = k
        BY <2>1, <2>4, <3>1
      <4> QED BY <3>1, <4>1
    <3>2. CASE For(k) # For(l)
      BY <2>1, <2>4, <3>2
    <3> QED BY <3>1, <3>2
  <2>5. ASSUME NEW m \in Link, issued[m] = "owned", For(m) = For(k), previous[m] = k
        PROVE  issued'[m] = "owned" /\ previous'[m] = k
    BY <2>1, <2>5
  <2> QED BY <2>2, <2>3, <2>4, <2>5
<1>3. ASSUME NEW l \in Link, Links!DeletePrevious(l) PROVE LinksInv'
  <2>1. /\ issued[l] = "owned" /\ issued' = [issued EXCEPT ![l] = "done"]
        /\ previous' = [previous EXCEPT ![l] = None] /\ good' = good \ {previous[l]}
        /\ UNCHANGED <<owner, stray>>
    BY <1>3 DEF Links!DeletePrevious, Links!WithoutPrevious, Links!Issued
  <2>2. \A k \in Link \ {l} : issued'[k] = issued[k] /\ previous'[k] = previous[k]
    BY <2>1
  <2> QED BY <2>1, <2>2
<1>4. ASSUME NEW l \in Link, Links!IssueFails(l) PROVE LinksInv'
  <2>1. /\ issued[l] \in {"set", "owned"} /\ issued' = [issued EXCEPT ![l] = "done"]
        /\ previous' = [previous EXCEPT ![l] = None]
        /\ UNCHANGED <<owner, good>>
    BY <1>4 DEF Links!IssueFails, Links!Issued
  <2>2. stray \subseteq stray'
          /\ \A k \in good \ stray' : IF issued[l] = "set" THEN k # l ELSE k # previous[l]
    BY <1>4 DEF Links!IssueFails
  <2>3. \A k \in Link \ {l} : issued'[k] = issued[k] /\ previous'[k] = previous[k]
    BY <2>1
  <2> QED BY <2>1, <2>2, <2>3
<1>5. ASSUME NEW l \in Link, Links!LinkExpires(l) PROVE LinksInv'
  <2>1. /\ owner' = [u \in User |-> IF owner[u] = l THEN None ELSE owner[u]]
        /\ good' = good \ {l} /\ UNCHANGED <<issued, previous, stray>>
    BY <1>5 DEF Links!LinkExpires
  <2>2. \A k \in good' : k # l /\ (owner[For(k)] = k => owner'[For(k)] = k)
    BY <2>1
  <2> QED BY <2>1, <2>2
<1>6. CASE good' \subseteq good /\ UNCHANGED <<issued, previous, owner, stray>>
  BY <1>6
<1>7. ASSUME NEW l \in Link,
             \/ Links!Consume(l) \/ Links!Bind(l) \/ Links!BindFails(l)
             \/ \E a \in Account : Links!Start(l, a)
      PROVE  LinksInv'
  <2>1. good' \subseteq good /\ UNCHANGED <<issued, previous, owner, stray>>
    BY <1>7 DEF Links!Consume, Links!Bind, Links!BindFails, Links!Start
  <2> QED BY <1>6, <2>1
<1>8. CASE (\E u \in User : Links!Unlink(u) \/ Links!Disable(u)) \/ UNCHANGED Links!vars
  <2>1. good' \subseteq good /\ UNCHANGED <<issued, previous, owner, stray>>
    BY <1>8 DEF Links!Unlink, Links!Disable, Links!vars
  <2> QED BY <1>6, <2>1
<1> QED BY <1>1, <1>2, <1>3, <1>4, <1>5, <1>7, <1>8 DEF Links!Next

\* A set with one element at most has that cardinality, there as here.
LEMMA AtMostOne ==
  ASSUME NEW S, \A x, y \in S : x = y
  PROVE  Links!Cardinality(S) <= 1
<1>1. Links!Cardinality(S) = Cardinality(S)
  BY DEF Links!Cardinality, Cardinality
<1>2. CASE S = {}
  BY <1>1, <1>2, FS_EmptySet
<1>3. CASE S # {}
  <2>1. PICK x \in S : S = {x}
    BY <1>3
  <2>2. Cardinality(S) = 1
    BY <2>1, FS_Singleton
  <2> QED BY <1>1, <2>2
<1> QED BY <1>2, <1>3

\* However many links a user asks for at once, and whichever of the three calls of a request
\* come between those of another, one of them at most is good when the requests are over,
\* unless one was interrupted.
THEOREM LinksHold ==
  ASSUME Links!TelegramLinkAssumption
  PROVE  Links!Spec => [](Links!TypeOK /\ Links!OneLinkIsGood)
<1>1. Links!Init => Links!TypeOK /\ LinksInv
  BY DEF Links!TelegramLinkAssumption, Links!Init, Links!TypeOK, LinksInv
<1>2. Links!TypeOK /\ LinksInv /\ [Links!Next]_(Links!vars) => (Links!TypeOK /\ LinksInv)'
  BY LinkTypes, LinksStep
<1>3. Links!TypeOK /\ LinksInv => Links!OneLinkIsGood
  <2> SUFFICES ASSUME LinksInv, NEW u \in User,
                      \A l \in Link : For(l) = u => issued[l] \in {"new", "done"},
                      good \subseteq Link
               PROVE  Links!Cardinality({l \in good \ stray : For(l) = u}) <= 1
    BY DEF Links!OneLinkIsGood, Links!TypeOK
  <2>1. \A l \in good \ stray : For(l) = u => owner[u] = l
    BY DEF LinksInv
  <2> QED BY <2>1, AtMostOne
<1> QED BY <1>1, <1>2, <1>3, PTL DEF Links!Spec

-----------------------------------------------------------------------------
(* The logins *)

\* The logins that have passed the check and not tried the password yet.
Checked == {l \in Login : loginAt[l] = "checked"}

\* Once the limit is reached, only the logins under way may still fail or lift the lock.
ThrottleInv ==
  /\ Throttle!TypeOK
  /\ Throttle!LocksHold /\ Throttle!CountsPass
  /\ failures >= Limit => /\ Throttle!UnderWay \subseteq early
                          /\ failures + Cardinality(Checked) < Limit + Cardinality(Login)

\* There are finitely many logins under way.
LEMMA FiniteLogins ==
  ASSUME Throttle!LoginThrottleAssumption
  PROVE  /\ IsFiniteSet(Login) /\ Cardinality(Login) \in Nat
         /\ Throttle!Cardinality(Login) = Cardinality(Login)
         /\ {Limit, Window, Block} \subseteq Nat \ {0} /\ MaxTime \in Nat
<1>1. Throttle!IsFiniteSet(Login) <=> IsFiniteSet(Login)
  BY DEF Throttle!IsFiniteSet, IsFiniteSet
<1>2. Throttle!Cardinality(Login) = Cardinality(Login)
  BY DEF Throttle!Cardinality, Cardinality
<1>3. IsFiniteSet(Login) /\ {Limit, Window, Block} \subseteq Nat \ {0} /\ MaxTime \in Nat
  BY <1>1 DEF Throttle!LoginThrottleAssumption
<1> QED BY <1>2, <1>3, FS_CardinalityType

\* What of the logins is left, is not more.
LEMMA FewerLogins ==
  ASSUME NEW S \in SUBSET Login, NEW T \in SUBSET S, IsFiniteSet(Login)
  PROVE  /\ IsFiniteSet(S) /\ Cardinality(S) \in Nat /\ Cardinality(T) \in Nat
         /\ Cardinality(T) <= Cardinality(S)
<1>1. IsFiniteSet(S)
  BY FS_Subset
<1>2. IsFiniteSet(T) /\ Cardinality(T) <= Cardinality(S)
  BY <1>1, FS_Subset
<1> QED BY <1>1, <1>2, FS_CardinalityType

\* A step of the throttle keeps the types.
LEMMA ThrottleTypes ==
  ASSUME Throttle!LoginThrottleAssumption, Throttle!TypeOK, [Throttle!Next]_(Throttle!vars)
  PROVE  Throttle!TypeOK'
<1>0. {Limit, Window, Block} \subseteq Nat \ {0} /\ MaxTime \in Nat
  BY FiniteLogins
<1> USE DEF Throttle!TypeOK
<1>1. ASSUME NEW l \in Login, Throttle!Check(l) \/ Throttle!Leave(l) \/ Throttle!Succeed(l)
      PROVE  Throttle!TypeOK'
  BY <1>1 DEF Throttle!Check, Throttle!Leave, Throttle!Succeed, Throttle!Goes
<1>2. ASSUME NEW l \in Login, Throttle!Fail(l) PROVE Throttle!TypeOK'
  <2>1. /\ failures' \in Nat /\ failedAt' \in 0..MaxTime /\ second' \in 0..MaxTime
        /\ early' \subseteq Login
    BY <1>2 DEF Throttle!Fail, Throttle!UnderWay
  <2>2. expires' \in Nat
    BY <1>0, <1>2 DEF Throttle!Fail, Throttle!Expiry
  <2>3. loginAt' \in [Login -> {"idle", "checked", "failed", "known"}]
    BY <1>2 DEF Throttle!Fail, Throttle!Goes
  <2>4. owes' \in [Login -> BOOLEAN] /\ {tripped', odd'} \subseteq BOOLEAN
    BY <1>2 DEF Throttle!Fail, Throttle!Trips
  <2> QED BY <2>1, <2>2, <2>3, <2>4
<1>3. ASSUME NEW l \in Login, Throttle!Report(l) PROVE Throttle!TypeOK'
  BY <1>3 DEF Throttle!Report, Throttle!Goes
<1>4. ASSUME NEW l \in Login, Throttle!Reset(l) PROVE Throttle!TypeOK'
  <2>1. CASE UNCHANGED <<failures, expires, tripped, odd>>
    BY <1>4, <2>1 DEF Throttle!Reset, Throttle!Goes
  <2>2. CASE /\ failures' = 0 /\ expires' = 0 /\ tripped' = FALSE
             /\ odd' = (odd \/ (failures >= Limit /\ l \notin early))
    <3>1. odd' \in BOOLEAN
      BY <2>2
    <3> QED BY <1>4, <2>2, <3>1 DEF Throttle!Reset, Throttle!Goes
  <2> QED BY <1>4, <2>1, <2>2 DEF Throttle!Reset
<1>5. CASE Throttle!Tick
  <2>1. second' \in 0..MaxTime
    BY <1>0, <1>5 DEF Throttle!Tick
  <2>2. CASE failures' = 0 /\ expires' = 0 /\ tripped' = FALSE
    BY <1>5, <2>1, <2>2 DEF Throttle!Tick
  <2>3. CASE UNCHANGED <<failures, expires, tripped>>
    BY <1>5, <2>1, <2>3 DEF Throttle!Tick
  <2> QED BY <1>5, <2>2, <2>3 DEF Throttle!Tick
<1>6. CASE UNCHANGED Throttle!vars
  BY <1>6 DEF Throttle!vars
<1> QED BY <1>1, <1>2, <1>3, <1>4, <1>5, <1>6 DEF Throttle!Next

\* A failure: it trips the lock if it reaches the limit, and prolongs it beyond.
LEMMA FailStep ==
  ASSUME Throttle!LoginThrottleAssumption, ThrottleInv, Throttle!TypeOK',
         NEW l \in Login, Throttle!Fail(l)
  PROVE  ThrottleInv'
<1>1. /\ loginAt[l] = "checked" /\ loginAt' = [loginAt EXCEPT ![l] = "failed"]
      /\ failures' = failures + 1 /\ expires' = Throttle!Expiry /\ failedAt' = second
      /\ early' = IF failures + 1 = Limit THEN Throttle!UnderWay \ {l} ELSE early
      /\ tripped' = (tripped \/ failures + 1 = Limit)
      /\ odd' = (odd \/ (tripped /\ failures + 1 = Limit))
      /\ second' = second
  BY DEF Throttle!Fail, Throttle!Goes, Throttle!Trips
<1>2. /\ failures \in Nat /\ second \in Nat /\ expires \in Nat
      /\ Limit \in Nat \ {0} /\ Window \in Nat \ {0} /\ Block \in Nat \ {0}
      /\ loginAt \in [Login -> {"idle", "checked", "failed", "known"}]
  BY FiniteLogins DEF ThrottleInv, Throttle!TypeOK
<1>3. /\ failures >= Limit => expires = failedAt + Block /\ second < expires
      /\ tripped <=> failures >= Limit
      /\ ~odd /\ (failures > 0 => second < expires)
  BY DEF ThrottleInv, Throttle!LocksHold, Throttle!CountsPass
<1>4. Throttle!LocksHold' /\ Throttle!CountsPass'
  <2>1. /\ failures' >= Limit => expires' = second + Block
        /\ second < expires'
    BY <1>1, <1>2, <1>3 DEF Throttle!Expiry
  <2>2. tripped' <=> failures' >= Limit
    <3>1. failures >= Limit \/ failures + 1 = Limit <=> failures + 1 >= Limit
      BY <1>2
    <3> QED BY <1>1, <1>3, <3>1
  <2>3. ~odd'
    <3>1. ~(failures >= Limit /\ failures + 1 = Limit)
      BY <1>2
    <3> QED BY <1>1, <1>3, <3>1
  <2> QED BY <1>1, <2>1, <2>2, <2>3 DEF Throttle!LocksHold, Throttle!CountsPass
<1>5. /\ Checked \in SUBSET Login /\ l \in Checked
      /\ Checked' = Checked \ {l}
      /\ Throttle!UnderWay' = Throttle!UnderWay \ {l}
  BY <1>1, <1>2 DEF Checked, Throttle!UnderWay
<1>6. /\ IsFiniteSet(Checked) /\ Cardinality(Checked) \in Nat /\ Cardinality(Login) \in Nat
      /\ Cardinality(Checked) <= Cardinality(Login)
  <2>1. IsFiniteSet(Login) /\ Login \in SUBSET Login
    BY FiniteLogins
  <2> QED BY <1>5, <2>1, FewerLogins
<1>7. Cardinality(Checked') = Cardinality(Checked) - 1
  BY <1>5, <1>6, FS_RemoveElement
<1>8. CASE failures >= Limit
  <2>1. /\ Throttle!UnderWay \subseteq early /\ early' = early
        /\ failures + Cardinality(Checked) < Limit + Cardinality(Login)
    BY <1>1, <1>2, <1>8 DEF ThrottleInv
  <2>2. failures' + Cardinality(Checked') < Limit + Cardinality(Login)
    BY <1>1, <1>2, <1>6, <1>7, <2>1
  <2> QED BY <1>4, <1>5, <2>1, <2>2 DEF ThrottleInv
<1>9. CASE failures + 1 = Limit
  <2>1. failures' + Cardinality(Checked') < Limit + Cardinality(Login)
    BY <1>1, <1>2, <1>6, <1>7, <1>9
  <2> QED BY <1>1, <1>4, <1>5, <1>9, <2>1 DEF ThrottleInv
<1>10. CASE failures + 1 < Limit
  <2>1. ~(failures' >= Limit)
    BY <1>1, <1>2, <1>10
  <2> QED BY <1>4, <2>1 DEF ThrottleInv
<1> QED BY <1>2, <1>8, <1>9, <1>10

\* Whoever stops being under way does not count more, nor comes past the lock.
LEMMA OtherLoginStep ==
  ASSUME Throttle!LoginThrottleAssumption, ThrottleInv, Throttle!TypeOK',
         NEW l \in Login,
         \/ Throttle!Check(l) \/ Throttle!Report(l) \/ Throttle!Leave(l) \/ Throttle!Succeed(l)
  PROVE  ThrottleInv'
<1>1. UNCHANGED <<second, failures, expires, failedAt, tripped, odd>>
  BY DEF Throttle!Check, Throttle!Report, Throttle!Leave, Throttle!Succeed
<1>2. Throttle!LocksHold' /\ Throttle!CountsPass'
  BY <1>1 DEF ThrottleInv, Throttle!LocksHold, Throttle!CountsPass
<1>3. ASSUME failures >= Limit
      PROVE  /\ Throttle!UnderWay' \subseteq early'
             /\ failures + Cardinality(Checked') < Limit + Cardinality(Login)
  <2>1. /\ loginAt \in [Login -> {"idle", "checked", "failed", "known"}]
        /\ Throttle!UnderWay \subseteq early
        /\ failures + Cardinality(Checked) < Limit + Cardinality(Login)
        /\ failures \in Nat
    BY <1>3 DEF ThrottleInv, Throttle!TypeOK
  <2>2. ~Throttle!Check(l)
    BY <1>3 DEF Throttle!Check, Throttle!Locked
  <2>3. /\ early' = early
        /\ \/ /\ loginAt[l] \in {"checked", "failed"}
              /\ loginAt' = [loginAt EXCEPT ![l] = "idle"]
           \/ /\ loginAt[l] = "checked"
              /\ loginAt' = [loginAt EXCEPT ![l] = "known"]
    BY <2>2 DEF Throttle!Report, Throttle!Leave, Throttle!Succeed, Throttle!Goes
  <2>4. \A k \in Login : /\ loginAt'[k] = "checked" => loginAt[k] = "checked"
                         /\ loginAt'[k] = "known" => loginAt[k] \in {"checked", "known"}
    BY <2>1, <2>3
  <2>5. Checked' \in SUBSET Checked /\ Throttle!UnderWay' \subseteq Throttle!UnderWay
    BY <2>4 DEF Checked, Throttle!UnderWay
  <2>6. Checked \in SUBSET Login
    BY DEF Checked
  <2>7. /\ Cardinality(Checked') \in Nat /\ Cardinality(Checked) \in Nat
        /\ Cardinality(Checked') <= Cardinality(Checked) /\ Cardinality(Login) \in Nat
    BY <2>5, <2>6, FewerLogins, FiniteLogins
  <2>8. Limit \in Nat
    BY FiniteLogins
  <2>9. failures + Cardinality(Checked') < Limit + Cardinality(Login)
    BY <2>1, <2>7, <2>8
  <2> QED BY <2>1, <2>3, <2>5, <2>9
<1> QED BY <1>1, <1>2, <1>3 DEF ThrottleInv

\* A lock that was lifted, or has passed, is gone with its count.
LEMMA CountGoes ==
  ASSUME Throttle!LoginThrottleAssumption, Throttle!TypeOK', failures' = 0, expires' = 0,
         tripped' = FALSE, ~odd'
  PROVE  ThrottleInv'
<1>1. ~(failures' >= Limit) /\ ~(failures' > 0)
  BY FiniteLogins
<1> QED BY <1>1 DEF ThrottleInv, Throttle!LocksHold, Throttle!CountsPass

\* A login that succeeds resets the count.
LEMMA ResetStep ==
  ASSUME Throttle!LoginThrottleAssumption, ThrottleInv, Throttle!TypeOK',
         NEW l \in Login, Throttle!Reset(l)
  PROVE  ThrottleInv'
<1>1. /\ loginAt[l] = "known" /\ loginAt' = [loginAt EXCEPT ![l] = "idle"]
      /\ UNCHANGED <<second, early, failedAt>>
  BY DEF Throttle!Reset, Throttle!Goes
<1>2. CASE /\ failures' = 0 /\ expires' = 0 /\ tripped' = FALSE
           /\ odd' = (odd \/ (failures >= Limit /\ l \notin early))
  <2>1. failures >= Limit => l \in early
    BY <1>1 DEF ThrottleInv, Throttle!UnderWay
  <2>2. ~odd'
    BY <1>2, <2>1 DEF ThrottleInv, Throttle!LocksHold
  <2> QED BY <1>2, <2>2, CountGoes
<1>3. CASE UNCHANGED <<failures, expires, tripped, odd>>
  <2>1. Throttle!LocksHold' /\ Throttle!CountsPass'
    BY <1>1, <1>3 DEF ThrottleInv, Throttle!LocksHold, Throttle!CountsPass
  <2>2. loginAt \in [Login -> {"idle", "checked", "failed", "known"}]
    BY DEF ThrottleInv, Throttle!TypeOK
  <2>3. Checked' = Checked /\ Throttle!UnderWay' \subseteq Throttle!UnderWay
    BY <1>1, <2>2 DEF Checked, Throttle!UnderWay
  <2> QED BY <1>1, <1>3, <2>1, <2>3 DEF ThrottleInv
<1> QED BY <1>2, <1>3 DEF Throttle!Reset

\* The clock moves.
LEMMA TickStep ==
  ASSUME Throttle!LoginThrottleAssumption, ThrottleInv, Throttle!TypeOK', Throttle!Tick
  PROVE  ThrottleInv'
<1>1. UNCHANGED <<loginAt, owes, early, failedAt, odd>> /\ second' = second + 1
  BY DEF Throttle!Tick
<1>2. CASE failures > 0 /\ expires <= second'
  <2>1. failures' = 0 /\ expires' = 0 /\ tripped' = FALSE
    BY <1>2 DEF Throttle!Tick
  <2> QED BY <1>1, <2>1, CountGoes DEF ThrottleInv, Throttle!LocksHold
<1>3. CASE ~(failures > 0 /\ expires <= second')
  <2>1. UNCHANGED <<failures, expires, tripped>>
    BY <1>3 DEF Throttle!Tick
  <2>2. failures \in Nat /\ expires \in Nat /\ second' \in Nat /\ Limit \in Nat \ {0}
    BY <1>1, FiniteLogins DEF ThrottleInv, Throttle!TypeOK
  <2>3. /\ failures > 0 => second' < expires
        /\ failures >= Limit => failures > 0
    BY <1>3, <2>2
  <2>4. Throttle!LocksHold' /\ Throttle!CountsPass'
    BY <1>1, <2>1, <2>3 DEF ThrottleInv, Throttle!LocksHold, Throttle!CountsPass
  <2> QED BY <1>1, <2>1, <2>4 DEF ThrottleInv, Checked, Throttle!UnderWay
<1> QED BY <1>2, <1>3

\* However many logins are under way together, and in whatever order they look at the count,
\* try the password and record it: the tries are bounded, a lock lasts for its time and falls
\* once, and no count stays without an end.
THEOREM ThrottleHolds ==
  ASSUME Throttle!LoginThrottleAssumption
  PROVE  Throttle!Spec => [](/\ Throttle!TypeOK /\ Throttle!TriesAreBounded
                             /\ Throttle!LocksHold /\ Throttle!CountsPass)
<1>1. Throttle!Init => ThrottleInv
  <2> SUFFICES ASSUME Throttle!Init PROVE ThrottleInv
    OBVIOUS
  <2>1. ~(failures >= Limit) /\ ~(failures > 0)
    BY FiniteLogins DEF Throttle!Init
  <2>2. Throttle!TypeOK
    <3>1. 0 \in 0..MaxTime
      BY FiniteLogins
    <3>2. second = 0 /\ failures = 0 /\ expires = 0 /\ failedAt = 0 /\ early = {}
      BY DEF Throttle!Init
    <3>3. /\ loginAt \in [Login -> {"idle", "checked", "failed", "known"}]
          /\ owes \in [Login -> BOOLEAN] /\ {tripped, odd} \subseteq BOOLEAN
      BY DEF Throttle!Init
    <3> QED BY <3>1, <3>2, <3>3 DEF Throttle!TypeOK
  <2> QED BY <2>1, <2>2 DEF Throttle!Init, ThrottleInv, Throttle!LocksHold, Throttle!CountsPass
<1>2. ThrottleInv /\ [Throttle!Next]_(Throttle!vars) => ThrottleInv'
  <2> SUFFICES ASSUME ThrottleInv, [Throttle!Next]_(Throttle!vars) PROVE ThrottleInv'
    OBVIOUS
  <2>1. Throttle!TypeOK'
    BY ThrottleTypes DEF ThrottleInv
  <2>2. CASE UNCHANGED Throttle!vars
    BY <2>1, <2>2 DEF Throttle!vars, ThrottleInv, Throttle!LocksHold, Throttle!CountsPass,
                      Throttle!UnderWay, Checked
  <2> QED BY <2>1, <2>2, FailStep, OtherLoginStep, ResetStep, TickStep DEF Throttle!Next
<1>3. ThrottleInv => /\ Throttle!TypeOK /\ Throttle!TriesAreBounded
                     /\ Throttle!LocksHold /\ Throttle!CountsPass
  <2> SUFFICES ASSUME ThrottleInv PROVE failures < Limit + Cardinality(Login)
    BY FiniteLogins DEF ThrottleInv, Throttle!TriesAreBounded
  <2>1. failures \in Nat /\ Limit \in Nat /\ Cardinality(Login) \in Nat
    BY FiniteLogins DEF ThrottleInv, Throttle!TypeOK
  <2>2. Checked \in SUBSET Login /\ Login \in SUBSET Login
    BY DEF Checked
  <2>3. Cardinality(Checked) \in Nat
    BY <2>2, FewerLogins, FiniteLogins
  <2>4. failures >= Limit => failures + Cardinality(Checked) < Limit + Cardinality(Login)
    BY DEF ThrottleInv
  <2>5. CASE failures >= Limit
    BY <2>1, <2>3, <2>4, <2>5
  <2>6. CASE failures < Limit
    BY <2>1, <2>6
  <2> QED BY <2>1, <2>5, <2>6
<1> QED BY <1>1, <1>2, <1>3, PTL DEF Throttle!Spec

-----------------------------------------------------------------------------
(* The outbox of the auth service *)

\* A row that is held is due and not dead.
OutboxHeld ==
  /\ rows \cap dead = {}
  /\ \A d \in Drainer : job[d] # Outbox!Idle => job[d].event \in due

\* What a drain knows of the event it holds, and what the log and the rows have in common.
OutboxKnown ==
  /\ \A d \in Drainer : job[d].at = "accepted" => job[d].event \in log
  /\ harmed \/ \A d \in Drainer : job[d].at = "terminal" => job[d].event \notin log
  /\ harmed \/ \A e \in rows \cap log : \E d \in Drainer : job[d] = [event |-> e, at |-> "accepted"]

OutboxInv ==
  /\ Outbox!TypeOK /\ Outbox!ChangesAreRecorded /\ Outbox!RowsAreHeldOnce
  /\ Outbox!BuriedIsNotLogged
  /\ OutboxHeld /\ OutboxKnown

\* Nothing is written yet.
LEMMA OutboxStart ==
  ASSUME Outbox!AuthOutboxAssumption, Outbox!Init
  PROVE  OutboxInv
<1>1. Outbox!TypeOK
  <2>1. 0 \in 0 .. MaxUnknown /\ 0 \in 0 .. OutboxFaults
    BY DEF Outbox!AuthOutboxAssumption
  <2>2. \A d \in Drainer : job[d] = Outbox!Idle
    BY DEF Outbox!Init
  <2>3. job \in [Drainer -> [event : Outbox!Event \cup {0}, at : {"idle",
        "send"} \cup Outbox!Outcomes]]
    BY DEF Outbox!Init, Outbox!Idle
  <2>4. \A d \in Drainer : job[d].at = "idle" <=> job[d].event = 0
    BY <2>2 DEF Outbox!Idle
  <2> QED BY <2>1, <2>3, <2>4 DEF Outbox!Init, Outbox!TypeOK
<1>2. Outbox!ChangesAreRecorded /\ Outbox!BuriedIsNotLogged
  BY DEF Outbox!Init, Outbox!ChangesAreRecorded, Outbox!BuriedIsNotLogged
<1>3. Outbox!RowsAreHeldOnce /\ OutboxHeld /\ OutboxKnown
  BY DEF Outbox!Init, Outbox!RowsAreHeldOnce, OutboxHeld, OutboxKnown, Outbox!Idle
<1> QED BY <1>1, <1>2, <1>3 DEF OutboxInv

\* The transactions, and what time does to the rows, leave the drains alone.
LEMMA OutboxEmits ==
  ASSUME Outbox!AuthOutboxAssumption, OutboxInv, NEW e \in Outbox!Event,
         Outbox!Emit(e) \/ Outbox!ComesDue(e) \/ Outbox!GrowsOld(e)
  PROVE  OutboxInv'
<1>1. Outbox!TypeOK'
  BY DEF OutboxInv, Outbox!TypeOK, Outbox!Emit, Outbox!Enqueue, Outbox!KeyIsMissing, Outbox!Commit,
         Outbox!Rollback, Outbox!ComesDue, Outbox!GrowsOld, Outbox!Fault,
         Outbox!AuthOutboxAssumption
<1>2. Outbox!ChangesAreRecorded'
  BY DEF OutboxInv, Outbox!TypeOK, Outbox!ChangesAreRecorded, Outbox!Emit, Outbox!Enqueue,
         Outbox!KeyIsMissing, Outbox!Commit, Outbox!Rollback,
         Outbox!ComesDue, Outbox!GrowsOld
<1>3. job' = job /\ log' = log /\ dead' = dead /\ harmed' = harmed /\ due \subseteq due'
  BY DEF Outbox!Emit, Outbox!Enqueue, Outbox!KeyIsMissing, Outbox!Commit, Outbox!Rollback,
         Outbox!ComesDue, Outbox!GrowsOld
<1>4. rows' = rows \/ (rows' = rows \cup {e} /\ e \notin log \cup dead)
  BY DEF OutboxInv, Outbox!ChangesAreRecorded, Outbox!Emit, Outbox!Enqueue, Outbox!KeyIsMissing,
         Outbox!Commit, Outbox!Rollback, Outbox!ComesDue,
         Outbox!GrowsOld
<1>5. Outbox!RowsAreHeldOnce' /\ Outbox!BuriedIsNotLogged'
  BY <1>3 DEF OutboxInv, Outbox!RowsAreHeldOnce, Outbox!BuriedIsNotLogged, Outbox!Idle
<1>6. OutboxHeld'
  BY <1>3, <1>4 DEF OutboxInv, OutboxHeld, Outbox!Idle
<1>7. OutboxKnown'
  BY <1>3, <1>4 DEF OutboxInv, OutboxKnown
<1> QED BY <1>1, <1>2, <1>5, <1>6, <1>7 DEF OutboxInv

\* A drain takes a row that no other holds.
LEMMA OutboxClaims ==
  ASSUME Outbox!AuthOutboxAssumption, OutboxInv, NEW d \in Drainer, Outbox!Claim(d)
  PROVE  OutboxInv'
<1>1. PICK e \in due \ Outbox!Locked : job' = [job EXCEPT ![d] = [event |-> e, at |-> "send"]]
  BY DEF Outbox!Claim
<1>2. /\ e \in Outbox!Event /\ e # 0 /\ job[d] = Outbox!Idle
      /\ \A c \in Drainer : job[c].event # e
      /\ job \in [Drainer -> [event : Outbox!Event \cup {0}, at : {"idle",
         "send"} \cup Outbox!Outcomes]]
  <2>1. e \in due /\ due \subseteq rows /\ rows \subseteq Outbox!Event
    BY <1>1 DEF OutboxInv, Outbox!TypeOK
  <2>2. e \in Outbox!Event /\ e # 0
    BY <2>1 DEF Outbox!AuthOutboxAssumption, Outbox!Event
  <2>3. \A c \in Drainer : job[c].event # e
    BY <1>1 DEF Outbox!Locked
  <2> QED BY <2>2, <2>3 DEF OutboxInv, Outbox!TypeOK, Outbox!Claim
<1>3. /\ job' \in [Drainer -> [event : Outbox!Event \cup {0}, at : {"idle",
         "send"} \cup Outbox!Outcomes]]
      /\ \A c \in Drainer : job'[c] = IF c = d THEN [event |-> e, at |-> "send"] ELSE job[c]
  BY <1>1, <1>2
<1>4. UNCHANGED <<change, rows, attempts, due, dead, log, rejects, ofaults, harmed>>
  BY DEF Outbox!Claim
<1>5. Outbox!TypeOK'
  BY <1>2, <1>3, <1>4 DEF OutboxInv, Outbox!TypeOK
<1>6. Outbox!ChangesAreRecorded' /\ Outbox!BuriedIsNotLogged'
  BY <1>4 DEF OutboxInv, Outbox!ChangesAreRecorded, Outbox!BuriedIsNotLogged
<1>7. Outbox!RowsAreHeldOnce'
  BY <1>2, <1>3 DEF OutboxInv, Outbox!RowsAreHeldOnce, Outbox!Idle
<1>8. OutboxHeld'
  BY <1>1, <1>3, <1>4 DEF OutboxInv, OutboxHeld, Outbox!Idle
<1>9. OutboxKnown'
  <2>1. \A c \in Drainer : job'[c].at \in {"accepted", "terminal"} => job'[c] = job[c]
    BY <1>3
  <2>2. \A c \in Drainer, f \in Outbox!Event : job[c] = [event |-> f, at |-> "accepted"] =>
          job'[c] = job[c]
    BY <1>2, <1>3 DEF Outbox!Idle
  <2>3. rows \subseteq Outbox!Event
    BY DEF OutboxInv, Outbox!TypeOK
  <2> QED BY <1>4, <2>1, <2>2, <2>3 DEF OutboxInv, OutboxKnown
<1> QED BY <1>5, <1>6, <1>7, <1>8, <1>9 DEF OutboxInv

\* An event is sent while it is held: no other drain resolves it, and it is not dead.
LEMMA OutboxSends ==
  ASSUME Outbox!AuthOutboxAssumption, OutboxInv, NEW d \in Drainer, Outbox!Send(d)
  PROVE  OutboxInv'
<1> DEFINE e == job[d].event
<1>1. /\ job[d].at = "send" /\ job[d] # Outbox!Idle
      /\ job \in [Drainer -> [event : Outbox!Event \cup {0}, at : {"idle",
         "send"} \cup Outbox!Outcomes]]
      /\ UNCHANGED <<change, rows, attempts, due, dead, rejects>>
  BY DEF OutboxInv, Outbox!TypeOK, Outbox!Send, Outbox!Idle
<1>2. e \in Outbox!Event /\ e \in rows /\ e \notin dead /\ e \in due
  BY <1>1 DEF OutboxInv, Outbox!TypeOK, OutboxHeld
<1>3. PICK o \in Outbox!Outcomes :
        /\ job' = [job EXCEPT ![d].at = o]
        /\ log' = log \/ log' = log \cup {e}
        /\ o = "accepted" => e \in log'
        /\ o = "terminal" => log' = log
        /\ log' # log => o = "accepted" \/ harmed'
        /\ harmed => harmed'
        /\ harmed' \in BOOLEAN
        /\ ofaults' \in 0 .. OutboxFaults
  <2>1. ofaults \in 0 .. OutboxFaults /\ harmed \in BOOLEAN
    BY DEF OutboxInv, Outbox!TypeOK
  <2>2. CASE log' = log \cup {e} /\ Outbox!Answers(d, "accepted") /\ UNCHANGED <<ofaults, harmed>>
    BY <2>1, <2>2 DEF Outbox!Answers, Outbox!Outcomes
  <2>3. CASE log' = log \cup {e} /\ Outbox!Answers(d, "unreachable") /\ Outbox!Fault
               /\ harmed' = TRUE
    BY <2>1, <2>3 DEF Outbox!Answers, Outbox!Outcomes, Outbox!Fault, Outbox!AuthOutboxAssumption
  <2>4. CASE Outbox!Answers(d, "terminal") /\ UNCHANGED <<log, ofaults, harmed>>
    BY <2>1, <2>4 DEF Outbox!Answers, Outbox!Outcomes
  <2>5. CASE \E outcome \in {"unreachable", "unknown"} :
               Outbox!Answers(d, outcome) /\ UNCHANGED <<log, ofaults, harmed>>
    <3>1. PICK outcome \in {"unreachable", "unknown"} :
                 Outbox!Answers(d, outcome) /\ UNCHANGED <<log, ofaults, harmed>>
      BY <2>5
    <3> QED BY <2>1, <3>1 DEF Outbox!Answers, Outbox!Outcomes
  <2> QED BY <2>2, <2>3, <2>4, <2>5 DEF Outbox!Send
<1>4. /\ job' \in [Drainer -> [event : Outbox!Event \cup {0}, at : {"idle",
         "send"} \cup Outbox!Outcomes]]
      /\ job'[d].event = e /\ job'[d].at = o
      /\ \A c \in Drainer \ {d} : job'[c] = job[c]
  BY <1>1, <1>3 DEF Outbox!Outcomes
<1>5. Outbox!TypeOK'
  BY <1>1, <1>2, <1>3, <1>4 DEF OutboxInv, Outbox!TypeOK, Outbox!Outcomes
<1>6. Outbox!ChangesAreRecorded'
  BY <1>1, <1>2, <1>3 DEF OutboxInv, Outbox!ChangesAreRecorded
<1>7. Outbox!RowsAreHeldOnce'
  <2>1. \A c \in Drainer \ {d} : job[c].event # e
    BY <1>1 DEF OutboxInv, Outbox!RowsAreHeldOnce, Outbox!TypeOK, Outbox!Idle
  <2> QED BY <1>4, <2>1 DEF OutboxInv, Outbox!RowsAreHeldOnce, Outbox!Idle
<1>8. Outbox!BuriedIsNotLogged'
  BY <1>1, <1>2, <1>3 DEF OutboxInv, Outbox!BuriedIsNotLogged
<1>9. OutboxHeld'
  BY <1>1, <1>2, <1>4 DEF OutboxInv, OutboxHeld, Outbox!Idle
<1>10. OutboxKnown'
  <2>1. \A c \in Drainer \ {d} : job[c] # Outbox!Idle => job[c].event # e
    BY <1>1 DEF OutboxInv, Outbox!RowsAreHeldOnce
  <2>2. \A c \in Drainer : job'[c].at = "accepted" => job'[c].event \in log'
    BY <1>3, <1>4 DEF OutboxInv, OutboxKnown
  <2>3. ASSUME ~harmed', NEW c \in Drainer, job'[c].at = "terminal"
        PROVE  job'[c].event \notin log'
    <3>1. CASE c = d
      <4>1. o = "terminal" /\ log' = log
        BY <1>3, <1>4, <2>3, <3>1
      <4>2. ASSUME e \in log
            PROVE  FALSE
        <5>1. PICK b \in Drainer : job[b] = [event |-> e, at |-> "accepted"]
          BY <1>2, <1>3, <2>3, <4>2 DEF OutboxInv, OutboxKnown
        <5>2. b # d /\ job[b] # Outbox!Idle /\ job[b].event = e
          BY <1>1, <5>1 DEF Outbox!Idle
        <5> QED BY <2>1, <5>2
      <4> QED BY <1>4, <3>1, <4>1, <4>2
    <3>2. CASE c # d
      <4>1. job[c].event \notin log /\ job[c] # Outbox!Idle /\ job'[c] = job[c]
        BY <1>3, <1>4, <2>3, <3>2 DEF OutboxInv, OutboxKnown, Outbox!Idle
      <4> QED BY <1>3, <2>1, <3>2, <4>1
    <3> QED BY <3>1, <3>2
  <2>4. ASSUME ~harmed', NEW f \in rows' \cap log'
        PROVE  \E c \in Drainer : job'[c] = [event |-> f, at |-> "accepted"]
    <3>1. CASE f \in log
      <4>1. PICK c \in Drainer : job[c] = [event |-> f, at |-> "accepted"]
        BY <1>1, <1>3, <2>4, <3>1 DEF OutboxInv, OutboxKnown
      <4>2. c # d
        BY <1>1, <4>1
      <4> QED BY <1>4, <4>1, <4>2
    <3>2. CASE f \notin log
      <4>1. f = e /\ o = "accepted"
        BY <1>3, <2>4, <3>2
      <4> QED BY <1>4, <4>1
    <3> QED BY <3>1, <3>2
  <2> QED BY <2>2, <2>3, <2>4 DEF OutboxKnown
<1> QED BY <1>5, <1>6, <1>7, <1>8, <1>9, <1>10 DEF OutboxInv

\* A drain lets its event go: resolved, or back to the rows.
LEMMA OutboxLetsGo ==
  ASSUME Outbox!AuthOutboxAssumption, OutboxInv, NEW d \in Drainer,
         Outbox!Resolve(d) \/ Outbox!DrainFails(d)
  PROVE  OutboxInv'
<1> DEFINE e == job[d].event
<1>1. /\ job[d] # Outbox!Idle /\ job' = [job EXCEPT ![d] = Outbox!Idle]
      /\ job \in [Drainer -> [event : Outbox!Event \cup {0}, at : {"idle",
         "send"} \cup Outbox!Outcomes]]
      /\ change' = change /\ log' = log /\ rejects' = rejects
  BY DEF OutboxInv, Outbox!TypeOK, Outbox!Resolve, Outbox!DrainFails, Outbox!Idle, Outbox!Outcomes
<1>2. e \in Outbox!Event /\ e \in rows /\ e \notin dead /\ e \in due
  BY <1>1 DEF OutboxInv, Outbox!TypeOK, OutboxHeld
<1>3. /\ job' \in [Drainer -> [event : Outbox!Event \cup {0}, at : {"idle",
         "send"} \cup Outbox!Outcomes]]
      /\ job'[d] = Outbox!Idle
      /\ \A c \in Drainer \ {d} : job'[c] = job[c]
  BY <1>1 DEF Outbox!Idle
<1>4. \A c \in Drainer \ {d} : job[c].event # e
  BY <1>1, <1>2 DEF OutboxInv, Outbox!RowsAreHeldOnce, Outbox!TypeOK, Outbox!Idle
<1>5. Outbox!RowsAreHeldOnce'
  BY <1>1, <1>3 DEF OutboxInv, Outbox!RowsAreHeldOnce, Outbox!TypeOK, Outbox!Idle
<1>6. /\ \A c \in Drainer : job'[c].at = "accepted" => job'[c].event \in log'
      /\ harmed \/ \A c \in Drainer : job'[c].at = "terminal" => job'[c].event \notin log'
  BY <1>1, <1>3 DEF OutboxInv, OutboxKnown, Outbox!Idle
<1>7. CASE Outbox!Resolve(d)
  <2>1. PICK buried \in BOOLEAN, gone \in BOOLEAN :
          /\ rows' = IF gone THEN rows \ {e} ELSE rows
          /\ due' = due \ {e}
          /\ dead' = IF buried THEN dead \cup {e} ELSE dead
          /\ gone <=> buried \/ job[d].at = "accepted"
          /\ buried => job[d].at \in {"terminal", "unknown"}
          /\ attempts' = [attempts EXCEPT ![e] = IF gone \/ @ = MaxUnknown THEN @ ELSE @ + 1]
    <3> DEFINE buried == Outbox!GivesUp(e, job[d].at)
               gone == job[d].at = "accepted" \/ buried
    <3>1. buried \in BOOLEAN /\ (buried => job[d].at \in {"terminal", "unknown"})
      BY DEF Outbox!GivesUp
    <3>2. gone \in BOOLEAN /\ (gone <=> buried \/ job[d].at = "accepted")
      BY DEF Outbox!GivesUp
    <3>3. /\ rows' = IF gone THEN rows \ {e} ELSE rows
          /\ due' = due \ {e}
          /\ dead' = IF buried THEN dead \cup {e} ELSE dead
          /\ attempts' = [attempts EXCEPT ![e] = IF gone \/ @ = MaxUnknown THEN @ ELSE @ + 1]
      BY <1>7 DEF Outbox!Resolve
    <3> HIDE DEF buried, gone
    <3> QED BY <3>1, <3>2, <3>3
  <2>2. ofaults' = ofaults /\ harmed' = harmed
    BY <1>7 DEF Outbox!Resolve
  <2>3. attempts' \in [Outbox!Event -> 0 .. MaxUnknown]
    BY <1>2, <2>1 DEF OutboxInv, Outbox!TypeOK, Outbox!AuthOutboxAssumption
  <2>4. Outbox!TypeOK'
    BY <1>1, <1>2, <1>3, <2>1, <2>2, <2>3 DEF OutboxInv, Outbox!TypeOK, Outbox!Idle
  <2>5. Outbox!ChangesAreRecorded'
    <3>1. rows' \cup log' \cup dead' = rows \cup log \cup dead
      BY <1>1, <1>2, <2>1 DEF OutboxInv, OutboxKnown
    <3> QED BY <1>1, <3>1 DEF OutboxInv, Outbox!ChangesAreRecorded
  <2>6. ASSUME ~harmed, buried, e \in log
        PROVE  FALSE
    <3>1. PICK c \in Drainer : job[c] = [event |-> e, at |-> "accepted"]
      BY <1>2, <2>6 DEF OutboxInv, OutboxKnown
    <3>2. c = d
      BY <1>4, <3>1
    <3> QED BY <2>1, <2>6, <3>1, <3>2 DEF OutboxInv, OutboxKnown
  <2>7. Outbox!BuriedIsNotLogged'
    BY <1>1, <2>1, <2>2, <2>6 DEF OutboxInv, Outbox!BuriedIsNotLogged
  <2>8. OutboxHeld'
    BY <1>2, <1>3, <1>4, <2>1 DEF OutboxInv, OutboxHeld
  <2>9. harmed' \/ \A f \in rows' \cap log' :
                      \E c \in Drainer : job'[c] = [event |-> f, at |-> "accepted"]
    <3> SUFFICES ASSUME ~harmed, NEW f \in rows' \cap log'
                 PROVE  \E c \in Drainer : job'[c] = [event |-> f, at |-> "accepted"]
      BY <2>2
    <3>1. PICK c \in Drainer : job[c] = [event |-> f, at |-> "accepted"]
      BY <1>1, <2>1 DEF OutboxInv, OutboxKnown
    <3>2. c # d
      BY <2>1, <3>1
    <3> QED BY <1>3, <3>1, <3>2
  <2> QED BY <1>5, <1>6, <2>2, <2>4, <2>5, <2>7, <2>8, <2>9 DEF OutboxInv, OutboxKnown
<1>8. CASE Outbox!DrainFails(d)
  <2>1. /\ harmed' = (harmed \/ job[d].at = "accepted")
        /\ rows' = rows /\ attempts' = attempts /\ due' = due /\ dead' = dead
        /\ ofaults' \in 0 .. OutboxFaults
    BY <1>8 DEF Outbox!DrainFails, Outbox!Fault, OutboxInv, Outbox!TypeOK,
                Outbox!AuthOutboxAssumption
  <2>2. harmed' \in BOOLEAN /\ (harmed => harmed') /\ (job[d].at = "accepted" => harmed')
    BY <2>1
  <2>3. Outbox!TypeOK'
    BY <1>1, <1>3, <2>1, <2>2 DEF OutboxInv, Outbox!TypeOK, Outbox!Idle
  <2>4. Outbox!ChangesAreRecorded'
    BY <1>1, <2>1 DEF OutboxInv, Outbox!ChangesAreRecorded
  <2>5. Outbox!BuriedIsNotLogged'
    BY <1>1, <2>1, <2>2 DEF OutboxInv, Outbox!BuriedIsNotLogged
  <2>6. OutboxHeld'
    BY <1>3, <2>1 DEF OutboxInv, OutboxHeld
  <2>7. harmed' \/ \A f \in rows' \cap log' :
                      \E c \in Drainer : job'[c] = [event |-> f, at |-> "accepted"]
    <3> SUFFICES ASSUME ~harmed', NEW f \in rows' \cap log'
                 PROVE  \E c \in Drainer : job'[c] = [event |-> f, at |-> "accepted"]
      OBVIOUS
    <3>1. PICK c \in Drainer : job[c] = [event |-> f, at |-> "accepted"]
      BY <1>1, <2>1, <2>2 DEF OutboxInv, OutboxKnown
    <3>2. c # d
      BY <2>2, <3>1
    <3> QED BY <1>3, <3>1, <3>2
  <2> QED BY <1>5, <1>6, <2>2, <2>3, <2>4, <2>5, <2>6, <2>7 DEF OutboxInv, OutboxKnown
<1> QED BY <1>7, <1>8

\* The invariant is kept by every step.
LEMMA OutboxStep ==
  ASSUME Outbox!AuthOutboxAssumption, OutboxInv, [Outbox!Next]_(Outbox!vars)
  PROVE  OutboxInv'
<1>1. CASE \E e \in Outbox!Event : Outbox!Emit(e) \/ Outbox!ComesDue(e) \/ Outbox!GrowsOld(e)
  BY <1>1, OutboxEmits
<1>2. ASSUME NEW d \in Drainer, Outbox!Drain(d)
      PROVE  OutboxInv'
  BY <1>2, OutboxClaims, OutboxSends, OutboxLetsGo DEF Outbox!Drain
<1>3. CASE UNCHANGED Outbox!vars
  BY <1>3 DEF OutboxInv, Outbox!TypeOK, Outbox!ChangesAreRecorded, Outbox!RowsAreHeldOnce,
              Outbox!BuriedIsNotLogged, OutboxHeld,
              OutboxKnown, Outbox!vars, Outbox!Idle
<1> QED BY <1>1, <1>2, <1>3 DEF Outbox!Next

-----------------------------------------------------------------------------
(* The keys of the checkpoints *)

\* The files and what a process has read of them: the id of a pair is its number everywhere.
KeysAgree ==
  /\ public = setting /\ activeId \in {setting, None}
  /\ \A i \in Pair : named[i] \in {i, None} /\ ring[i] \in {i, None}
  /\ loaded # None => loaded = activeId /\ signer = "local"
  /\ activeId = None => loaded = None /\ \A i \in Pair : ring[i] = None

\* A checkpoint was signed with the pair of its id, whose public key is kept.
CheckpointsKept ==
  \A k \in 1 .. Len(checkpoints) :
    LET c == checkpoints[k]
    IN  c.pair = c.id /\ (c.id = setting \/ named[c.id] = c.id)

KeysInv ==
  /\ Signing!TypeOK /\ KeysAgree /\ CheckpointsKept
  /\ Signing!EveryCheckpointVerifies /\ Signing!SignsWhatItVerifies

\* The elements of a sequence of a set.
LEMMA SeqElements ==
  ASSUME NEW S, NEW q \in Seq(S)
  PROVE  /\ Len(q) \in Nat
         /\ \A k \in 1 .. Len(q) : q[k] \in S
         /\ \A x \in S : Append(q, x) \in Seq(S)
  OBVIOUS

\* One key, and no checkpoint.
LEMMA KeysStart ==
  ASSUME Signing!CheckpointKeysAssumption, Signing!Init
  PROVE  KeysInv
<1>1. Signing!TypeOK
  <2>1. 0 \in 0 .. MaxSwaps
    BY DEF Signing!CheckpointKeysAssumption
  <2>2. checkpoints \in Seq([id : Pair, pair : Pair])
    BY DEF Signing!Init
  <2>3. verified \in [kind : {"none", "intact", "signature"}, verified : Nat]
    BY DEF Signing!Init, Signing!NoReply
  <2> QED BY <2>1, <2>2, <2>3 DEF Signing!Init, Signing!TypeOK, Signing!CheckpointKeysAssumption
<1>2. KeysAgree /\ Signing!SignsWhatItVerifies
  BY DEF Signing!Init, KeysAgree, Signing!SignsWhatItVerifies
<1>3. CheckpointsKept /\ Signing!EveryCheckpointVerifies
  BY DEF Signing!Init, CheckpointsKept, Signing!EveryCheckpointVerifies, Signing!NoReply
<1> QED BY <1>1, <1>2, <1>3 DEF KeysInv

\* Whatever is looked up while the process runs is the pair of the id, or nothing.
LEMMA LookupFinds ==
  ASSUME Signing!CheckpointKeysAssumption, KeysInv, activeId # None, NEW i \in Pair
  PROVE  /\ Signing!Lookup(i) \in {i, None}
         /\ i = setting \/ named[i] = i => Signing!Lookup(i) = i
  BY DEF KeysInv, Signing!TypeOK, KeysAgree, Signing!Lookup, Signing!CheckpointKeysAssumption

\* The ring only learns keys, each under its own name.
LEMMA RememberKeeps ==
  ASSUME Signing!CheckpointKeysAssumption, KeysInv, activeId # None, NEW ids, Signing!Remember(ids)
  PROVE  /\ ring' \in [Pair -> Pair \cup {None}]
         /\ \A i \in Pair : ring'[i] \in {i, None} /\ (ring[i] # None => ring'[i] = ring[i])
<1>1. \A i \in Pair : ring'[i] = IF i \in ids THEN Signing!Lookup(i) ELSE ring[i]
  BY DEF Signing!Remember
<1>2. \A i \in Pair : ring'[i] \in {i, None}
  BY <1>1, LookupFinds DEF KeysInv, KeysAgree
<1>3. \A i \in Pair : ring[i] # None => Signing!Lookup(i) = ring[i]
  BY DEF Signing!Lookup
<1> QED BY <1>1, <1>2, <1>3 DEF Signing!Remember

\* All of them verify, so the first that does not is none of them.
LEMMA AllVerify ==
  ASSUME Signing!CheckpointKeysAssumption, KeysInv, activeId # None
  PROVE  Signing!Verified = Len(checkpoints)
<1>1. Len(checkpoints) \in Nat
  BY DEF KeysInv, Signing!TypeOK
<1>2. \A k \in 1 .. Len(checkpoints) : Signing!Signed(k)
  <2> SUFFICES ASSUME NEW k \in 1 .. Len(checkpoints) PROVE Signing!Signed(k)
    OBVIOUS
  <2>1. checkpoints[k].id \in Pair
    <3>1. checkpoints[k] \in [id : Pair, pair : Pair]
      BY SeqElements DEF KeysInv, Signing!TypeOK
    <3> QED BY <3>1
  <2> QED BY <2>1, LookupFinds DEF KeysInv, CheckpointsKept, Signing!Signed
<1> DEFINE Ok(n) == (\A k \in 1 .. n : Signing!Signed(k))
             /\ (n < Len(checkpoints) => ~Signing!Signed(n + 1))
<1>3. Len(checkpoints) \in 0 .. Len(checkpoints) /\ Ok(Len(checkpoints))
  BY <1>1, <1>2
<1>4. \A n \in 0 .. Len(checkpoints) : Ok(n) => n = Len(checkpoints)
  BY <1>1, <1>2
<1> HIDE DEF Ok
<1>5. Len(checkpoints) = CHOOSE n \in 0 .. Len(checkpoints) : Ok(n)
  BY <1>3, <1>4
<1> QED BY <1>5 DEF Signing!Verified, Ok

\* A start, a stop, and what is done to the files.
LEMMA KeysMoved ==
  ASSUME Signing!CheckpointKeysAssumption, KeysInv,
         \/ Signing!Start \/ Signing!Stop \/ Signing!Reply
         \/ \E p \in Pair : Signing!Rotate(p)
         \/ \E p \in Pair \cup {None} : Signing!Misplace(p)
  PROVE  KeysInv'
<1>1. CASE Signing!Start
  BY <1>1 DEF Signing!Start, KeysInv, Signing!TypeOK, KeysAgree, CheckpointsKept,
              Signing!EveryCheckpointVerifies,
              Signing!SignsWhatItVerifies, Signing!CheckpointKeysAssumption
<1>2. CASE Signing!Stop
  BY <1>2 DEF Signing!Stop, Signing!Forgets, Signing!NoReply, KeysInv, Signing!TypeOK, KeysAgree,
              CheckpointsKept,
              Signing!EveryCheckpointVerifies, Signing!SignsWhatItVerifies,
              Signing!CheckpointKeysAssumption
<1>3. CASE Signing!Reply
  BY <1>3 DEF Signing!Reply, Signing!NoReply, KeysInv, Signing!TypeOK, KeysAgree, CheckpointsKept,
              Signing!EveryCheckpointVerifies, Signing!SignsWhatItVerifies,
              Signing!CheckpointKeysAssumption
<1>4. ASSUME NEW p \in Pair, Signing!Rotate(p) PROVE KeysInv'
  <2>1. /\ activeId = None /\ public = setting /\ setting \in Pair
        /\ named \in [Pair -> Pair \cup {None}] /\ checkpoints \in Seq([id : Pair, pair : Pair])
        /\ \A i \in Pair : named[i] \in {i, None}
    BY <1>4 DEF Signing!Rotate, KeysInv, Signing!TypeOK, KeysAgree
  <2>2. /\ named' = [named EXCEPT ![setting] = setting]
        /\ private' = p /\ public' = p /\ setting' = p
        /\ UNCHANGED <<activeId, signer, loaded, ring, checkpoints, verified>>
    BY <1>4, <2>1 DEF Signing!Rotate
  <2>3. swaps' \in 0 .. MaxSwaps
    BY <1>4 DEF Signing!Rotate, Signing!Changes, KeysInv, Signing!TypeOK,
                Signing!CheckpointKeysAssumption
  <2>4. Signing!TypeOK'
    BY <2>1, <2>2, <2>3 DEF KeysInv, Signing!TypeOK
  <2>5. KeysAgree'
    BY <2>1, <2>2 DEF KeysInv, KeysAgree
  <2>6. CheckpointsKept'
    <3> SUFFICES ASSUME NEW k \in 1 .. Len(checkpoints)
                 PROVE  /\ checkpoints[k].pair = checkpoints[k].id
                        /\ checkpoints[k].id = p \/ named'[checkpoints[k].id] = checkpoints[k].id
      BY <2>2 DEF CheckpointsKept
    <3>1. checkpoints[k].id \in Pair
      <4>1. checkpoints[k] \in [id : Pair, pair : Pair]
        BY <2>1, SeqElements
      <4> QED BY <4>1
    <3>2. /\ checkpoints[k].pair = checkpoints[k].id
          /\ checkpoints[k].id = setting \/ named[checkpoints[k].id] = checkpoints[k].id
      BY DEF KeysInv, CheckpointsKept
    <3> QED BY <2>1, <2>2, <3>1, <3>2
  <2> QED BY <2>2, <2>4, <2>5, <2>6 DEF KeysInv, Signing!EveryCheckpointVerifies,
                                        Signing!SignsWhatItVerifies
<1>5. ASSUME NEW p \in Pair \cup {None}, Signing!Misplace(p) PROVE KeysInv'
  BY <1>5 DEF Signing!Misplace, Signing!Changes, KeysInv, Signing!TypeOK, KeysAgree,
              CheckpointsKept,
              Signing!EveryCheckpointVerifies, Signing!SignsWhatItVerifies,
              Signing!CheckpointKeysAssumption
<1> QED BY <1>1, <1>2, <1>3, <1>4, <1>5

\* A checkpoint is signed with the pair of the active id, or not at all.
LEMMA KeysSign ==
  ASSUME Signing!CheckpointKeysAssumption, KeysInv, Signing!Create
  PROVE  KeysInv'
<1>1. /\ activeId # None /\ activeId = setting /\ activeId \in Pair /\ signer' = Signing!Signer
      /\ Signing!Signer \in {"local", "verifyOnly"} /\ (loaded # None => Signing!Signer = "local")
      /\ checkpoints \in Seq([id : Pair, pair : Pair])
      /\ UNCHANGED <<private, public, named, setting, activeId, verified, swaps>>
  BY DEF Signing!Create, Signing!Signer, KeysInv, Signing!TypeOK, KeysAgree
<1>2. Signing!Lookup(activeId) = activeId
  BY <1>1, LookupFinds
<1>3. /\ ring' \in [Pair -> Pair \cup {None}]
      /\ \A i \in Pair : ring'[i] \in {i, None} /\ (ring[i] # None => ring'[i] = ring[i])
      /\ loaded' \in {loaded, activeId}
      /\ loaded' = activeId => ring'[activeId] = activeId /\ Signing!Signer = "local"
      /\ \/ checkpoints' = checkpoints
         \/ checkpoints' = Append(checkpoints, [id |-> activeId, pair |-> activeId])
  <2>1. CASE Signing!Signer = "verifyOnly"
    <3>1. loaded = None /\ UNCHANGED <<loaded, ring, checkpoints>>
      BY <1>1, <2>1 DEF Signing!Create
    <3> QED BY <1>1, <3>1 DEF KeysInv, Signing!TypeOK, KeysAgree
  <2>2. CASE Signing!Signer = "local" /\ loaded # None
    <3>1. /\ checkpoints' = Append(checkpoints, [id |-> activeId, pair |-> loaded])
          /\ UNCHANGED <<loaded, ring>>
      BY <2>2 DEF Signing!Create
    <3> QED BY <1>1, <2>2, <3>1 DEF KeysInv, Signing!TypeOK, KeysAgree, Signing!SignsWhatItVerifies
  <2>3. CASE Signing!Signer = "local" /\ loaded = None /\ Signing!Fits
    <3>1. /\ loaded' = private
          /\ Signing!Remember({activeId})
          /\ checkpoints' = Append(checkpoints, [id |-> activeId, pair |-> private])
      BY <2>3 DEF Signing!Create
    <3>2. private = activeId
      BY <1>2, <2>3 DEF Signing!Fits
    <3>3. ring'[activeId] = activeId
      BY <1>1, <1>2, <3>1 DEF Signing!Remember
    <3> QED BY <1>1, <2>3, <3>1, <3>2, <3>3, RememberKeeps
  <2>4. CASE Signing!Signer = "local" /\ loaded = None /\ ~Signing!Fits
    <3>1. (ring' = ring \/ Signing!Remember({activeId})) /\ UNCHANGED <<loaded, checkpoints>>
      BY <2>4 DEF Signing!Create
    <3> QED BY <1>1, <2>4, <3>1, RememberKeeps DEF KeysInv, Signing!TypeOK, KeysAgree
  <2> QED BY <1>1, <2>1, <2>2, <2>3, <2>4
<1>4. checkpoints' \in Seq([id : Pair, pair : Pair])
  <2> DEFINE C == [id : Pair, pair : Pair]
             c == [id |-> activeId, pair |-> activeId]
  <2>1. c \in C /\ checkpoints \in Seq(C)
    BY <1>1
  <2>2. checkpoints' = checkpoints \/ checkpoints' = Append(checkpoints, c)
    BY <1>3
  <2> HIDE DEF C, c
  <2>3. checkpoints' \in Seq(C)
    BY <2>1, <2>2, SeqElements
  <2> QED BY <2>3 DEF C
<1>5. Signing!TypeOK'
  BY <1>1, <1>3, <1>4 DEF KeysInv, Signing!TypeOK
<1>6. KeysAgree'
  BY <1>1, <1>3 DEF KeysInv, KeysAgree
<1>7. CheckpointsKept'
  <2>1. CASE checkpoints' = checkpoints
    BY <1>1, <1>3, <2>1 DEF KeysInv, CheckpointsKept
  <2>2. CASE checkpoints' = Append(checkpoints, [id |-> activeId, pair |-> activeId])
    <3> DEFINE c == [id |-> activeId, pair |-> activeId]
    <3>1. /\ Len(checkpoints') = Len(checkpoints) + 1 /\ Len(checkpoints) \in Nat
          /\ checkpoints'[Len(checkpoints) + 1] = c
          /\ \A k \in 1 .. Len(checkpoints) : checkpoints'[k] = checkpoints[k]
      BY <1>1, <2>2
    <3> QED BY <1>1, <1>3, <3>1 DEF KeysInv, CheckpointsKept
  <2> QED BY <1>3, <2>1, <2>2
<1>8. Signing!EveryCheckpointVerifies' /\ Signing!SignsWhatItVerifies'
  BY <1>1, <1>3 DEF KeysInv, Signing!TypeOK, KeysAgree, Signing!EveryCheckpointVerifies,
                    Signing!SignsWhatItVerifies
<1> QED BY <1>5, <1>6, <1>7, <1>8 DEF KeysInv

\* The checkpoints are verified: nothing but the key at work and the ring is touched.
LEMMA KeysVerify ==
  ASSUME Signing!CheckpointKeysAssumption, KeysInv, Signing!VerifyCheckpoints
  PROVE  KeysInv'
<1>1. /\ activeId # None /\ signer' = Signing!Signer /\ Signing!Verified = Len(checkpoints)
      /\ Signing!Signer \in {"local", "verifyOnly"} /\ (loaded # None => Signing!Signer = "local")
      /\ UNCHANGED <<private, public, named, setting, activeId, loaded, checkpoints, swaps>>
  BY AllVerify DEF Signing!VerifyCheckpoints, Signing!Signer, KeysInv, Signing!TypeOK, KeysAgree
<1>2. /\ ring' \in [Pair -> Pair \cup {None}]
      /\ \A i \in Pair : ring'[i] \in {i, None} /\ (ring[i] # None => ring'[i] = ring[i])
  BY <1>1, RememberKeeps DEF Signing!VerifyCheckpoints
<1>3. verified' = [kind |-> "intact", verified |-> Len(checkpoints)] /\ Len(checkpoints) \in Nat
  BY <1>1 DEF Signing!VerifyCheckpoints, KeysInv, Signing!TypeOK
<1>4. Signing!TypeOK'
  BY <1>1, <1>2, <1>3 DEF KeysInv, Signing!TypeOK
<1>5. KeysAgree' /\ Signing!SignsWhatItVerifies'
  BY <1>1, <1>2 DEF KeysInv, Signing!TypeOK, KeysAgree, Signing!SignsWhatItVerifies
<1>6. CheckpointsKept' /\ Signing!EveryCheckpointVerifies'
  BY <1>1, <1>3 DEF KeysInv, CheckpointsKept, Signing!EveryCheckpointVerifies
<1> QED BY <1>4, <1>5, <1>6 DEF KeysInv

\* The invariant is kept by every step.
LEMMA KeysStep ==
  ASSUME Signing!CheckpointKeysAssumption, KeysInv, [Signing!Next]_(Signing!vars)
  PROVE  KeysInv'
<1>1. CASE Signing!Next
  BY <1>1, KeysMoved, KeysSign, KeysVerify DEF Signing!Next
<1>2. CASE UNCHANGED Signing!vars
  BY <1>2 DEF KeysInv, Signing!TypeOK, KeysAgree, CheckpointsKept, Signing!EveryCheckpointVerifies,
              Signing!SignsWhatItVerifies, Signing!vars
<1> QED BY <1>1, <1>2

-----------------------------------------------------------------------------
(* The reads of the audit log *)

\* The lock is held from before a row is numbered until it is committed: it has the greatest number.
ReadsRows ==
  /\ IsFiniteSet(events) /\ \A q \in events : q.seq < nextSeq
  /\ \A s \in Readings!Session : chainLock = s <=> sessionAt[s] \in {"insert", "commit"}
  /\ \A s \in Readings!Session : sessionAt[s] = "commit" =>
       /\ inserted[s] \in Readings!Row /\ inserted[s].by = s /\ inserted[s].seq < nextSeq
       /\ \A q \in events : q.seq < inserted[s].seq

\* The record of a query counts the page it is to show, and is committed before that is shown.
ReadsCounted ==
  \A r \in Reader :
    /\ IsFiniteSet(Readings!Recorded(r))
    /\ sessionAt[r] = "commit" => inserted[r].shown = Cardinality(page[r])
    /\ sessionAt[r] = "reply" =>
                Cardinality(shown[r]) + Cardinality(page[r]) <= Cardinality(Readings!Recorded(r))

\* A walk is never ahead of what is committed.
Reached(n) == n = 0 \/ \E q \in events : n <= q.seq

\* Whether a caller asks for the row.
Passes(r, q) == filter[r] => q.by \in Writer

\* What a walk has passed was shown, and a page leaves out nothing between the token and what
\* the walk passes with it.
ReadsPages ==
  \A r \in Reader :
    /\ page[r] \subseteq events
    /\ Reached(pageToken[r]) /\ Reached(through[r]) /\ Reached(ahead[r])
    /\ \A q \in events : Passes(r, q) =>
         /\ q.seq <= pageToken[r] \/ q.seq <= through[r] => q.seq \in shown[r]
         /\ q.seq > pageToken[r] =>
              /\ \A e \in page[r] : q.seq <= e.seq => q \in page[r]
              /\ ~full[r] /\ q.seq <= ahead[r] => q \in page[r]

ReadsInv ==
  /\ Readings!TypeOK /\ ReadsRows /\ ReadsCounted /\ ReadsPages
  /\ Readings!AnswersAreRecorded /\ Readings!WalksMissNothing

\* The greatest number of a set that is bounded.
LEMMA Greatest ==
  ASSUME NEW n \in Nat, NEW S \in SUBSET (0..n), S # {}
  PROVE  \E m \in S : \A x \in S : x <= m
<1> DEFINE R == OpToRel(<, Nat)
           T == {y \in Nat : n - y \in S}
<1>1. IsWellFoundedOn(R, Nat)
  BY NatLessThanWellFounded
<1>2. T \subseteq Nat /\ T # {}
  <2>1. PICK x \in S : TRUE
    OBVIOUS
  <2>2. n - x \in Nat /\ n - (n - x) = x
    BY <2>1
  <2> QED BY <2>1, <2>2
<1>3. PICK y \in T : \A z \in T : ~(<<z, y>> \in R)
  BY <1>1, <1>2, WFMin
<1>4. n - y \in S /\ y \in Nat
  BY <1>3
<1>5. ASSUME NEW x \in S PROVE x <= n - y
  <2>1. n - x \in Nat /\ n - (n - x) = x /\ x \in Nat
    OBVIOUS
  <2>2. n - x \in T
    BY <2>1
  <2>3. ~(n - x < y)
    BY <1>3, <1>4, <2>1, <2>2 DEF OpToRel
  <2> QED BY <1>4, <2>1, <2>3
<1> QED BY <1>4, <1>5

\* The greater of two numbers.
LEMMA MaxOfTwo ==
  ASSUME NEW m \in Nat, NEW n \in Nat
  PROVE  Readings!Max({m, n}) \in {m, n} /\ m <= Readings!Max({m, n}) /\ n <= Readings!Max({m, n})
<1>1. PICK x \in {m, n} : \A y \in {m, n} : x >= y
  <2>1. CASE m >= n
    BY <2>1
  <2>2. CASE n >= m
    BY <2>2
  <2> QED BY <2>1, <2>2
<1>2. Readings!Max({m, n}) \in {m, n} /\ \A y \in {m, n} : Readings!Max({m, n}) >= y
  BY <1>1 DEF Readings!Max
<1> QED BY <1>2

\* The greatest number of some rows.
LEMMA LastOfRows ==
  ASSUME Readings!AuditReadsAssumption, NEW R \in SUBSET Readings!Row
  PROVE  /\ Readings!Last(R) \in 0 .. MaxSeq
         /\ Readings!Last(R) = 0 \/ \E e \in R : Readings!Last(R) = e.seq
         /\ \A e \in R : e.seq <= Readings!Last(R)
<1> DEFINE S == {e.seq : e \in R}
<1>1. MaxSeq \in Nat /\ \A e \in R : e.seq \in 1 .. MaxSeq
  BY DEF Readings!AuditReadsAssumption, Readings!Row
<1>2. CASE R = {}
  BY <1>1, <1>2 DEF Readings!Last
<1>3. CASE R # {}
  <2>1. S \in SUBSET (0 .. MaxSeq) /\ S # {}
    BY <1>1, <1>3
  <2>2. PICK m \in S : \A x \in S : x <= m
    BY <1>1, <2>1, Greatest
  <2>3. \A x \in S : m >= x
    BY <1>1, <2>1, <2>2
  <2>4. Readings!Max(S) \in S /\ \A x \in S : Readings!Max(S) >= x
    BY <2>3 DEF Readings!Max
  <2>5. Readings!Last(R) = Readings!Max(S)
    BY <1>3 DEF Readings!Last
  <2>6. \A x \in S : x <= Readings!Max(S)
    BY <1>1, <2>1, <2>4
  <2> QED BY <2>1, <2>4, <2>5, <2>6
<1> QED BY <1>2, <1>3

\* Nothing is read yet.
LEMMA ReadsStart ==
  ASSUME Readings!AuditReadsAssumption, Readings!Init
  PROVE  ReadsInv
<1>1. MaxSeq \in Nat /\ 1 \in 1 .. MaxSeq + 1 /\ 0 \in 0 .. MaxSeq
  BY DEF Readings!AuditReadsAssumption
<1>2. Readings!TypeOK
  <2>1. \A f \in {pageToken, through, ahead} : f \in [Reader -> 0 .. MaxSeq]
    BY <1>1 DEF Readings!Init
  <2> QED BY <1>1, <2>1 DEF Readings!Init, Readings!TypeOK
<1>3. ReadsRows
  BY FS_EmptySet DEF Readings!Init, ReadsRows, Readings!Session, Readings!AuditReadsAssumption
<1>4. \A r \in Reader : shown[r] = {} /\ page[r] = {} /\ Readings!Recorded(r) = {}
        /\ sessionAt[r] = "idle"
  BY DEF Readings!Init, Readings!Recorded, Readings!Session
<1>5. ReadsCounted /\ Readings!AnswersAreRecorded
  BY <1>4, FS_EmptySet, SameSizes DEF ReadsCounted, Readings!AnswersAreRecorded
<1>6. ReadsPages /\ Readings!WalksMissNothing
  BY <1>4 DEF Readings!Init, ReadsPages, Readings!WalksMissNothing, Reached
<1> QED BY <1>2, <1>3, <1>5, <1>6 DEF ReadsInv

\* The types, one by one.
LEMMA ReadsTypes ==
  ASSUME Readings!AuditReadsAssumption, ReadsInv
  PROVE  /\ MaxSeq \in Nat /\ events \subseteq Readings!Row /\ nextSeq \in 1 .. MaxSeq + 1
         /\ \A q \in Readings!Row : q.seq \in 1 .. MaxSeq /\ q.shown \in Nat
         /\ chainLock \in Readings!Session \cup {None} /\ None \notin Readings!Session
         /\ sessionAt \in [Readings!Session -> {"idle", "lock", "insert", "commit", "reply"}]
         /\ inserted \in [Readings!Session -> Readings!Row \cup {None}]
         /\ page \in [Reader -> SUBSET Readings!Row] /\ full \in [Reader -> BOOLEAN]
         /\ pageToken \in [Reader -> 0 .. MaxSeq] /\ through \in [Reader -> 0 .. MaxSeq]
         /\ ahead \in [Reader -> 0 .. MaxSeq] /\ filter \in [Reader -> BOOLEAN]
         /\ shown \in [Reader -> SUBSET (1 .. MaxSeq)]
         /\ \A r \in Reader : r \in Readings!Session /\ r \notin Writer
  BY DEF Readings!AuditReadsAssumption, ReadsInv, Readings!TypeOK, Readings!Row, Readings!Session

\* The rows of a query are the first of those that are asked for, and all of them if they do
\* not fill the page.
LEMMA FirstRows ==
  ASSUME Readings!AuditReadsAssumption, ReadsInv, NEW r \in Reader, NEW n \in Nat
  PROVE  /\ Readings!FirstOf(r, n) \subseteq Readings!Matching(r)
         /\ \A e \in Readings!FirstOf(r, n), q \in Readings!Matching(r) : q.seq <= e.seq =>
              q \in Readings!FirstOf(r, n)
         /\ ~(Cardinality(Readings!Matching(r)) >= n) =>
              Readings!FirstOf(r, n) = Readings!Matching(r)
<1> DEFINE Upto(q) == {p \in Readings!Matching(r) : p.seq <= q.seq}
<1>1. IsFiniteSet(events) /\ \A q \in events : q.seq \in Nat
  BY ReadsTypes DEF ReadsInv, ReadsRows
<1>2. Readings!Matching(r) \subseteq events
  BY DEF Readings!Matching
<1>3. IsFiniteSet(Readings!Matching(r)) /\ Cardinality(Readings!Matching(r)) \in Nat
  BY <1>1, <1>2, FS_Subset, FS_CardinalityType
<1>4. \A q \in Readings!Matching(r) : /\ IsFiniteSet(Upto(q)) /\ Cardinality(Upto(q)) \in Nat
                                     /\ Cardinality(Upto(q)) <= Cardinality(Readings!Matching(r))
  <2>1. \A q \in Readings!Matching(r) : Upto(q) \subseteq Readings!Matching(r)
    OBVIOUS
  <2> HIDE DEF Upto
  <2> QED BY <1>3, <2>1, FS_Subset, FS_CardinalityType
<1>5. \A q \in Readings!Matching(r) : q \in Readings!FirstOf(r, n) <=> Cardinality(Upto(q)) <= n
  BY SameSizes DEF Readings!FirstOf
<1>6. ASSUME NEW e \in Readings!FirstOf(r, n), NEW q \in Readings!Matching(r), q.seq <= e.seq
      PROVE  q \in Readings!FirstOf(r, n)
  <2>1. e \in Readings!Matching(r)
    BY DEF Readings!FirstOf
  <2>2. \A p \in Readings!Matching(r) : p.seq <= q.seq => p.seq <= e.seq
    BY <1>1, <1>2, <1>6, <2>1
  <2>3. Upto(q) \subseteq Upto(e)
    BY <2>2
  <2> HIDE DEF Upto
  <2>4. Cardinality(Upto(q)) <= Cardinality(Upto(e))
    BY <1>4, <2>1, <2>3, FS_Subset
  <2>5. Cardinality(Upto(e)) <= n /\ Cardinality(Upto(e)) \in Nat /\ Cardinality(Upto(q)) \in Nat
    BY <1>4, <1>5, <2>1
  <2> QED BY <1>5, <2>4, <2>5
<1>7. ASSUME ~(Cardinality(Readings!Matching(r)) >= n), NEW q \in Readings!Matching(r)
      PROVE  q \in Readings!FirstOf(r, n)
  <2> HIDE DEF Upto
  <2> QED BY <1>3, <1>4, <1>5, <1>7
<1> QED BY <1>6, <1>7 DEF Readings!FirstOf

\* A page is read.
LEMMA QueryStep ==
  ASSUME Readings!AuditReadsAssumption, ReadsInv, NEW r \in Reader, NEW n \in Asked,
         Readings!Query(r, n)
  PROVE  ReadsInv'
<1> DEFINE first == Readings!FirstOf(r, Readings!Size(n))
           fills == Cardinality(Readings!Matching(r)) >= Readings!Size(n)
<1>1. /\ page' = [page EXCEPT ![r] = first] /\ full' = [full EXCEPT ![r] = fills]
      /\ ahead' = [ahead EXCEPT ![r] = Readings!Last(events)]
      /\ sessionAt' = [sessionAt EXCEPT ![r] = "lock"]
      /\ sessionAt[r] = "idle"
      /\ UNCHANGED <<events, nextSeq, chainLock, inserted, pageToken, filter, shown, through>>
  BY SameSizes DEF Readings!Query, Readings!Goes
<1>2. Readings!Size(n) \in Nat
  <2>1. n \in Nat /\ DefaultSize \in Nat /\ MaxSize \in Nat
    BY DEF Readings!AuditReadsAssumption
  <2>2. Readings!Min({n, MaxSize}) \in Nat
    <3>1. PICK x \in {n, MaxSize} : \A y \in {n, MaxSize} : x <= y
      <4>1. CASE n <= MaxSize
        BY <2>1, <4>1
      <4>2. CASE MaxSize <= n
        BY <2>1, <4>2
      <4> QED BY <2>1, <4>1, <4>2
    <3>2. Readings!Min({n, MaxSize}) \in {n, MaxSize}
      BY <3>1 DEF Readings!Min
    <3> QED BY <2>1, <3>2
  <2> QED BY <2>1, <2>2 DEF Readings!Size
<1>3. /\ first \subseteq Readings!Matching(r) /\ fills \in BOOLEAN
      /\ \A e \in first, q \in Readings!Matching(r) : q.seq <= e.seq => q \in first
      /\ ~fills => first = Readings!Matching(r)
  BY <1>2, FirstRows
<1> HIDE DEF first, fills
<1>4. first \subseteq events
  BY <1>3 DEF Readings!Matching
<1>5. /\ Readings!Last(events) \in 0 .. MaxSeq
      /\ Readings!Last(events) = 0 \/ \E q \in events : Readings!Last(events) = q.seq
  BY LastOfRows, ReadsTypes
<1>6. Reached(Readings!Last(events))
  BY <1>5, ReadsTypes DEF Reached
<1>7. Readings!TypeOK'
  <2>1. sessionAt' \in [Readings!Session -> {"idle", "lock", "insert", "commit", "reply"}]
    BY <1>1, ReadsTypes
  <2>2. page' \in [Reader -> SUBSET Readings!Row] /\ full' \in [Reader -> BOOLEAN]
    BY <1>1, <1>3, <1>4, ReadsTypes
  <2>3. ahead' \in [Reader -> 0 .. MaxSeq]
    BY <1>1, <1>5, ReadsTypes
  <2> QED BY <1>1, <2>1, <2>2, <2>3 DEF ReadsInv, Readings!TypeOK
<1>8. /\ \A s \in Readings!Session : sessionAt'[s] = IF s = r THEN "lock" ELSE sessionAt[s]
      /\ \A s \in Reader : page'[s] = IF s = r THEN first ELSE page[s]
      /\ \A s \in Reader : full'[s] = IF s = r THEN fills ELSE full[s]
      /\ \A s \in Reader : ahead'[s] = IF s = r THEN Readings!Last(events) ELSE ahead[s]
      /\ r \in Readings!Session
  BY <1>1, ReadsTypes
<1>9. ReadsRows'
  BY <1>1, <1>8 DEF ReadsInv, ReadsRows
<1>10. \A s \in Reader : Readings!Recorded(s)' = Readings!Recorded(s)
  BY <1>1 DEF Readings!Recorded
<1>11. ReadsCounted' /\ Readings!AnswersAreRecorded'
  BY <1>1, <1>8, <1>10, ReadsTypes DEF ReadsInv, ReadsCounted, Readings!AnswersAreRecorded
<1>12. ReadsPages'
  <2>1. \A s \in Reader : \A q : Passes(s, q)' <=> Passes(s, q)
    BY <1>1 DEF Passes
  <2>3. \A q \in events : Passes(r, q) /\ q.seq > pageToken[r] => q \in Readings!Matching(r)
    BY DEF Passes, Readings!Matching
  <2>4. ASSUME NEW s \in Reader
        PROVE  /\ page'[s] \subseteq events'
               /\ Reached(pageToken[s])' /\ Reached(through[s])' /\ Reached(ahead[s])'
    BY <1>1, <1>4, <1>6, <1>8 DEF ReadsInv, ReadsPages, Reached
  <2>5. ASSUME NEW s \in Reader, NEW q \in events, Passes(s, q)
        PROVE  /\ q.seq <= pageToken[s] \/ q.seq <= through[s] => q.seq \in shown[s]
               /\ q.seq > pageToken[s] =>
                    /\ \A e \in page'[s] : q.seq <= e.seq => q \in page'[s]
                    /\ ~full'[s] /\ q.seq <= ahead'[s] => q \in page'[s]
    BY <1>3, <1>8, <2>3, <2>5 DEF ReadsInv, ReadsPages
  <2> QED BY <1>1, <2>1, <2>4, <2>5 DEF ReadsPages
<1> QED BY <1>7, <1>9, <1>11, <1>12 DEF ReadsInv, ReadsPages, Readings!WalksMissNothing, Passes

\* Sessions that wait, and queries that show nothing, change no row and no page.
LEMMA WaitStep ==
  ASSUME Readings!AuditReadsAssumption, ReadsInv,
         \/ \E r \in Reader : Readings!Inspect(r)
         \/ \E w \in Writer : Readings!AppendEvent(w)
         \/ \E s \in Readings!Session : Readings!TakeLock(s)
  PROVE  ReadsInv'
<1>1. UNCHANGED <<events, nextSeq, inserted, page, full, pageToken, filter, shown, through, ahead>>
  BY DEF Readings!Inspect, Readings!AppendEvent, Readings!TakeLock
<1>2. PICK s \in Readings!Session, step \in {"lock", "insert"} :
        /\ sessionAt' = [sessionAt EXCEPT ![s] = step] /\ sessionAt[s] \in {"idle", "lock"}
        /\ IF step = "insert" THEN chainLock = None /\ chainLock' = s ELSE chainLock' = chainLock
  <2>1. CASE \E r \in Reader : Readings!Inspect(r)
    <3>1. PICK r \in Reader : Readings!Inspect(r)
      BY <2>1
    <3>2. r \in Readings!Session
      BY DEF Readings!Session
    <3>3. sessionAt' = [sessionAt EXCEPT ![r] = "lock"] /\ sessionAt[r] = "idle"
            /\ chainLock' = chainLock
      BY <3>1 DEF Readings!Inspect, Readings!Goes
    <3> QED BY <3>2, <3>3
  <2>2. CASE \E w \in Writer : Readings!AppendEvent(w)
    <3>1. PICK r \in Writer : Readings!AppendEvent(r)
      BY <2>2
    <3>2. r \in Readings!Session
      BY DEF Readings!Session
    <3>3. sessionAt' = [sessionAt EXCEPT ![r] = "lock"] /\ sessionAt[r] = "idle"
            /\ chainLock' = chainLock
      BY <3>1 DEF Readings!AppendEvent, Readings!Goes
    <3> QED BY <3>2, <3>3
  <2>3. CASE \E r \in Readings!Session : Readings!TakeLock(r)
    <3>1. PICK r \in Readings!Session : Readings!TakeLock(r)
      BY <2>3
    <3>3. sessionAt' = [sessionAt EXCEPT ![r] = "insert"] /\ sessionAt[r] = "lock"
            /\ chainLock = None /\ chainLock' = r
      BY <3>1 DEF Readings!TakeLock, Readings!LockIsFree, Readings!Goes
    <3> QED BY <3>3
  <2> QED BY <2>1, <2>2, <2>3
<1>3. /\ \A t \in Readings!Session : sessionAt'[t] = IF t = s THEN step ELSE sessionAt[t]
      /\ chainLock' \in Readings!Session \cup {None}
      /\ sessionAt' \in [Readings!Session -> {"idle", "lock", "insert", "commit", "reply"}]
  BY <1>2, ReadsTypes
<1>4. Readings!TypeOK'
  BY <1>1, <1>3 DEF ReadsInv, Readings!TypeOK
<1>5. ReadsRows'
  <2>1. \A t \in Readings!Session : chainLock' = t <=> sessionAt'[t] \in {"insert", "commit"}
    <3>1. \A t \in Readings!Session : chainLock = t <=> sessionAt[t] \in {"insert", "commit"}
      BY DEF ReadsInv, ReadsRows
    <3>2. CASE step = "insert"
      BY <1>2, <1>3, <3>1, <3>2, ReadsTypes
    <3>3. CASE step = "lock"
      BY <1>2, <1>3, <3>1, <3>3, ReadsTypes
    <3> QED BY <3>2, <3>3
  <2> QED BY <1>1, <1>3, <2>1 DEF ReadsInv, ReadsRows
<1>6. \A r \in Reader : Readings!Recorded(r)' = Readings!Recorded(r)
  BY <1>1 DEF Readings!Recorded
<1>7. ReadsCounted' /\ Readings!AnswersAreRecorded'
  BY <1>1, <1>3, <1>6, ReadsTypes DEF ReadsInv, ReadsCounted, Readings!AnswersAreRecorded
<1>8. ReadsPages' /\ Readings!WalksMissNothing'
  BY <1>1 DEF ReadsInv, ReadsPages, Readings!WalksMissNothing, Passes, Reached
<1> QED BY <1>4, <1>5, <1>7, <1>8 DEF ReadsInv

\* A row is numbered under the lock, after all that are committed.
LEMMA InsertStep ==
  ASSUME Readings!AuditReadsAssumption, ReadsInv, NEW s \in Readings!Session, Readings!Insert(s)
  PROVE  ReadsInv'
<1> DEFINE n == IF s \in Reader THEN Cardinality(page[s]) ELSE 0
           row == [seq |-> nextSeq, by |-> s, shown |-> n]
<1>1. /\ sessionAt[s] = "insert" /\ nextSeq <= MaxSeq /\ nextSeq' = nextSeq + 1
      /\ inserted' = [inserted EXCEPT ![s] = row] /\ sessionAt' = [sessionAt EXCEPT ![s] = "commit"]
      /\ UNCHANGED <<events, chainLock, page, full, pageToken, filter, shown, through, ahead>>
  BY SameSizes DEF Readings!Insert, Readings!Goes
<1>2. n \in Nat
  <2>1. s \in Reader => IsFiniteSet(page[s])
    BY FS_Subset DEF ReadsInv, ReadsRows, ReadsPages
  <2> QED BY <2>1, FS_CardinalityType
<1> HIDE DEF n
<1>3. row \in Readings!Row /\ row.seq = nextSeq /\ row.by = s /\ row.shown = n
  BY <1>1, <1>2, ReadsTypes DEF Readings!Row
<1> HIDE DEF row
<1>4. /\ \A t \in Readings!Session : sessionAt'[t] = IF t = s THEN "commit" ELSE sessionAt[t]
      /\ \A t \in Readings!Session : inserted'[t] = IF t = s THEN row ELSE inserted[t]
      /\ nextSeq' \in 1 .. MaxSeq + 1 /\ nextSeq < nextSeq'
      /\ inserted' \in [Readings!Session -> Readings!Row \cup {None}]
      /\ sessionAt' \in [Readings!Session -> {"idle", "lock", "insert", "commit", "reply"}]
  BY <1>1, <1>3, ReadsTypes
<1>5. Readings!TypeOK'
  BY <1>1, <1>4 DEF ReadsInv, Readings!TypeOK
<1>6. ReadsRows'
  <2>1. IsFiniteSet(events') /\ \A q \in events' : q.seq < nextSeq'
    BY <1>1, <1>4, ReadsTypes DEF ReadsInv, ReadsRows
  <2>2. \A t \in Readings!Session : chainLock' = t <=> sessionAt'[t] \in {"insert", "commit"}
    BY <1>1, <1>4 DEF ReadsInv, ReadsRows
  <2>3. ASSUME NEW t \in Readings!Session, sessionAt'[t] = "commit"
        PROVE  /\ inserted'[t] \in Readings!Row /\ inserted'[t].by = t
               /\ inserted'[t].seq < nextSeq'
               /\ \A q \in events' : q.seq < inserted'[t].seq
    <3>1. CASE t = s
      BY <1>1, <1>3, <1>4, <3>1, ReadsTypes DEF ReadsInv, ReadsRows
    <3>2. CASE t # s
      <4>1. inserted[t] \in Readings!Row /\ inserted[t].by = t /\ inserted[t].seq < nextSeq
        BY <1>4, <2>3, <3>2 DEF ReadsInv, ReadsRows
      <4>2. inserted[t].seq < nextSeq'
        BY <1>4, <4>1, ReadsTypes
      <4> QED BY <1>1, <1>4, <2>3, <3>2, <4>1, <4>2 DEF ReadsInv, ReadsRows
    <3> QED BY <3>1, <3>2
  <2> QED BY <2>1, <2>2, <2>3 DEF ReadsRows
<1>7. \A r \in Reader : Readings!Recorded(r)' = Readings!Recorded(r)
  BY <1>1 DEF Readings!Recorded
<1>8. ReadsCounted' /\ Readings!AnswersAreRecorded'
  BY <1>1, <1>3, <1>4, <1>7, ReadsTypes DEF n, ReadsInv, ReadsCounted, Readings!AnswersAreRecorded
<1>9. ReadsPages' /\ Readings!WalksMissNothing'
  BY <1>1 DEF ReadsInv, ReadsPages, Readings!WalksMissNothing, Passes, Reached
<1> QED BY <1>5, <1>6, <1>8, <1>9 DEF ReadsInv

\* The end of a transaction lets the lock go, if it had it.
LEMMA ReleaseStep ==
  ASSUME Readings!AuditReadsAssumption, ReadsInv, NEW s \in Readings!Session, Readings!Release(s),
         NEW step \in {"idle", "reply"}, sessionAt' = [sessionAt EXCEPT ![s] = step]
  PROVE  /\ chainLock' \in Readings!Session \cup {None}
         /\ inserted' \in [Readings!Session -> Readings!Row \cup {None}]
         /\ sessionAt' \in [Readings!Session -> {"idle", "lock", "insert", "commit", "reply"}]
         /\ \A t \in Readings!Session : chainLock' = t <=> sessionAt'[t] \in {"insert", "commit"}
         /\ \A t \in Readings!Session : sessionAt'[t] = IF t = s THEN step ELSE sessionAt[t]
         /\ \A t \in Readings!Session : t # s => inserted'[t] = inserted[t]
<1>1. /\ chainLock' = IF chainLock = s THEN None ELSE chainLock
      /\ inserted' = [inserted EXCEPT ![s] = None]
  BY DEF Readings!Release
<1>2. \A t \in Readings!Session : chainLock = t <=> sessionAt[t] \in {"insert", "commit"}
  BY DEF ReadsInv, ReadsRows
<1> QED BY <1>1, <1>2, ReadsTypes

\* A row is committed: the greatest so far, which no walk has reached, and which counts what
\* the query is going to show.
LEMMA CommitStep ==
  ASSUME Readings!AuditReadsAssumption, ReadsInv, NEW s \in Readings!Session, Readings!Commit(s)
  PROVE  ReadsInv'
<1> DEFINE row == inserted[s]
           step == IF s \in Reader THEN "reply" ELSE "idle"
<1>1. /\ sessionAt[s] = "commit" /\ events' = events \cup {row} /\ Readings!Release(s)
      /\ step \in {"idle", "reply"} /\ sessionAt' = [sessionAt EXCEPT ![s] = step]
      /\ UNCHANGED <<nextSeq, page, full, pageToken, filter, shown, through, ahead>>
  BY DEF Readings!Commit, Readings!Goes
<1>2. /\ row \in Readings!Row /\ row.by = s /\ row.seq < nextSeq /\ row.seq \in 1 .. MaxSeq
      /\ row.shown \in Nat
      /\ \A q \in events : q.seq < row.seq /\ q.seq \in Nat
      /\ row \notin events
  <2>1. /\ row \in Readings!Row /\ row.by = s /\ row.seq < nextSeq
        /\ \A q \in events : q.seq < row.seq
    BY <1>1 DEF ReadsInv, ReadsRows
  <2> HIDE DEF row
  <2>2. row.seq \in 1 .. MaxSeq /\ row.shown \in Nat /\ \A q \in events : q.seq \in Nat
    BY <2>1, ReadsTypes
  <2>3. row \notin events
    BY <2>1, <2>2
  <2> QED BY <2>1, <2>2, <2>3
<1>3. /\ chainLock' \in Readings!Session \cup {None}
      /\ inserted' \in [Readings!Session -> Readings!Row \cup {None}]
      /\ sessionAt' \in [Readings!Session -> {"idle", "lock", "insert", "commit", "reply"}]
      /\ \A t \in Readings!Session : chainLock' = t <=> sessionAt'[t] \in {"insert", "commit"}
      /\ \A t \in Readings!Session : sessionAt'[t] = IF t = s THEN step ELSE sessionAt[t]
      /\ \A t \in Readings!Session : t # s => inserted'[t] = inserted[t]
  <2> HIDE DEF step, row
  <2> QED BY <1>1, ReleaseStep
<1>4. \A t \in Readings!Session : t # s => sessionAt[t] # "commit"
  BY <1>1 DEF ReadsInv, ReadsRows
<1> HIDE DEF row
<1>5. Readings!TypeOK'
  BY <1>1, <1>2, <1>3 DEF ReadsInv, Readings!TypeOK
<1>6. ReadsRows'
  <2>1. IsFiniteSet(events')
    BY <1>1, FS_AddElement DEF ReadsInv, ReadsRows
  <2>2. \A q \in events' : q.seq < nextSeq'
    BY <1>1, <1>2 DEF ReadsInv, ReadsRows
  <2>3. \A t \in Readings!Session : sessionAt'[t] # "commit"
    BY <1>3, <1>4
  <2> QED BY <1>3, <2>1, <2>2, <2>3 DEF ReadsRows
<1>7. \A r \in Reader : r # s => Readings!Recorded(r)' = Readings!Recorded(r)
  BY <1>1, <1>2 DEF Readings!Recorded
<1>8. ASSUME NEW r \in Reader
      PROVE  /\ IsFiniteSet(Readings!Recorded(r)')
             /\ Cardinality(Readings!Recorded(r)') =
                  Cardinality(Readings!Recorded(r)) + (IF r = s THEN row.shown ELSE 0)
             /\ Cardinality(Readings!Recorded(r)) \in Nat
  <2>1. IsFiniteSet(Readings!Recorded(r)) /\ Cardinality(Readings!Recorded(r)) \in Nat
    BY FS_CardinalityType DEF ReadsInv, ReadsCounted
  <2>2. CASE r # s
    BY <1>7, <2>1, <2>2
  <2>3. CASE r = s
    <3> DEFINE new == {row} \X (1 .. row.shown)
    <3>1. Readings!Recorded(r)' = Readings!Recorded(r) \cup new
      BY <1>1, <1>2, <2>3 DEF Readings!Recorded
    <3>2. Readings!Recorded(r) \cap new = {}
      BY <1>2 DEF Readings!Recorded
    <3>3. IsFiniteSet(new) /\ Cardinality(new) = row.shown
      <4>1. IsFiniteSet(1 .. row.shown) /\ Cardinality(1 .. row.shown) = row.shown
        <5>1. \A m \in Nat : IsFiniteSet(1 .. m) /\ Cardinality(1 .. m) = m
          BY FS_Interval
        <5> QED BY <1>2, <5>1
      <4>2. IsFiniteSet({row}) /\ Cardinality({row}) = 1
        BY FS_Singleton
      <4>3. IsFiniteSet(new) /\ Cardinality(new) = 1 * row.shown
        BY <4>1, <4>2, FS_Product
      <4> QED BY <1>2, <4>3
    <3> HIDE DEF new
    <3>4. /\ IsFiniteSet(Readings!Recorded(r) \cup new)
          /\ Cardinality(Readings!Recorded(r) \cup new)
               = Cardinality(Readings!Recorded(r)) + row.shown - Cardinality({})
      BY <2>1, <3>2, <3>3, FS_Union
    <3>5. Cardinality({}) = 0
      BY FS_EmptySet
    <3> QED BY <1>2, <2>1, <2>3, <3>1, <3>4, <3>5
  <2> QED BY <2>2, <2>3
<1>9. \A r \in Reader : Cardinality(shown[r]) \in Nat /\ Cardinality(page[r]) \in Nat
  <2>1. MaxSeq \in Nat /\ IsFiniteSet(1 .. MaxSeq) /\ IsFiniteSet(events)
    BY FS_Interval, ReadsTypes DEF ReadsInv, ReadsRows
  <2>2. \A r \in Reader : shown[r] \subseteq 1 .. MaxSeq /\ page[r] \subseteq events
    BY ReadsTypes DEF ReadsInv, ReadsPages
  <2> QED BY <2>1, <2>2, FS_Subset, FS_CardinalityType
<1>10. Readings!AnswersAreRecorded'
  BY <1>1, <1>2, <1>8, <1>9, SameSizes DEF ReadsInv, Readings!AnswersAreRecorded
<1>11. ReadsCounted'
  <2> SUFFICES ASSUME NEW r \in Reader
               PROVE  /\ IsFiniteSet(Readings!Recorded(r)')
                      /\ sessionAt'[r] # "commit"
                      /\ sessionAt'[r] = "reply" =>
                                  Cardinality(shown[r]) + Cardinality(page[r])
                                    <= Cardinality(Readings!Recorded(r)')
    BY <1>1 DEF ReadsCounted
  <2>1. sessionAt'[r] # "commit"
    BY <1>3, <1>4, ReadsTypes
  <2>2. CASE r = s
    <3>1. row.shown = Cardinality(page[r])
      BY <1>1, <2>2 DEF row, ReadsInv, ReadsCounted
    <3>2. Cardinality(shown[r]) <= Cardinality(Readings!Recorded(r))
      BY SameSizes DEF ReadsInv, Readings!AnswersAreRecorded
    <3> QED BY <1>8, <1>9, <2>1, <2>2, <3>1, <3>2
  <2>3. CASE r # s
    <3>1. sessionAt'[r] = sessionAt[r]
      BY <1>3, <2>3, ReadsTypes
    <3> QED BY <1>8, <2>1, <2>3, <3>1, <1>7 DEF ReadsInv, ReadsCounted
  <2> QED BY <2>2, <2>3
<1>12. ReadsPages'
  <2> SUFFICES ASSUME NEW r \in Reader
               PROVE  /\ page[r] \subseteq events'
                      /\ Reached(pageToken[r])' /\ Reached(through[r])' /\ Reached(ahead[r])'
                      /\ \A q \in events' : Passes(r, q) =>
                           /\ q.seq <= pageToken[r] \/ q.seq <= through[r] => q.seq \in shown[r]
                           /\ q.seq > pageToken[r] =>
                                /\ \A e \in page[r] : q.seq <= e.seq => q \in page[r]
                                /\ ~full[r] /\ q.seq <= ahead[r] => q \in page[r]
    BY <1>1 DEF ReadsPages, Passes
  <2>1. page[r] \subseteq events /\ Reached(pageToken[r]) /\ Reached(through[r])
          /\ Reached(ahead[r])
    BY DEF ReadsInv, ReadsPages
  <2>2. pageToken[r] \in Nat /\ through[r] \in Nat /\ ahead[r] \in Nat
    BY ReadsTypes
  <2>3. /\ pageToken[r] < row.seq /\ through[r] < row.seq /\ ahead[r] < row.seq
        /\ \A e \in page[r] : e.seq < row.seq
    BY <1>2, <2>1, <2>2 DEF Reached
  <2>4. Reached(pageToken[r])' /\ Reached(through[r])' /\ Reached(ahead[r])'
    BY <1>1, <2>1 DEF Reached
  <2>5. ASSUME NEW q \in events', Passes(r, q)
        PROVE  /\ q.seq <= pageToken[r] \/ q.seq <= through[r] => q.seq \in shown[r]
               /\ q.seq > pageToken[r] =>
                    /\ \A e \in page[r] : q.seq <= e.seq => q \in page[r]
                    /\ ~full[r] /\ q.seq <= ahead[r] => q \in page[r]
    <3>1. CASE q \in events
      BY <2>5, <3>1 DEF ReadsInv, ReadsPages
    <3>2. CASE q = row
      <4>1. ~(q.seq <= pageToken[r]) /\ ~(q.seq <= through[r]) /\ ~(q.seq <= ahead[r])
        BY <1>2, <2>2, <2>3, <3>2
      <4>2. \A e \in page[r] : ~(q.seq <= e.seq)
        BY <1>2, <2>1, <2>3, <3>2
      <4> QED BY <4>1, <4>2
    <3> QED BY <1>1, <2>5, <3>1, <3>2
  <2> QED BY <1>1, <2>1, <2>4, <2>5
<1> QED BY <1>5, <1>6, <1>10, <1>11, <1>12 DEF ReadsInv, ReadsPages, Readings!WalksMissNothing,
                                               Passes

\* A transaction that is rolled back, or whose answer is lost, forgets its page.
LEMMA AbortStep ==
  ASSUME Readings!AuditReadsAssumption, ReadsInv, NEW s \in Readings!Session, Readings!Abort(s)
  PROVE  ReadsInv'
<1>1. /\ Readings!Release(s) /\ sessionAt' = [sessionAt EXCEPT ![s] = "idle"]
      /\ page' = [r \in Reader |-> IF r = s THEN {} ELSE page[r]]
      /\ full' = [r \in Reader |-> full[r] /\ r # s]
      /\ ahead' = [r \in Reader |-> IF r = s THEN 0 ELSE ahead[r]]
      /\ UNCHANGED <<events, nextSeq, pageToken, filter, shown, through>>
  BY DEF Readings!Abort, Readings!Fails, Readings!Goes
<1>2. /\ chainLock' \in Readings!Session \cup {None}
      /\ inserted' \in [Readings!Session -> Readings!Row \cup {None}]
      /\ sessionAt' \in [Readings!Session -> {"idle", "lock", "insert", "commit", "reply"}]
      /\ \A t \in Readings!Session : chainLock' = t <=> sessionAt'[t] \in {"insert", "commit"}
      /\ \A t \in Readings!Session : sessionAt'[t] = IF t = s THEN "idle" ELSE sessionAt[t]
      /\ \A t \in Readings!Session : t # s => inserted'[t] = inserted[t]
  BY <1>1, ReleaseStep
<1>3. /\ page' \in [Reader -> SUBSET Readings!Row] /\ full' \in [Reader -> BOOLEAN]
      /\ ahead' \in [Reader -> 0 .. MaxSeq]
      /\ \A r \in Reader : r # s => /\ page'[r] = page[r] /\ full'[r] = full[r]
                                    /\ ahead'[r] = ahead[r]
      /\ \A r \in Reader : r = s => page'[r] = {} /\ ahead'[r] = 0
  <2>1. page' \in [Reader -> SUBSET Readings!Row] /\ ahead' \in [Reader -> 0 .. MaxSeq]
    BY <1>1, ReadsTypes
  <2>2. full' \in [Reader -> BOOLEAN]
    BY <1>1
  <2>3. \A r \in Reader : r # s => full'[r] = full[r]
    <3>1. \A r \in Reader : full[r] \in BOOLEAN
      BY ReadsTypes
    <3>2. \A r \in Reader : full'[r] = (full[r] /\ r # s)
      BY <1>1
    <3> QED BY <3>1, <3>2
  <2> QED BY <1>1, <2>1, <2>2, <2>3
<1>4. Readings!TypeOK'
  BY <1>1, <1>2, <1>3 DEF ReadsInv, Readings!TypeOK
<1>5. ReadsRows'
  BY <1>1, <1>2 DEF ReadsInv, ReadsRows
<1>6. \A r \in Reader : Readings!Recorded(r)' = Readings!Recorded(r)
  BY <1>1 DEF Readings!Recorded
<1>7. Readings!AnswersAreRecorded'
  BY <1>1, <1>6 DEF ReadsInv, Readings!AnswersAreRecorded
<1>8. ReadsCounted'
  BY <1>1, <1>2, <1>3, <1>6, ReadsTypes DEF ReadsInv, ReadsCounted
<1>9. ReadsPages'
  <2> SUFFICES ASSUME NEW r \in Reader
               PROVE  /\ page'[r] \subseteq events
                      /\ Reached(pageToken[r]) /\ Reached(through[r]) /\ Reached(ahead'[r])
                      /\ \A q \in events : Passes(r, q) =>
                           /\ q.seq <= pageToken[r] \/ q.seq <= through[r] => q.seq \in shown[r]
                           /\ q.seq > pageToken[r] =>
                                /\ \A e \in page'[r] : q.seq <= e.seq => q \in page'[r]
                                /\ ~full'[r] /\ q.seq <= ahead'[r] => q \in page'[r]
    BY <1>1 DEF ReadsPages, Passes, Reached
  <2>1. \A q \in events : q.seq \in 1 .. MaxSeq
    BY ReadsTypes
  <2>2. CASE r = s
    <3>1. page'[r] = {} /\ ahead'[r] = 0 /\ \A q \in events : ~(q.seq <= 0)
      BY <1>3, <2>1, <2>2
    <3> QED BY <3>1 DEF ReadsInv, ReadsPages, Reached
  <2>3. CASE r # s
    BY <1>3, <2>3 DEF ReadsInv, ReadsPages
  <2> QED BY <2>2, <2>3
<1> QED BY <1>4, <1>5, <1>7, <1>8, <1>9 DEF ReadsInv, ReadsPages, Readings!WalksMissNothing, Passes

\* A page is shown, after its record was committed; the walk goes on from its last row.
LEMMA ReplyStep ==
  ASSUME Readings!AuditReadsAssumption, ReadsInv, NEW r \in Reader, Readings!Reply(r)
  PROVE  ReadsInv'
<1> DEFINE final == Readings!Last(page[r])
           behind == IF full[r] THEN final ELSE Readings!Max({ahead[r], through[r]})
           granted == {q.seq : q \in page[r]}
           toToken == Readings!Max({pageToken[r], final})
           toThrough == Readings!Max({through[r], behind})
<1>1. /\ sessionAt[r] = "reply" /\ sessionAt' = [sessionAt EXCEPT ![r] = "idle"]
      /\ shown' = [shown EXCEPT ![r] = @ \cup granted]
      /\ pageToken' = [pageToken EXCEPT ![r] = toToken]
      /\ through' = [through EXCEPT ![r] = toThrough]
      /\ page' = [page EXCEPT ![r] = {}] /\ full' = [full EXCEPT ![r] = FALSE]
      /\ ahead' = [ahead EXCEPT ![r] = 0]
      /\ UNCHANGED <<events, nextSeq, chainLock, inserted, filter>>
  BY ReadsTypes DEF Readings!Reply, Readings!Goes
<1>2. /\ final \in 0 .. MaxSeq /\ (final = 0 \/ \E e \in page[r] : final = e.seq)
      /\ \A e \in page[r] : e.seq <= final
  BY LastOfRows, ReadsTypes
<1>3. granted \subseteq 1 .. MaxSeq /\ \A q \in page[r] : q.seq \in granted
  BY ReadsTypes
<1>4. /\ pageToken[r] \in 0 .. MaxSeq /\ through[r] \in 0 .. MaxSeq /\ ahead[r] \in 0 .. MaxSeq
      /\ MaxSeq \in Nat /\ full[r] \in BOOLEAN
  BY ReadsTypes
<1> HIDE DEF final, granted
<1>5. /\ toToken \in {pageToken[r], final} /\ toToken \in 0 .. MaxSeq
      /\ behind \in {final, ahead[r], through[r]} /\ behind \in 0 .. MaxSeq
      /\ full[r] => behind = final
      /\ ~full[r] => behind \in {ahead[r], through[r]}
  <2>1. toToken \in {pageToken[r], final}
    <3>1. final \in Nat /\ pageToken[r] \in Nat
      BY <1>2, <1>4
    <3> QED BY <3>1, MaxOfTwo
  <2>2. Readings!Max({ahead[r], through[r]}) \in {ahead[r], through[r]}
    BY <1>4, MaxOfTwo
  <2> QED BY <1>2, <1>4, <2>1, <2>2
<1> HIDE DEF behind, toToken
<1>6. toThrough \in {through[r], behind}
  BY <1>4, <1>5, MaxOfTwo
<1> HIDE DEF toThrough
<1>7. /\ \A s \in Readings!Session : sessionAt'[s] = IF s = r THEN "idle" ELSE sessionAt[s]
      /\ \A s \in Reader : /\ shown'[s] = IF s = r THEN shown[s] \cup granted ELSE shown[s]
                           /\ pageToken'[s] = IF s = r THEN toToken ELSE pageToken[s]
                           /\ through'[s] = IF s = r THEN toThrough ELSE through[s]
                           /\ page'[s] = IF s = r THEN {} ELSE page[s]
                           /\ full'[s] = IF s = r THEN FALSE ELSE full[s]
                           /\ ahead'[s] = IF s = r THEN 0 ELSE ahead[s]
      /\ r \in Readings!Session
  BY <1>1, ReadsTypes
<1>8. Readings!TypeOK'
  <2>1. sessionAt' \in [Readings!Session -> {"idle", "lock", "insert", "commit", "reply"}]
    BY <1>1, ReadsTypes
  <2>2. page' \in [Reader -> SUBSET Readings!Row] /\ full' \in [Reader -> BOOLEAN]
    BY <1>1, ReadsTypes
  <2>3. /\ pageToken' \in [Reader -> 0 .. MaxSeq] /\ through' \in [Reader -> 0 .. MaxSeq]
        /\ ahead' \in [Reader -> 0 .. MaxSeq]
    BY <1>1, <1>4, <1>5, <1>6, ReadsTypes
  <2>4. shown' \in [Reader -> SUBSET (1 .. MaxSeq)]
    BY <1>1, <1>3, ReadsTypes
  <2> QED BY <1>1, <2>1, <2>2, <2>3, <2>4 DEF ReadsInv, Readings!TypeOK
<1>9. ReadsRows'
  <2>1. \A s \in Readings!Session : chainLock' = s <=> sessionAt'[s] \in {"insert", "commit"}
    BY <1>1, <1>7 DEF ReadsInv, ReadsRows
  <2> QED BY <1>1, <1>7, <2>1 DEF ReadsInv, ReadsRows
<1>10. \A s \in Reader : Readings!Recorded(s)' = Readings!Recorded(s)
  BY <1>1 DEF Readings!Recorded
<1>11. Readings!AnswersAreRecorded'
  <2>1. /\ IsFiniteSet(shown[r]) /\ IsFiniteSet(page[r])
        /\ Cardinality(shown[r]) \in Nat /\ Cardinality(page[r]) \in Nat
        /\ Cardinality(Readings!Recorded(r)) \in Nat
    <3>1. IsFiniteSet(1 .. MaxSeq) /\ IsFiniteSet(events) /\ IsFiniteSet(Readings!Recorded(r))
      BY <1>4, FS_Interval DEF ReadsInv, ReadsRows, ReadsCounted
    <3>2. shown[r] \subseteq 1 .. MaxSeq /\ page[r] \subseteq events
      BY ReadsTypes DEF ReadsInv, ReadsPages
    <3> QED BY <3>1, <3>2, FS_Subset, FS_CardinalityType
  <2>2. IsFiniteSet(granted) /\ Cardinality(granted) <= Cardinality(page[r])
          /\ Cardinality(granted) \in Nat
    <3> DEFINE f == [q \in page[r] |-> q.seq]
    <3>1. f \in Surjection(page[r], granted)
      BY DEF Surjection, granted
    <3> HIDE DEF f
    <3> QED BY <2>1, <3>1, FS_Surjection, FS_CardinalityType
  <2>3. Cardinality(shown[r] \cup granted) <= Cardinality(shown[r]) + Cardinality(page[r])
    <3>1. Cardinality(shown[r] \cup granted) =
            Cardinality(shown[r]) + Cardinality(granted) - Cardinality(shown[r] \cap granted)
      BY <2>1, <2>2, FS_Union
    <3>2. Cardinality(shown[r] \cap granted) \in Nat
      BY <2>1, FS_Intersection, FS_CardinalityType
    <3> QED BY <2>1, <2>2, <3>1, <3>2
  <2>4. Cardinality(shown[r] \cup granted) \in Nat
    BY <2>1, <2>2, FS_Union, FS_CardinalityType
  <2>5. Cardinality(shown[r]) + Cardinality(page[r]) <= Cardinality(Readings!Recorded(r))
    BY <1>1 DEF ReadsInv, ReadsCounted
  <2>6. Cardinality(shown'[r]) <= Cardinality(Readings!Recorded(r))
    <3>1. shown'[r] = shown[r] \cup granted
      BY <1>7
    <3>2. Cardinality(shown[r] \cup granted) <= Cardinality(Readings!Recorded(r))
      BY <2>1, <2>3, <2>4, <2>5
    <3> QED BY <3>1, <3>2
  <2> QED BY <1>7, <1>10, <2>6, SameSizes DEF ReadsInv, Readings!AnswersAreRecorded
<1>12. ReadsCounted'
  BY <1>1, <1>7, <1>10, ReadsTypes DEF ReadsInv, ReadsCounted
<1>13. ReadsPages'
  <2>1. \A s \in Reader : \A q : Passes(s, q)' <=> Passes(s, q)
    BY <1>1 DEF Passes
  <2>2. /\ page[r] \subseteq events /\ Reached(pageToken[r]) /\ Reached(through[r])
        /\ Reached(ahead[r])
        /\ \A q \in events : q.seq \in 1 .. MaxSeq
    BY ReadsTypes DEF ReadsInv, ReadsPages
  <2>3. Reached(final)
    BY <1>2, <2>2 DEF Reached
  <2>4. Reached(toToken) /\ Reached(toThrough) /\ Reached(0)
    <3>1. Reached(toToken) /\ Reached(behind)
      BY <1>5, <2>2, <2>3
    <3> QED BY <1>6, <2>2, <3>1 DEF Reached
  <2>5. ASSUME NEW q \in events, Passes(r, q), q.seq <= toToken \/ q.seq <= toThrough
        PROVE  q.seq \in shown[r] \cup granted
    <3>1. /\ q.seq <= pageToken[r] \/ q.seq <= through[r] => q.seq \in shown[r]
          /\ q.seq > pageToken[r] =>
               /\ \A e \in page[r] : q.seq <= e.seq => q \in page[r]
               /\ ~full[r] /\ q.seq <= ahead[r] => q \in page[r]
      BY <2>5 DEF ReadsInv, ReadsPages
    <3>2. CASE q.seq <= pageToken[r] \/ q.seq <= through[r]
      BY <3>1, <3>2
    <3>3. CASE q.seq > pageToken[r] /\ ~(q.seq <= through[r])
      <4>1. q.seq <= final \/ (~full[r] /\ q.seq <= ahead[r])
        <5>1. q.seq <= final \/ q.seq <= behind
          BY <1>5, <1>6, <2>2, <2>5, <3>3, <1>4
        <5> QED BY <1>4, <1>5, <3>3, <5>1
      <4>2. q.seq <= final => \E e \in page[r] : q.seq <= e.seq
        BY <1>2, <2>2
      <4>3. q \in page[r]
        BY <3>1, <3>3, <4>1, <4>2
      <4> QED BY <1>3, <4>3
    <3> QED BY <1>4, <2>2, <3>2, <3>3
  <2> SUFFICES ASSUME NEW s \in Reader
               PROVE  /\ page'[s] \subseteq events
                      /\ Reached(pageToken'[s]) /\ Reached(through'[s]) /\ Reached(ahead'[s])
                      /\ \A q \in events : Passes(s, q) =>
                           /\ q.seq <= pageToken'[s] \/ q.seq <= through'[s] => q.seq \in shown'[s]
                           /\ q.seq > pageToken'[s] =>
                                /\ \A e \in page'[s] : q.seq <= e.seq => q \in page'[s]
                                /\ ~full'[s] /\ q.seq <= ahead'[s] => q \in page'[s]
    BY <1>1, <2>1 DEF ReadsPages, Reached
  <2>6. CASE s = r
    <3>1. /\ page'[s] = {} /\ pageToken'[s] = toToken /\ through'[s] = toThrough /\ ahead'[s] = 0
          /\ shown'[s] = shown[r] \cup granted
      BY <1>7, <2>6
    <3>2. \A q \in events : ~(q.seq <= 0)
      BY <2>2
    <3> QED BY <2>4, <2>5, <2>6, <3>1, <3>2
  <2>7. CASE s # r
    <3>1. /\ page'[s] = page[s] /\ pageToken'[s] = pageToken[s] /\ through'[s] = through[s]
          /\ ahead'[s] = ahead[s] /\ shown'[s] = shown[s] /\ full'[s] = full[s]
      BY <1>7, <2>7
    <3> QED BY <3>1 DEF ReadsInv, ReadsPages
  <2> QED BY <2>6, <2>7
<1> QED BY <1>8, <1>9, <1>11, <1>12, <1>13 DEF ReadsInv, ReadsPages, Readings!WalksMissNothing,
                                               Passes

\* The invariant is kept by every step.
LEMMA ReadsStep ==
  ASSUME Readings!AuditReadsAssumption, ReadsInv, [Readings!Next]_(Readings!vars)
  PROVE  ReadsInv'
<1>1. CASE Readings!Next
  BY <1>1, QueryStep, WaitStep, ReplyStep, InsertStep, CommitStep, AbortStep DEF Readings!Next
<1>2. CASE UNCHANGED Readings!vars
  <2>1. \A r \in Reader : Readings!Recorded(r)' = Readings!Recorded(r)
    BY <1>2 DEF Readings!vars, Readings!Recorded
  <2>2. UNCHANGED <<events, nextSeq, chainLock, sessionAt, inserted, page, full, pageToken, filter,
        shown, through, ahead>>
    BY <1>2 DEF Readings!vars
  <2>3. Readings!TypeOK' /\ ReadsRows'
    BY <2>2 DEF ReadsInv, Readings!TypeOK, ReadsRows
  <2>4. ReadsCounted' /\ Readings!AnswersAreRecorded'
    BY <2>1, <2>2 DEF ReadsInv, ReadsCounted, Readings!AnswersAreRecorded
  <2>5. ReadsPages' /\ Readings!WalksMissNothing'
    BY <2>2 DEF ReadsInv, ReadsPages, Readings!WalksMissNothing, Passes, Reached
  <2> QED BY <2>3, <2>4, <2>5 DEF ReadsInv
<1> QED BY <1>1, <1>2

-----------------------------------------------------------------------------
(* The erasure of an account *)

\* The rows of the log: what still has a payload and not its subjects is older than the column,
\* and behind the batch that is being filled in.
LogFilled ==
  /\ waiting \cap stock = {} /\ payload \ subjects \subseteq Legacy
  /\ \A e \in payload \ subjects : e > filling.cursor
  /\ filling.at = "done" => payload \subseteq subjects
  /\ filling.at = "update" =>
       /\ filling.batch # {} /\ filling.batch \subseteq stock
       /\ \A e \in (payload \ subjects) \ filling.batch : \A b \in filling.batch : e > b

\* What a request that has had the log erase it leaves, and what the deletion of the account left.
LateCounted ==
  /\ \A a \in Admin : deleteAt[a] = "delete" =>
       payload \cup (Erasing!Event \ stock) \subseteq missed[a]
  /\ account # "there" => payload \cup (Erasing!Event \ stock) \subseteq left
  /\ account = "there" => reported = {} /\ \A a \in Admin : deleteAt[a] # "push"

ErasureInv ==
  /\ Erasing!TypeOK /\ LogFilled /\ LateCounted
  /\ Erasing!OnlyTheLateIsLeft /\ Erasing!ErasedIsCountedOnce /\ Erasing!BackfillReachesAll

\* Nothing is erased yet.
LEMMA ErasureStart ==
  ASSUME Erasing!ErasureAssumption, Erasing!Init
  PROVE  ErasureInv
<1>1. Erasing!TypeOK
  <2>1. 0 \in 0 .. ErasureFaults /\ 0 \in 0 .. NamedEvents /\ Legacy \subseteq Erasing!Event
    BY DEF Erasing!ErasureAssumption
  <2>2. tool \in [at : {"idle", "listed", "ran"}, listed : SUBSET Erasing!Event,
        hit : SUBSET Erasing!Event]
    BY DEF Erasing!Init, Erasing!NoTool
  <2>3. filling \in [at : {"idle", "read", "update", "done"}, cursor : 0 .. NamedEvents,
                     batch : SUBSET Erasing!Event]
    BY <2>1 DEF Erasing!Init, Erasing!NoFill
  <2>4. {erased, missed} \subseteq [Admin -> SUBSET Erasing!Event]
    BY DEF Erasing!Init
  <2> QED BY <2>1, <2>2, <2>3, <2>4 DEF Erasing!Init, Erasing!TypeOK
<1>2. LogFilled
  BY DEF Erasing!ErasureAssumption, Erasing!Init, Erasing!NoFill, LogFilled, Erasing!Event
<1>3. LateCounted /\ Erasing!OnlyTheLateIsLeft /\ Erasing!ErasedIsCountedOnce
        /\ Erasing!BackfillReachesAll
  BY DEF Erasing!Init, Erasing!NoFill, LateCounted, Erasing!OnlyTheLateIsLeft,
         Erasing!ErasedIsCountedOnce, Erasing!BackfillReachesAll
<1> QED BY <1>1, <1>2, <1>3 DEF ErasureInv

\* Events come to the log with their subjects.
LEMMA EventStep ==
  ASSUME Erasing!ErasureAssumption, ErasureInv, NEW e \in Erasing!Event,
         Erasing!Happen(e) \/ Erasing!Deliver(e)
  PROVE  ErasureInv'
<1>1. UNCHANGED <<account, deleteAt, erased, missed, left, reported, twice, tool, filling, efaults>>
  BY DEF Erasing!Happen, Erasing!Deliver, Erasing!calls
<1>2. CASE Erasing!Happen(e)
  <2>1. e \notin stock /\ waiting' = waiting \cup {e} /\ UNCHANGED <<stock, payload, subjects>>
    BY <1>2 DEF Erasing!Happen
  <2>2. Erasing!TypeOK'
    BY <1>1, <2>1 DEF ErasureInv, Erasing!TypeOK
  <2>3. LogFilled'
    BY <1>1, <2>1 DEF ErasureInv, LogFilled
  <2>4. LateCounted' /\ Erasing!ErasedIsCountedOnce'
    BY <1>1, <2>1 DEF ErasureInv, LateCounted, Erasing!ErasedIsCountedOnce
  <2> QED BY <2>2, <2>3, <2>4 DEF ErasureInv, LogFilled, LateCounted,
             Erasing!OnlyTheLateIsLeft, Erasing!BackfillReachesAll
<1>3. CASE Erasing!Deliver(e)
  <2>1. /\ e \in waiting /\ waiting' = waiting \ {e} /\ stock' = stock \cup {e}
        /\ payload' = payload \cup {e} /\ subjects' = subjects \cup {e}
    BY <1>3 DEF Erasing!Deliver, Erasing!NamesIt
  <2>2. e \in Erasing!Event \ stock
    BY <2>1 DEF ErasureInv, Erasing!TypeOK, LogFilled
  <2>3. Erasing!TypeOK'
    BY <1>1, <2>1 DEF ErasureInv, Erasing!TypeOK
  <2>4. LogFilled'
    BY <1>1, <2>1 DEF ErasureInv, LogFilled
  <2>5. LateCounted' /\ Erasing!ErasedIsCountedOnce'
    BY <1>1, <2>1, <2>2 DEF ErasureInv, LateCounted, Erasing!ErasedIsCountedOnce
  <2> QED BY <2>3, <2>4, <2>5 DEF ErasureInv, LogFilled, LateCounted, Erasing!OnlyTheLateIsLeft,
             Erasing!BackfillReachesAll
<1> QED BY <1>2, <1>3

\* The requests, which only ever take payloads away.
LEMMA RequestStep ==
  ASSUME Erasing!ErasureAssumption, ErasureInv,
         \/ \E a \in Admin : Erasing!Begin(a) \/ Erasing!EraseSubject(a) \/ Erasing!Abandon(a)
              \/ Erasing!Delete(a) \/ Erasing!Push(a)
         \/ Erasing!TokensExpire
  PROVE  ErasureInv'
<1>1. UNCHANGED <<waiting, stock, subjects, tool, filling>> /\ payload' \subseteq payload
  BY DEF Erasing!Begin, Erasing!EraseSubject, Erasing!Abandon, Erasing!Delete, Erasing!Push,
         Erasing!TokensExpire, Erasing!log
<1>2. LogFilled'
  BY <1>1 DEF ErasureInv, LogFilled
<1>3. /\ deleteAt \in [Admin -> {"idle", "erase", "delete", "push"}]
      /\ erased \in [Admin -> SUBSET Erasing!Event] /\ missed \in [Admin -> SUBSET Erasing!Event]
      /\ payload \subseteq Erasing!Event /\ stock \subseteq Erasing!Event
      /\ efaults \in 0 .. ErasureFaults
      /\ ErasureFaults \in Nat /\ Legacy \subseteq Erasing!Event
  BY DEF ErasureInv, Erasing!TypeOK, Erasing!ErasureAssumption
<1>4. Erasing!TypeOK' /\ LateCounted' /\ Erasing!ErasedIsCountedOnce'
  <2>1. ASSUME NEW a \in Admin, Erasing!Begin(a)
        PROVE  Erasing!TypeOK' /\ LateCounted' /\ Erasing!ErasedIsCountedOnce'
    BY <1>3, <2>1 DEF Erasing!Begin, Erasing!Goes, Erasing!log, ErasureInv, Erasing!TypeOK,
                      LateCounted, Erasing!ErasedIsCountedOnce
  <2>2. ASSUME NEW a \in Admin, Erasing!EraseSubject(a)
        PROVE  Erasing!TypeOK' /\ LateCounted' /\ Erasing!ErasedIsCountedOnce'
    <3>1. payload' = payload \ subjects
          /\ UNCHANGED <<waiting, stock, subjects, account, left, reported, twice, tool, filling>>
      BY <2>2 DEF Erasing!EraseSubject
    <3>2. CASE /\ deleteAt' = [deleteAt EXCEPT ![a] = "delete"]
               /\ erased' = [erased EXCEPT ![a] = payload \cap subjects]
               /\ missed' = [missed EXCEPT ![a] = (Erasing!Event \ stock) \cup (Legacy \ subjects)]
               /\ efaults' = efaults
      <4>1. payload' \subseteq Legacy \ subjects
        BY <3>1 DEF ErasureInv, LogFilled
      <4>2. Erasing!TypeOK'
        BY <1>3, <3>1, <3>2 DEF ErasureInv, Erasing!TypeOK
      <4>3. \A b \in Admin :
              /\ deleteAt'[b] = "delete" =>
                   payload' \cup (Erasing!Event \ stock') \subseteq missed'[b]
              /\ deleteAt'[b] = "push" => deleteAt[b] = "push"
        BY <1>3, <3>1, <3>2, <4>1 DEF ErasureInv, LateCounted
      <4> QED BY <3>1, <4>2, <4>3 DEF ErasureInv, LateCounted, Erasing!ErasedIsCountedOnce
    <3>3. CASE /\ deleteAt' = [deleteAt EXCEPT ![a] = "idle"] /\ Erasing!Fault
               /\ UNCHANGED <<erased, missed>>
      <4>1. Erasing!TypeOK'
        BY <1>3, <3>1, <3>3 DEF Erasing!Fault, ErasureInv, Erasing!TypeOK
      <4>2. \A b \in Admin :
              /\ deleteAt'[b] = "delete" =>
                   payload' \cup (Erasing!Event \ stock') \subseteq missed'[b]
              /\ deleteAt'[b] = "push" => deleteAt[b] = "push"
        BY <1>3, <3>1, <3>3 DEF ErasureInv, LateCounted
      <4> QED BY <3>1, <4>1, <4>2 DEF ErasureInv, LateCounted, Erasing!ErasedIsCountedOnce
    <3> QED BY <2>2, <3>2, <3>3 DEF Erasing!EraseSubject, Erasing!Goes
  <2>3. ASSUME NEW a \in Admin, Erasing!Abandon(a)
        PROVE  Erasing!TypeOK' /\ LateCounted' /\ Erasing!ErasedIsCountedOnce'
    <3>1. /\ deleteAt' = [deleteAt EXCEPT ![a] = "idle"] /\ erased' = [erased EXCEPT ![a] = {}]
          /\ missed' = [missed EXCEPT ![a] = {}] /\ Erasing!Fault
          /\ UNCHANGED <<waiting, stock, payload, subjects, account, left, reported, twice, tool,
                         filling>>
      BY <2>3 DEF Erasing!Abandon, Erasing!Clears, Erasing!Goes, Erasing!log
    <3>2. Erasing!TypeOK'
      BY <1>3, <3>1 DEF Erasing!Fault, ErasureInv, Erasing!TypeOK
    <3> QED BY <1>3, <3>1, <3>2 DEF ErasureInv, LateCounted, Erasing!ErasedIsCountedOnce
  <2>4. ASSUME NEW a \in Admin, Erasing!Delete(a)
        PROVE  Erasing!TypeOK' /\ LateCounted' /\ Erasing!ErasedIsCountedOnce'
    <3>1. /\ deleteAt[a] = "delete" /\ erased' = [erased EXCEPT ![a] = {}]
          /\ missed' = [missed EXCEPT ![a] = {}]
          /\ UNCHANGED <<waiting, stock, payload, subjects, tool, filling, efaults>>
      BY <2>4 DEF Erasing!Delete, Erasing!Clears, Erasing!log
    <3>2. CASE account = "there"
      <4>1. /\ account' = "gone" /\ left' = missed[a] /\ reported' = reported \cup erased[a]
            /\ deleteAt' = [deleteAt EXCEPT ![a] = "push"]
            /\ twice' = (twice \/ account # "there" \/ reported \cap erased[a] # {})
        BY <2>4, <3>2 DEF Erasing!Delete, Erasing!StillThere, Erasing!Goes
      <4>2. twice' = FALSE
        BY <3>2, <4>1 DEF ErasureInv, LateCounted, Erasing!ErasedIsCountedOnce
      <4>3. payload \cup (Erasing!Event \ stock) \subseteq missed[a]
        BY <3>1 DEF ErasureInv, LateCounted
      <4>4. Erasing!TypeOK'
        BY <1>3, <3>1, <4>1, <4>2 DEF ErasureInv, Erasing!TypeOK
      <4>5. LateCounted'
        BY <1>3, <3>1, <4>1, <4>3 DEF ErasureInv, LateCounted
      <4> QED BY <4>2, <4>4, <4>5 DEF Erasing!ErasedIsCountedOnce
    <3>3. CASE account # "there"
      <4>1. deleteAt' = [deleteAt EXCEPT ![a] = "idle"]
              /\ UNCHANGED <<account, left, reported, twice>>
        BY <2>4, <3>3 DEF Erasing!Delete, Erasing!StillThere, Erasing!Goes
      <4>2. Erasing!TypeOK'
        BY <1>3, <3>1, <4>1 DEF ErasureInv, Erasing!TypeOK
      <4>3. LateCounted'
        BY <1>3, <3>1, <4>1 DEF ErasureInv, LateCounted
      <4> QED BY <4>1, <4>2, <4>3 DEF ErasureInv, Erasing!ErasedIsCountedOnce
    <3> QED BY <3>2, <3>3
  <2>5. ASSUME NEW a \in Admin, Erasing!Push(a)
        PROVE  Erasing!TypeOK' /\ LateCounted' /\ Erasing!ErasedIsCountedOnce'
    <3>1. /\ deleteAt[a] = "push" /\ account' = "cut" /\ deleteAt' = [deleteAt EXCEPT ![a] = "idle"]
          /\ UNCHANGED <<waiting, stock, payload, subjects, erased, missed, left, reported, twice,
                         tool, filling, efaults>>
      BY <2>5 DEF Erasing!Push, Erasing!Goes, Erasing!log
    <3>2. account # "there"
      BY <2>5 DEF Erasing!Push, ErasureInv, LateCounted
    <3>3. Erasing!TypeOK'
      BY <1>3, <3>1 DEF ErasureInv, Erasing!TypeOK
    <3>4. LateCounted'
      BY <1>3, <3>1, <3>2 DEF ErasureInv, LateCounted
    <3> QED BY <3>1, <3>3, <3>4 DEF ErasureInv, Erasing!ErasedIsCountedOnce
  <2>6. ASSUME Erasing!TokensExpire
        PROVE  Erasing!TypeOK' /\ LateCounted' /\ Erasing!ErasedIsCountedOnce'
    BY <2>6 DEF Erasing!TokensExpire, Erasing!log, ErasureInv, Erasing!TypeOK, LateCounted,
                Erasing!ErasedIsCountedOnce
  <2> QED BY <2>1, <2>2, <2>3, <2>4, <2>5, <2>6
<1> QED BY <1>2, <1>4 DEF ErasureInv, LogFilled, LateCounted, Erasing!OnlyTheLateIsLeft,
                          Erasing!BackfillReachesAll

\* The operator's tool takes payloads away, and nothing else.
LEMMA ToolStep ==
  ASSUME Erasing!ErasureAssumption, ErasureInv,
         Erasing!ListLive \/ Erasing!EraseActor \/ Erasing!ToolDies
  PROVE  ErasureInv'
<1>1. /\ UNCHANGED <<waiting, stock, subjects, account, deleteAt, erased, missed, left, reported,
         twice,
                     filling>>
      /\ payload' \subseteq payload
  BY DEF Erasing!ListLive, Erasing!EraseActor, Erasing!ToolDies, Erasing!log, Erasing!calls
<1>2. efaults' \in 0 .. ErasureFaults
  BY DEF Erasing!ListLive, Erasing!EraseActor, Erasing!ToolDies, Erasing!Fault, ErasureInv,
         Erasing!TypeOK, Erasing!ErasureAssumption
<1>3. tool' \in [at : {"idle", "listed", "ran"}, listed : SUBSET Erasing!Event,
      hit : SUBSET Erasing!Event]
  <2>1. Erasing!Live \subseteq Erasing!Event
    BY DEF Erasing!Live, ErasureInv, Erasing!TypeOK
  <2>2. tool \in [at : {"idle", "listed", "ran"}, listed : SUBSET Erasing!Event,
        hit : SUBSET Erasing!Event]
    BY DEF ErasureInv, Erasing!TypeOK
  <2>3. CASE tool' = [tool EXCEPT !.at = "listed", !.listed = Erasing!Live]
    BY <2>1, <2>2, <2>3
  <2>4. CASE tool' = [tool EXCEPT !.at = "ran", !.hit = Erasing!Live]
    BY <2>1, <2>2, <2>4
  <2>5. CASE tool' = Erasing!NoTool
    BY <2>5 DEF Erasing!NoTool
  <2> QED BY <2>3, <2>4, <2>5 DEF Erasing!ListLive, Erasing!EraseActor, Erasing!ToolDies
<1>4. Erasing!TypeOK'
  BY <1>1, <1>2, <1>3 DEF ErasureInv, Erasing!TypeOK
<1>5. LogFilled'
  BY <1>1 DEF ErasureInv, LogFilled
<1>6. LateCounted' /\ Erasing!ErasedIsCountedOnce'
  BY <1>1 DEF ErasureInv, LateCounted, Erasing!ErasedIsCountedOnce
<1> QED BY <1>4, <1>5, <1>6 DEF ErasureInv, LogFilled, LateCounted, Erasing!OnlyTheLateIsLeft,
           Erasing!BackfillReachesAll

\* A batch is the first of the rows that are not filled in: there is one if there are any,
\* and the others come after it.
LEMMA BatchIsFirst ==
  ASSUME Erasing!ErasureAssumption, ErasureInv, Erasing!Unfilled # {}
  PROVE  /\ Erasing!NextBatch # {} /\ Erasing!NextBatch \subseteq Erasing!Unfilled
         /\ \A e \in Erasing!Unfilled \ Erasing!NextBatch : \A b \in Erasing!NextBatch : e > b
<1> DEFINE Upto(e) == {d \in Erasing!Unfilled : d <= e}
<1>1. NamedEvents \in Nat /\ Erasing!Unfilled \subseteq 1 .. NamedEvents /\ Batch \in Nat \ {0}
  BY DEF Erasing!ErasureAssumption, ErasureInv, Erasing!TypeOK, Erasing!Unfilled, Erasing!Event
<1>2. \A e \in Erasing!Unfilled : IsFiniteSet(Upto(e)) /\ Upto(e) \subseteq Erasing!Unfilled
  <2>1. IsFiniteSet(1 .. NamedEvents)
    BY <1>1, FS_Interval
  <2>2. \A e \in Erasing!Unfilled : Upto(e) \subseteq 1 .. NamedEvents
    BY <1>1
  <2> HIDE DEF Upto
  <2>3. \A e \in Erasing!Unfilled : IsFiniteSet(Upto(e))
    BY <2>1, <2>2, FS_Subset
  <2> QED BY <2>3 DEF Upto
<1>3. Erasing!NextBatch # {}
  <2> DEFINE T == {NamedEvents - e : e \in Erasing!Unfilled}
  <2>1. T \in SUBSET (0 .. NamedEvents) /\ T # {}
    <3>1. \A e \in Erasing!Unfilled : NamedEvents - e \in 0 .. NamedEvents
      BY <1>1
    <3> QED BY <3>1
  <2>2. PICK m \in T : \A x \in T : x <= m
    BY <1>1, <2>1, Greatest
  <2>3. PICK e \in Erasing!Unfilled : m = NamedEvents - e
    BY <2>2
  <2>4. \A d \in Erasing!Unfilled : e <= d
    BY <1>1, <2>2, <2>3
  <2>5. Upto(e) = {e}
    <3>1. \A d \in Erasing!Unfilled : d <= e => d = e
      BY <1>1, <2>3, <2>4
    <3>2. e <= e
      BY <1>1, <2>3
    <3> QED BY <2>3, <3>1, <3>2
  <2>6. Cardinality({e}) = 1
    BY FS_Singleton
  <2> QED BY <1>1, <2>3, <2>5, <2>6, SameSizes DEF Erasing!NextBatch
<1>4. ASSUME NEW e \in Erasing!Unfilled \ Erasing!NextBatch, NEW b \in Erasing!NextBatch
      PROVE  e > b
  <2>1. e \in 1 .. NamedEvents /\ b \in Erasing!Unfilled /\ b \in 1 .. NamedEvents
    BY <1>1, <1>4 DEF Erasing!NextBatch
  <2>2. ASSUME e <= b PROVE FALSE
    <3>1. Upto(e) \subseteq Upto(b)
      <4>1. \A d \in Erasing!Unfilled : d <= e => d <= b
        BY <1>1, <2>1, <2>2
      <4> QED BY <4>1
    <3>2. /\ Cardinality(Upto(e)) \in Nat /\ Cardinality(Upto(b)) \in Nat
          /\ Cardinality(Upto(e)) <= Cardinality(Upto(b))
      <4>1. IsFiniteSet(Upto(e)) /\ IsFiniteSet(Upto(b))
        BY <1>2, <2>1
      <4> HIDE DEF Upto
      <4> QED BY <3>1, <4>1, FS_Subset, FS_CardinalityType
    <3>3. Cardinality(Upto(b)) <= Batch /\ ~(Cardinality(Upto(e)) <= Batch)
      BY <1>4, <2>1, SameSizes DEF Erasing!NextBatch
    <3> HIDE DEF Upto
    <3> QED BY <1>1, <3>2, <3>3
  <2> QED BY <2>1, <2>2
<1> QED BY <1>3, <1>4 DEF Erasing!NextBatch

\* The last row of a batch.
LEMMA BatchHasLast ==
  ASSUME Erasing!ErasureAssumption, NEW S \in SUBSET Erasing!Event, S # {}
  PROVE  Erasing!Max(S) \in S /\ \A x \in S : x <= Erasing!Max(S)
<1>1. NamedEvents \in Nat /\ S \in SUBSET (0 .. NamedEvents)
  BY DEF Erasing!ErasureAssumption, Erasing!Event
<1>2. PICK m \in S : \A x \in S : x <= m
  BY <1>1, Greatest
<1>3. \A x \in S : m >= x
  BY <1>1, <1>2
<1>4. Erasing!Max(S) \in S /\ \A x \in S : Erasing!Max(S) >= x
  BY <1>3 DEF Erasing!Max
<1> QED BY <1>1, <1>4

\* The backfill leaves behind its cursor nothing that has a payload and no subjects.
LEMMA FillStep ==
  ASSUME Erasing!ErasureAssumption, ErasureInv,
         Erasing!ReadBatch \/ Erasing!UpdateBatch \/ Erasing!FillDies
  PROVE  ErasureInv'
<1>1. UNCHANGED <<waiting, stock, payload, account, deleteAt, erased, missed, left, reported,
      twice, tool>>
  BY DEF Erasing!ReadBatch, Erasing!UpdateBatch, Erasing!FillDies, Erasing!log, Erasing!calls
<1>2. LateCounted' /\ Erasing!ErasedIsCountedOnce'
  BY <1>1 DEF ErasureInv, LateCounted, Erasing!ErasedIsCountedOnce
<1>3. /\ filling \in [at : {"idle", "read", "update", "done"}, cursor : 0 .. NamedEvents,
                       batch : SUBSET Erasing!Event]
      /\ payload \subseteq stock /\ stock \subseteq Erasing!Event /\ subjects \subseteq stock
      /\ efaults \in 0 .. ErasureFaults /\ NamedEvents \in Nat /\ ErasureFaults \in Nat
      /\ Erasing!Event = 1 .. NamedEvents
  BY DEF ErasureInv, Erasing!TypeOK, Erasing!ErasureAssumption, Erasing!Event
<1>4. CASE Erasing!ReadBatch
  <2>1. UNCHANGED <<subjects, efaults>>
    BY <1>4 DEF Erasing!ReadBatch, Erasing!log
  <2>2. CASE Erasing!Unfilled = {}
    <3>1. filling' = [filling EXCEPT !.at = "done"]
      BY <1>4, <2>2 DEF Erasing!ReadBatch
    <3>2. payload \subseteq subjects
      BY <1>3, <2>2 DEF Erasing!Unfilled, ErasureInv, LogFilled
    <3>3. Erasing!TypeOK'
      BY <1>1, <1>3, <2>1, <3>1 DEF ErasureInv, Erasing!TypeOK
    <3>4. LogFilled'
      BY <1>1, <1>3, <2>1, <3>1, <3>2 DEF ErasureInv, LogFilled
    <3> QED BY <1>2, <3>3, <3>4 DEF ErasureInv, LogFilled, LateCounted, Erasing!OnlyTheLateIsLeft,
               Erasing!BackfillReachesAll
  <2>3. CASE Erasing!Unfilled # {}
    <3>1. filling' = [filling EXCEPT !.at = "update", !.batch = Erasing!NextBatch]
      BY <1>4, <2>3 DEF Erasing!ReadBatch
    <3>2. /\ Erasing!NextBatch # {} /\ Erasing!NextBatch \subseteq Erasing!Unfilled
          /\ \A e \in Erasing!Unfilled \ Erasing!NextBatch : \A b \in Erasing!NextBatch : e > b
      BY <2>3, BatchIsFirst
    <3>3. Erasing!Unfilled = payload \ subjects
      BY DEF Erasing!Unfilled, ErasureInv, LogFilled
    <3>4. Erasing!TypeOK'
      BY <1>1, <1>3, <2>1, <3>1, <3>2, <3>3 DEF ErasureInv, Erasing!TypeOK
    <3>5. LogFilled'
      BY <1>1, <1>3, <2>1, <3>1, <3>2, <3>3 DEF ErasureInv, LogFilled
    <3> QED BY <1>2, <3>4, <3>5 DEF ErasureInv, LogFilled, LateCounted, Erasing!OnlyTheLateIsLeft,
               Erasing!BackfillReachesAll
  <2> QED BY <2>2, <2>3
<1>5. CASE Erasing!UpdateBatch
  <2>1. /\ filling.batch # {} /\ filling.batch \subseteq stock
        /\ \A e \in (payload \ subjects) \ filling.batch : \A b \in filling.batch : e > b
    BY <1>5 DEF Erasing!UpdateBatch, ErasureInv, LogFilled
  <2>2. Erasing!Max(filling.batch) \in filling.batch
          /\ Erasing!Max(filling.batch) \in 0 .. NamedEvents
    BY <1>3, <2>1, BatchHasLast
  <2>3. /\ subjects' = subjects \cup filling.batch /\ efaults' = efaults
        /\ filling' = [at |-> "read", cursor |-> Erasing!Max(filling.batch), batch |-> {}]
    BY <1>3, <1>5 DEF Erasing!UpdateBatch, Erasing!NamesIt
  <2>4. Erasing!TypeOK'
    BY <1>1, <1>3, <2>1, <2>2, <2>3 DEF ErasureInv, Erasing!TypeOK
  <2>5. LogFilled'
    BY <1>1, <1>3, <2>1, <2>2, <2>3 DEF ErasureInv, LogFilled
  <2> QED BY <1>2, <2>4, <2>5 DEF ErasureInv, LogFilled, LateCounted, Erasing!OnlyTheLateIsLeft,
             Erasing!BackfillReachesAll
<1>6. CASE Erasing!FillDies
  <2>1. filling' = Erasing!NoFill /\ efaults' \in 0 .. ErasureFaults /\ subjects' = subjects
    BY <1>3, <1>6 DEF Erasing!FillDies, Erasing!Fault, Erasing!log
  <2>2. Erasing!TypeOK'
    BY <1>1, <1>3, <2>1 DEF ErasureInv, Erasing!TypeOK, Erasing!NoFill
  <2>3. LogFilled'
    BY <1>1, <1>3, <2>1 DEF ErasureInv, LogFilled, Erasing!NoFill
  <2> QED BY <1>2, <2>2, <2>3 DEF ErasureInv, LogFilled, LateCounted, Erasing!OnlyTheLateIsLeft,
             Erasing!BackfillReachesAll
<1> QED BY <1>4, <1>5, <1>6

\* The invariant is kept by every step.
LEMMA ErasureStep ==
  ASSUME Erasing!ErasureAssumption, ErasureInv, [Erasing!Next]_(Erasing!vars)
  PROVE  ErasureInv'
<1>1. CASE Erasing!Next
  BY <1>1, EventStep, RequestStep, ToolStep, FillStep DEF Erasing!Next
<1>2. CASE UNCHANGED Erasing!vars
  BY <1>2 DEF ErasureInv, Erasing!TypeOK, LogFilled, LateCounted, Erasing!OnlyTheLateIsLeft,
              Erasing!ErasedIsCountedOnce,
              Erasing!BackfillReachesAll, Erasing!vars
<1> QED BY <1>1, <1>2

-----------------------------------------------------------------------------
(* The migrations *)

\* A runner at work holds the lease, and so works alone.
LeaseHolds == \A r \in Runner : mpc[r] \in Runs!Working => mlock = r /\ ~mexpired

\* The versions recorded are the first ones, and what a run has left are those that follow
\* them, or the last of them.
VersionsOrdered ==
  /\ \A v \in applied : 1..v \subseteq applied
  /\ \A r \in Runner : mpc[r] \in {"next", "made"} =>
       \E target \in Runs!Version :
         plan[r] = IF r \in Reverting THEN applied \cap target..Versions
                                      ELSE (1..target) \ applied

\* A change that is made is in the database; one that is not recorded was torn or is at work.
ChangesRecorded ==
  /\ \A r \in Runner : mpc[r] = "made" => (Runs!Current(r) \in schema) = (r \notin Reverting)
  /\ \A v \in Runs!Version : (v \in applied) # (v \in schema)
       => v \in mtorn \/ \E r \in Runner : mpc[r] = "made" /\ Runs!Current(r) = v

MigrationsInv == Runs!TypeOK /\ (usurped \/ (LeaseHolds /\ VersionsOrdered /\ ChangesRecorded))

\* The least number of a set of them.
LEMMA Least ==
  ASSUME NEW S \in SUBSET Nat, S # {}
  PROVE  \E m \in S : \A x \in S : m <= x
<1> DEFINE R == OpToRel(<, Nat)
<1>1. IsWellFoundedOn(R, Nat)
  BY NatLessThanWellFounded
<1>2. PICK m \in S : \A x \in S : ~(<<x, m>> \in R)
  BY <1>1, WFMin
<1>3. \A x \in S : ~(x < m)
  BY <1>2 DEF OpToRel
<1> QED BY <1>3

\* Nothing is migrated yet.
LEMMA MigrationsStart ==
  ASSUME Runs!MigrationsAssumption, Runs!Init
  PROVE  MigrationsInv
<1>1. Runs!TypeOK
  <2>1. 0 \in 0..MigrationFaults
    BY DEF Runs!MigrationsAssumption
  <2>2. /\ mpc \in [Runner -> {"wait", "done", "dead"} \cup Runs!Working]
        /\ plan \in [Runner -> SUBSET Runs!Version]
        /\ \A r \in Runner : mpc[r] = "wait" /\ plan[r] = {}
    BY DEF Runs!Init
  <2>3. mlock = None /\ mexpired = FALSE /\ usurped = FALSE /\ mfaults = 0 /\ schema = {}
          /\ applied = {} /\ mtorn = {}
    BY DEF Runs!Init
  <2>4. \A r \in Runner : mpc[r] \in {"next", "made"} <=> plan[r] # {}
    BY <2>2
  <2> QED BY <2>1, <2>2, <2>3, <2>4 DEF Runs!TypeOK
<1>2. LeaseHolds /\ VersionsOrdered /\ ChangesRecorded
  BY DEF Runs!Init, LeaseHolds, VersionsOrdered, ChangesRecorded, Runs!Working
<1> QED BY <1>1, <1>2 DEF MigrationsInv

\* The version a runner is at, is the first or the last of those it has left.
LEMMA CurrentVersion ==
  ASSUME Runs!MigrationsAssumption, Runs!TypeOK, NEW r \in Runner, mpc[r] \in {"next", "made"}
  PROVE  /\ Runs!Current(r) \in plan[r] /\ plan[r] \subseteq Runs!Version
         /\ r \in Reverting => \A v \in plan[r] : v <= Runs!Current(r)
         /\ r \notin Reverting => \A v \in plan[r] : Runs!Current(r) <= v
<1>1. plan[r] \subseteq Runs!Version /\ plan[r] # {} /\ Versions \in Nat
  BY DEF Runs!TypeOK, Runs!MigrationsAssumption
<1>2. CASE r \in Reverting
  <2>1. PICK m \in plan[r] : \A x \in plan[r] : x <= m
    <3>1. plan[r] \in SUBSET (0..Versions)
      BY <1>1 DEF Runs!Version
    <3> QED BY <1>1, <3>1, Greatest
  <2>2. \A x, y \in plan[r] : x <= y <=> y >= x
    BY <1>1 DEF Runs!Version
  <2>3. Runs!Max(plan[r]) \in plan[r] /\ \A x \in plan[r] : Runs!Max(plan[r]) >= x
    BY <2>1, <2>2 DEF Runs!Max
  <2> QED BY <1>1, <1>2, <2>2, <2>3 DEF Runs!Current
<1>3. CASE r \notin Reverting
  <2>1. PICK m \in plan[r] : \A x \in plan[r] : m <= x
    BY <1>1, Least DEF Runs!Version
  <2>2. Runs!Min(plan[r]) \in plan[r] /\ \A x \in plan[r] : Runs!Min(plan[r]) <= x
    BY <2>1 DEF Runs!Min
  <2> QED BY <1>1, <1>3, <2>2 DEF Runs!Current
<1> QED BY <1>2, <1>3

\* A step of the runners keeps the types.
LEMMA MigrationsTypes ==
  ASSUME Runs!MigrationsAssumption, Runs!TypeOK, [Runs!Next]_(Runs!vars)
  PROVE  Runs!TypeOK'
<1> USE DEF Runs!TypeOK, Runs!Working
<1>1. ASSUME NEW r \in Runner, Runs!Acquire(r) \/ Runs!TimesOut(r) \/ Runs!Release(r)
      PROVE  Runs!TypeOK'
  BY <1>1 DEF Runs!Acquire, Runs!TimesOut, Runs!Release, Runs!data
<1>2. ASSUME NEW r \in Runner, NEW step \in {"release", "dead"}, Runs!Ends(r, step),
             mpc[r] \in Runs!Working
      PROVE  /\ mpc' \in [Runner -> {"wait", "done", "dead"} \cup Runs!Working]
             /\ plan' \in [Runner -> SUBSET Runs!Version] /\ mtorn' \subseteq Runs!Version
             /\ \A q \in Runner : mpc'[q] \in {"next", "made"} <=> plan'[q] # {}
  <2>1. mpc[r] = "made" => Runs!Current(r) \in Runs!Version
    BY CurrentVersion
  <2> QED BY <1>2, <2>1 DEF Runs!Ends
<1>3. ASSUME NEW r \in Runner, Runs!Renew(r) \/ Runs!Fail(r) \/ Runs!Die(r) \/ Runs!RecordIsThere(r)
      PROVE  Runs!TypeOK'
  <2>1. CASE Runs!Free(r) /\ Runs!Renew(r)
    BY <2>1 DEF Runs!Renew
  <2>2. CASE ~(Runs!Free(r) /\ Runs!Renew(r))
    <3>1. \E step \in {"release", "dead"} : Runs!Ends(r, step)
      BY <1>3, <2>2 DEF Runs!Renew, Runs!Fail, Runs!Die, Runs!RecordIsThere
    <3>2. mpc[r] \in Runs!Working
      BY <1>3 DEF Runs!Renew, Runs!Fail, Runs!Die, Runs!RecordIsThere
    <3>3. /\ UNCHANGED <<mlock, mexpired, schema, applied, usurped>>
          /\ mfaults' \in 0..MigrationFaults
      <4>1. CASE Runs!Renew(r) \/ Runs!RecordIsThere(r)
        BY <2>2, <4>1 DEF Runs!Renew, Runs!RecordIsThere
      <4>2. CASE Runs!Fail(r) \/ Runs!Die(r)
        <5>1. Runs!Fault
          BY <4>2 DEF Runs!Fail, Runs!Die
        <5>2. mfaults' \in 0..MigrationFaults
          BY <5>1 DEF Runs!Fault, Runs!MigrationsAssumption
        <5> QED BY <4>2, <5>2 DEF Runs!Fail, Runs!Die
      <4> QED BY <1>3, <4>1, <4>2
    <3> QED BY <1>2, <3>1, <3>2, <3>3
  <2> QED BY <2>1, <2>2
<1>4. ASSUME NEW r \in Runner, NEW rest \in SUBSET Runs!Version, Runs!GoesOn(r, rest)
      PROVE  /\ mpc' \in [Runner -> {"wait", "done", "dead"} \cup Runs!Working]
             /\ plan' \in [Runner -> SUBSET Runs!Version]
             /\ \A q \in Runner : mpc'[q] \in {"next", "made"} <=> plan'[q] # {}
  BY <1>4 DEF Runs!GoesOn
<1>5. ASSUME NEW r \in Runner, Runs!Read(r) PROVE Runs!TypeOK'
  <2>1. PICK target \in Runs!Version :
          Runs!GoesOn(r, IF r \in Reverting THEN applied \cap target..Versions
            ELSE (1..target) \ applied)
    BY <1>5 DEF Runs!Read
  <2>2. (1..target) \ applied \in SUBSET Runs!Version
          /\ applied \cap target..Versions \in SUBSET Runs!Version
    BY DEF Runs!Version, Runs!MigrationsAssumption
  <2> QED BY <1>4, <1>5, <2>1, <2>2 DEF Runs!Read, Runs!data
<1>6. ASSUME NEW r \in Runner, Runs!Change(r) PROVE Runs!TypeOK'
  <2>1. Runs!Current(r) \in Runs!Version
    BY <1>6, CurrentVersion DEF Runs!Change
  <2> QED BY <1>6, <2>1 DEF Runs!Change
<1>7. ASSUME NEW r \in Runner, Runs!Record(r) PROVE Runs!TypeOK'
  <2>1. Runs!Current(r) \in Runs!Version
    BY <1>7, CurrentVersion DEF Runs!Record
  <2>2. plan[r] \ {Runs!Current(r)} \in SUBSET Runs!Version
    OBVIOUS
  <2>3. Runs!GoesOn(r, plan[r] \ {Runs!Current(r)})
    BY <1>7 DEF Runs!Record
  <2>4. applied' \subseteq Runs!Version /\ mtorn' \subseteq Runs!Version
    BY <1>7, <2>1 DEF Runs!Record
  <2> QED BY <1>4, <1>7, <2>2, <2>3, <2>4 DEF Runs!Record
<1>8. CASE Runs!LeaseLapses \/ Runs!LeaseIsOverrun
  <2>1. /\ UNCHANGED <<mlock, mpc, plan, schema, applied, mtorn>> /\ mlock # None
        /\ mexpired' = TRUE /\ usurped' \in BOOLEAN
    BY <1>8 DEF Runs!LeaseLapses, Runs!LeaseIsOverrun, Runs!data
  <2>2. mfaults' = mfaults \/ Runs!Fault
    BY <1>8 DEF Runs!LeaseLapses, Runs!LeaseIsOverrun
  <2>3. mfaults' \in 0..MigrationFaults
    BY <2>2 DEF Runs!Fault, Runs!MigrationsAssumption
  <2> QED BY <2>1, <2>3
<1>9. CASE UNCHANGED Runs!vars
  BY <1>9 DEF Runs!vars
<1> QED BY <1>1, <1>3, <1>5, <1>6, <1>7, <1>8, <1>9 DEF Runs!Next

\* A runner at work is the only one.
LEMMA RunsAlone ==
  ASSUME LeaseHolds, NEW r \in Runner, mpc[r] \in Runs!Working
  PROVE  mlock = r /\ ~mexpired /\ \A q \in Runner \ {r} : mpc[q] \notin Runs!Working
  BY DEF LeaseHolds

\* A run that ends tears what it has made and not recorded.
LEMMA RunEnds ==
  ASSUME Runs!MigrationsAssumption, Runs!TypeOK, LeaseHolds, VersionsOrdered, ChangesRecorded,
         NEW r \in Runner, NEW step \in {"release", "dead"}, mpc[r] \in Runs!Working,
         Runs!Ends(r, step),
         UNCHANGED <<mlock, mexpired, schema, applied>>
  PROVE  LeaseHolds' /\ VersionsOrdered' /\ ChangesRecorded'
<1>1. mlock = r /\ ~mexpired /\ \A q \in Runner \ {r} : mpc[q] \notin Runs!Working
  BY RunsAlone
<1>2. /\ mpc'[r] = step /\ \A q \in Runner \ {r} : mpc'[q] = mpc[q]
      /\ mtorn' = IF mpc[r] = "made" THEN mtorn \cup {Runs!Current(r)} ELSE mtorn
  BY DEF Runs!Ends, Runs!TypeOK
<1>3. \A q \in Runner : mpc'[q] \notin {"next", "made"}
  BY <1>1, <1>2 DEF Runs!Working
<1>4. LeaseHolds'
  BY <1>1, <1>2 DEF LeaseHolds
<1>5. VersionsOrdered'
  BY <1>3 DEF VersionsOrdered
<1>6. ChangesRecorded'
  BY <1>1, <1>2, <1>3 DEF ChangesRecorded, Runs!Working
<1> QED BY <1>4, <1>5, <1>6

\* A run reads what is applied, and plans what is left.
LEMMA RunReads ==
  ASSUME Runs!MigrationsAssumption, Runs!TypeOK, LeaseHolds, VersionsOrdered, ChangesRecorded,
         NEW r \in Runner, Runs!Read(r)
  PROVE  LeaseHolds' /\ VersionsOrdered' /\ ChangesRecorded'
<1>1. mpc[r] = "read" /\ mlock = r /\ ~mexpired
        /\ \A q \in Runner \ {r} : mpc[q] \notin Runs!Working
  BY RunsAlone DEF Runs!Read, Runs!Working
<1>2. PICK target \in Runs!Version :
        Runs!GoesOn(r, IF r \in Reverting THEN applied \cap target..Versions
          ELSE (1..target) \ applied)
  BY DEF Runs!Read
<1>3. /\ mpc'[r] \in {"release", "next"} /\ \A q \in Runner \ {r} : mpc'[q] = mpc[q]
      /\ plan'[r] = IF r \in Reverting THEN applied \cap target..Versions ELSE (1..target) \ applied
      /\ UNCHANGED <<mlock, mexpired, schema, applied, mtorn>>
  BY <1>2 DEF Runs!GoesOn, Runs!Read, Runs!TypeOK, Runs!data
<1>4. LeaseHolds'
  BY <1>1, <1>3 DEF LeaseHolds
<1>5. VersionsOrdered'
  BY <1>1, <1>3 DEF VersionsOrdered, Runs!Working
<1>6. ChangesRecorded'
  <2>1. \A q \in Runner : mpc[q] # "made" /\ mpc'[q] # "made"
    BY <1>1, <1>3 DEF Runs!Working
  <2> QED BY <1>3, <2>1 DEF ChangesRecorded
<1> QED BY <1>4, <1>5, <1>6

\* A run makes or reverts a change.
LEMMA RunChanges ==
  ASSUME Runs!MigrationsAssumption, Runs!TypeOK, LeaseHolds, VersionsOrdered, ChangesRecorded,
         NEW r \in Runner, Runs!Change(r)
  PROVE  LeaseHolds' /\ VersionsOrdered' /\ ChangesRecorded'
<1>1. mpc[r] = "next" /\ mlock = r /\ ~mexpired
        /\ \A q \in Runner \ {r} : mpc[q] \notin Runs!Working
  BY RunsAlone DEF Runs!Change, Runs!Working
<1>2. /\ mpc'[r] = "made" /\ \A q \in Runner \ {r} : mpc'[q] = mpc[q]
      /\ schema' = IF r \in Reverting THEN schema \ {Runs!Current(r)}
           ELSE schema \cup {Runs!Current(r)}
      /\ UNCHANGED <<mlock, mexpired, plan, applied, mtorn>>
  BY DEF Runs!Change, Runs!TypeOK
<1>3. LeaseHolds'
  BY <1>1, <1>2 DEF LeaseHolds
<1>4. VersionsOrdered'
  BY <1>1, <1>2 DEF VersionsOrdered, Runs!Working
<1>5. ChangesRecorded'
  <2>1. Runs!Current(r)' = Runs!Current(r)
    BY <1>2 DEF Runs!Current
  <2>2. \A q \in Runner : mpc[q] # "made" /\ (mpc'[q] = "made" => q = r)
    BY <1>1, <1>2 DEF Runs!Working
  <2>3. \A v \in Runs!Version : (v \in applied) # (v \in schema) => v \in mtorn
    BY <2>2 DEF ChangesRecorded
  <2>4. ASSUME NEW v \in Runs!Version, (v \in applied') # (v \in schema')
        PROVE  v \in mtorn' \/ \E q \in Runner : mpc'[q] = "made" /\ Runs!Current(q)' = v
    <3>1. CASE v = Runs!Current(r)
      BY <1>2, <2>1, <3>1
    <3>2. CASE v # Runs!Current(r)
      BY <1>2, <2>3, <2>4, <3>2
    <3> QED BY <3>1, <3>2
  <2>5. ASSUME NEW q \in Runner, mpc'[q] = "made"
        PROVE  (Runs!Current(q)' \in schema') = (q \notin Reverting)
    <3>1. q = r
      BY <2>2, <2>5
    <3> QED BY <1>2, <2>1, <3>1
  <2> QED BY <2>4, <2>5 DEF ChangesRecorded
<1> QED BY <1>3, <1>4, <1>5

\* What is recorded next to the first versions, or taken from the last of them, leaves the first.
LEMMA RunRecords ==
  ASSUME Runs!MigrationsAssumption, Runs!TypeOK, LeaseHolds, VersionsOrdered, ChangesRecorded,
         NEW r \in Runner, Runs!Record(r)
  PROVE  LeaseHolds' /\ VersionsOrdered' /\ ChangesRecorded'
<1> DEFINE c == Runs!Current(r)
<1>1. mpc[r] = "made" /\ mlock = r /\ ~mexpired
        /\ \A q \in Runner \ {r} : mpc[q] \notin Runs!Working
  BY RunsAlone DEF Runs!Record, Runs!Working
<1>2. /\ mpc'[r] \in {"release", "next"} /\ \A q \in Runner \ {r} : mpc'[q] = mpc[q]
      /\ plan'[r] = plan[r] \ {c}
      /\ applied' = IF r \in Reverting THEN applied \ {c} ELSE applied \cup {c}
      /\ mtorn' = mtorn \ {c}
      /\ UNCHANGED <<mlock, mexpired, schema>>
  BY DEF Runs!Record, Runs!GoesOn, Runs!TypeOK
<1>3. /\ c \in plan[r] /\ c \in Runs!Version
      /\ r \in Reverting => \A v \in plan[r] : v <= c
      /\ r \notin Reverting => \A v \in plan[r] : c <= v
  BY <1>1, CurrentVersion
<1>4. PICK target \in Runs!Version :
        plan[r] = IF r \in Reverting THEN applied \cap target..Versions ELSE (1..target) \ applied
  BY <1>1 DEF VersionsOrdered
<1>5. (c \in schema) = (r \notin Reverting)
  BY <1>1 DEF ChangesRecorded
<1> HIDE DEF c
<1>6. \A q \in Runner : q # r => mpc'[q] \notin {"next", "made"}
  BY <1>1, <1>2 DEF Runs!Working
<1>7. LeaseHolds'
  BY <1>1, <1>2 DEF LeaseHolds
<1>8. \A v \in applied' : 1..v \subseteq applied'
  <2>1. applied \subseteq Runs!Version /\ Versions \in Nat
    BY DEF Runs!TypeOK, Runs!MigrationsAssumption
  <2>2. CASE r \in Reverting
    <3>1. ASSUME NEW v \in applied', NEW u \in 1..v PROVE u \in applied'
      <4>1. v \in applied /\ v # c /\ u \in applied
        BY <1>2, <2>2, <3>1 DEF VersionsOrdered
      <4>2. u # c
        <5>1. SUFFICES ASSUME u = c PROVE FALSE
          OBVIOUS
        <5>2. v \in target..Versions
          BY <1>3, <1>4, <2>1, <2>2, <3>1, <4>1, <5>1 DEF Runs!Version
        <5>3. v <= c
          BY <1>3, <1>4, <2>2, <4>1, <5>2
        <5> QED BY <2>1, <3>1, <4>1, <5>1, <5>3 DEF Runs!Version
      <4> QED BY <1>2, <2>2, <4>1, <4>2
    <3> QED BY <3>1
  <2>3. CASE r \notin Reverting
    <3>1. ASSUME NEW v \in applied', NEW u \in 1..v PROVE u \in applied'
      <4>1. CASE v \in applied
        BY <1>2, <2>3, <3>1, <4>1 DEF VersionsOrdered
      <4>2. CASE v = c
        <5>1. u \in 1..target /\ (u = c \/ ~(c <= u))
          BY <1>3, <1>4, <2>1, <2>3, <3>1, <4>2 DEF Runs!Version
        <5>2. u = c \/ u \in applied
          BY <1>3, <1>4, <2>3, <5>1
        <5> QED BY <1>2, <2>3, <5>2
      <4> QED BY <1>2, <2>3, <3>1, <4>1, <4>2
    <3> QED BY <3>1
  <2> QED BY <2>2, <2>3
<1>9. VersionsOrdered'
  <2>1. plan'[r] = IF r \in Reverting THEN applied' \cap target..Versions
          ELSE (1..target) \ applied'
    BY <1>2, <1>4
  <2> QED BY <1>6, <1>8, <2>1 DEF VersionsOrdered
<1>10. ChangesRecorded'
  <2>1. \A q \in Runner : mpc'[q] # "made" /\ (mpc[q] = "made" => q = r)
    BY <1>1, <1>2, <1>6 DEF Runs!Working
  <2>2. \A v \in Runs!Version : (v \in applied) # (v \in schema) => v \in mtorn \/ v = c
    BY <2>1 DEF ChangesRecorded, c
  <2>3. ASSUME NEW v \in Runs!Version, (v \in applied') # (v \in schema') PROVE v \in mtorn'
    <3>1. v # c
      BY <1>2, <1>5, <2>3
    <3> QED BY <1>2, <2>2, <2>3, <3>1
  <2> QED BY <2>1, <2>3 DEF ChangesRecorded
<1> QED BY <1>7, <1>9, <1>10

\* The lock changes hands while nobody works.
LEMMA LockMoves ==
  ASSUME Runs!MigrationsAssumption, Runs!TypeOK, LeaseHolds, VersionsOrdered, ChangesRecorded,
         \/ \E r \in Runner : Runs!Acquire(r) \/ Runs!TimesOut(r) \/ Runs!Release(r)
         \/ Runs!LeaseLapses
  PROVE  LeaseHolds' /\ VersionsOrdered' /\ ChangesRecorded'
<1>1. UNCHANGED <<plan, schema, applied, mtorn>>
  BY DEF Runs!Acquire, Runs!TimesOut, Runs!Release, Runs!LeaseLapses, Runs!data
<1>2. \A q \in Runner : /\ mpc'[q] \in {"next", "made"} => mpc'[q] = mpc[q]
                        /\ mpc[q] = "made" => mpc'[q] = "made"
  BY DEF Runs!Acquire, Runs!TimesOut, Runs!Release, Runs!LeaseLapses, Runs!TypeOK
<1>3. \A q \in Runner : Runs!Current(q)' = Runs!Current(q)
  BY <1>1 DEF Runs!Current
<1>4. VersionsOrdered' /\ ChangesRecorded'
  BY <1>1, <1>2, <1>3 DEF VersionsOrdered, ChangesRecorded
<1>5. LeaseHolds'
  <2>1. ASSUME NEW r \in Runner, Runs!Acquire(r) PROVE LeaseHolds'
    <3>1. mlock' = r /\ ~mexpired' /\ (mlock = None \/ mexpired \/ mlock = r) /\ mpc[r] = "wait"
      BY <2>1 DEF Runs!Acquire, Runs!Free
    <3>2. \A q \in Runner \ {r} : mpc'[q] = mpc[q]
      BY <2>1 DEF Runs!Acquire, Runs!TypeOK
    <3>3. \A q \in Runner : mpc[q] \notin Runs!Working
      BY <3>1 DEF LeaseHolds, Runs!Working, Runs!MigrationsAssumption
    <3> QED BY <3>1, <3>2, <3>3 DEF LeaseHolds
  <2>2. ASSUME NEW r \in Runner, Runs!TimesOut(r) PROVE LeaseHolds'
    BY <2>2 DEF Runs!TimesOut, LeaseHolds, Runs!TypeOK, Runs!Working
  <2>3. ASSUME NEW r \in Runner, Runs!Release(r) PROVE LeaseHolds'
    <3>1. \A q \in Runner \ {r} : mpc[q] \notin Runs!Working
      BY <2>3, RunsAlone DEF Runs!Release, Runs!Working
    <3> QED BY <2>3, <3>1 DEF Runs!Release, LeaseHolds, Runs!TypeOK, Runs!Working
  <2>4. CASE Runs!LeaseLapses
    BY <2>4 DEF Runs!LeaseLapses, LeaseHolds
  <2> QED BY <2>1, <2>2, <2>3, <2>4
<1> QED BY <1>4, <1>5

\* The invariant is kept by every step.
LEMMA MigrationsStep ==
  ASSUME Runs!MigrationsAssumption, MigrationsInv, [Runs!Next]_(Runs!vars)
  PROVE  MigrationsInv'
<1>1. Runs!TypeOK /\ Runs!TypeOK'
  BY MigrationsTypes DEF MigrationsInv
<1>2. usurped => usurped'
  BY DEF Runs!Next, Runs!vars, Runs!Acquire, Runs!TimesOut, Runs!Renew, Runs!Fail, Runs!Release,
         Runs!Die, Runs!Read, Runs!Change, Runs!Record, Runs!RecordIsThere,
         Runs!LeaseLapses, Runs!LeaseIsOverrun
<1>3. CASE usurped
  BY <1>1, <1>2, <1>3 DEF MigrationsInv
<1>4. CASE ~usurped
  <2>1. LeaseHolds /\ VersionsOrdered /\ ChangesRecorded
    BY <1>4 DEF MigrationsInv
  <2>2. ASSUME NEW r \in Runner, Runs!Renew(r)
        PROVE  LeaseHolds' /\ VersionsOrdered' /\ ChangesRecorded'
    <3>1. mpc[r] \in Runs!Working
      BY <2>2 DEF Runs!Renew, Runs!Working
    <3>2. mlock = r /\ ~mexpired /\ Runs!Free(r)
      BY <2>1, <3>1, RunsAlone DEF Runs!Free
    <3>3. UNCHANGED <<mlock, mexpired, mpc, plan, mtorn, schema, applied>>
      BY <1>1, <2>2, <3>2 DEF Runs!Renew, Runs!TypeOK
    <3> QED BY <2>1, <3>3 DEF LeaseHolds, VersionsOrdered, ChangesRecorded, Runs!Current
  <2>3. ASSUME NEW r \in Runner, Runs!Fail(r) \/ Runs!Die(r) \/ Runs!RecordIsThere(r)
        PROVE  LeaseHolds' /\ VersionsOrdered' /\ ChangesRecorded'
    <3>1. /\ mpc[r] \in Runs!Working /\ \E step \in {"release", "dead"} : Runs!Ends(r, step)
          /\ UNCHANGED <<mlock, mexpired, schema, applied>>
      BY <2>3 DEF Runs!Fail, Runs!Die, Runs!RecordIsThere, Runs!Working
    <3> QED BY <1>1, <2>1, <3>1, RunEnds
  <2>4. CASE Runs!LeaseIsOverrun
    <3>1. usurped'
      BY <2>4 DEF Runs!LeaseIsOverrun
    <3> QED BY <1>1, <3>1, Zenon DEF MigrationsInv
  <2>5. ASSUME UNCHANGED Runs!vars PROVE LeaseHolds' /\ VersionsOrdered' /\ ChangesRecorded'
    <3>1. UNCHANGED <<mlock, mexpired, mpc, plan, schema, applied, mtorn>>
      BY <2>5 DEF Runs!vars
    <3>2. \A q \in Runner : Runs!Current(q)' = Runs!Current(q)
      BY <3>1 DEF Runs!Current
    <3> QED BY <2>1, <3>1, <3>2 DEF LeaseHolds, VersionsOrdered, ChangesRecorded
  <2>6. (LeaseHolds' /\ VersionsOrdered' /\ ChangesRecorded') \/ Runs!LeaseIsOverrun
    <3>1. ASSUME NEW r \in Runner, Runs!Read(r) \/ Runs!Change(r) \/ Runs!Record(r)
          PROVE  LeaseHolds' /\ VersionsOrdered' /\ ChangesRecorded'
      BY <1>1, <2>1, <3>1, RunReads, RunChanges, RunRecords
    <3>2. ASSUME \/ \E r \in Runner : Runs!Acquire(r) \/ Runs!TimesOut(r) \/ Runs!Release(r)
                 \/ Runs!LeaseLapses
          PROVE  LeaseHolds' /\ VersionsOrdered' /\ ChangesRecorded'
      BY <1>1, <2>1, <3>2, LockMoves, Zenon
    <3> QED BY <2>2, <2>3, <2>5, <3>1, <3>2 DEF Runs!Next
  <2> QED BY <1>1, <2>4, <2>6 DEF MigrationsInv
<1> QED BY <1>3, <1>4

\* What the invariant says of the property.
LEMMA MigrationsRight ==
  ASSUME MigrationsInv PROVE Runs!TypeOK /\ Runs!MigratedInOrder
  BY DEF MigrationsInv, VersionsOrdered, ChangesRecorded, Runs!MigratedInOrder

-----------------------------------------------------------------------------
(* The certificates *)

\* A run at work, the leaf it is at, and those it has left.
CertsRun ==
  /\ run.at = "off" => run = Certified!Idle
  /\ run.at # "off" => run.mode \in Certified!Modes /\ ended = "none"
  /\ run.left \subseteq Certified!Leaves
  /\ run.at \in {"ca", "caKey"} /\ (script # "services" \/ run.mode = "rotate") =>
       run.left = Certified!Leaves
  /\ run.at \in {"leafKey", "owner"} => run.leaf \in run.left /\ leaf[run.leaf].of = ca.cert
  /\ run.at = "owner" => leaf[run.leaf].cert = leaf[run.leaf].key
  /\ \A l \in Leaf : leaf[l].cert = 0 => leaf[l].of = 0

\* What is moved is a pair again before the run goes on.
PairsMoved ==
  /\ ca.cert = ca.key \/ "ca" \in ctorn \/ run.at = "caKey"
  /\ \A l \in Certified!Leaves \ ctorn :
       \/ leaf[l].cert = leaf[l].key /\ (leaf[l].key # 0 => l \in given)
       \/ run.at \in {"leafKey", "owner"} /\ run.leaf = l

AtLeaves == run.at \in {"leaves", "leafKey", "owner"}

\* A thorough run has healed every leaf it does not have left.
LeavesHealed ==
  /\ ended = Certified!Thorough => \A l \in Certified!Leaves : Certified!Good(l)
  /\ AtLeaves /\ run.mode = Certified!Thorough =>
       \A l \in Certified!Leaves \ run.left : Certified!Good(l)

MeshHolds(l) == leaf[l].of = ca.cert /\ rootCopy = ca.cert

\* A leaf that another authority signed is one the run at work will make again.
LeavesChained ==
  /\ script = "mesh" =>
       /\ ended # "none" => \A l \in Certified!Leaves : MeshHolds(l)
       /\ AtLeaves => \A l \in Certified!Leaves \ run.left : MeshHolds(l)
  /\ script # "mesh" =>
       strewn \/ \A l \in Certified!Leaves :
         \/ leaf[l].of \in {0, ca.cert}
         \/ /\ l \in run.left /\ (script = "edge" \/ run.mode = Certified!Thorough)
            /\ run.at = "caKey" \/ (AtLeaves /\ ca.cert = ca.key)

\* The first key that is made is the root's.
RootMade ==
  script = "mesh" =>
    /\ ca.cert \in {0, 1} /\ (ca.cert = 0 => keys = 0)
    /\ AtLeaves \/ run.at = "caKey" => ca.cert # 0

CertsInv == Certified!TypeOK /\ CertsRun /\ PairsMoved /\ LeavesHealed /\ LeavesChained /\ RootMade

\* Before the first run there is no file.
LEMMA CertsStart ==
  ASSUME Certified!CertificatesAssumption, Certified!Init
  PROVE  CertsInv
<1>1. 0 \in 0..0 /\ 0 \in 0..MaxKeys /\ 0 \in 0..CertificateFaults
  BY DEF Certified!CertificatesAssumption
<1>2. /\ run = [mode |-> "none", at |-> "off", left |-> {}, leaf |-> Only]
      /\ ca = [cert |-> 0, key |-> 0] /\ ca.cert = 0 /\ ca.key = 0
      /\ \A l \in Leaf : leaf[l] = [of |-> 0, cert |-> 0, key |-> 0] /\ leaf[l].of = 0
           /\ leaf[l].cert = 0 /\ leaf[l].key = 0
      /\ leaf \in [Leaf -> [of : 0..0, cert : 0..0, key : 0..0]]
      /\ rootCopy = 0 /\ given = {} /\ aged = {} /\ keys = 0
      /\ ended = "none" /\ ctorn = {} /\ strewn = FALSE /\ cfaults = 0 /\ script \in Script
  BY <1>1 DEF Certified!Init, Certified!Idle
<1>3. Certified!Leaves \subseteq Leaf
  BY DEF Certified!Leaves, Certified!CertificatesAssumption
<1>4. Certified!TypeOK
  BY <1>1, <1>2 DEF Certified!TypeOK, Certified!CertificatesAssumption
<1>5. CertsRun
  BY <1>2 DEF CertsRun, Certified!Idle
<1>6. PairsMoved
  BY <1>2, <1>3 DEF PairsMoved
<1>7. LeavesHealed
  BY <1>2 DEF LeavesHealed, AtLeaves, Certified!Thorough
<1>8. LeavesChained
  BY <1>2, <1>3 DEF LeavesChained, AtLeaves
<1>9. RootMade
  BY <1>2 DEF RootMade, AtLeaves
<1> QED BY <1>4, <1>5, <1>6, <1>7, <1>8, <1>9 DEF CertsInv

\* A step of the scripts keeps the types.
LEMMA CertsTypes ==
  ASSUME Certified!CertificatesAssumption, Certified!TypeOK, CertsRun,
         [Certified!Next]_(Certified!vars)
  PROVE  Certified!TypeOK'
<1>1. /\ keys \in Nat /\ keys \in 0..MaxKeys /\ MaxKeys \in Nat /\ CertificateFaults \in Nat
      /\ cfaults \in 0..CertificateFaults
      /\ Certified!Leaves \subseteq Leaf /\ Only \in Leaf /\ "none" \notin Certified!Modes
  BY DEF Certified!TypeOK, Certified!CertificatesAssumption, Certified!Leaves, Certified!Modes
<1>2. Certified!Idle \in [mode : Certified!Modes \cup {"none"}, left : SUBSET Leaf, leaf : Leaf,
                          at : {"off", "ca", "caKey", "leaves", "leafKey", "owner", "copy"}]
  BY <1>1 DEF Certified!Idle
<1>3. Certified!Fault => cfaults' \in 0..CertificateFaults
  BY <1>1 DEF Certified!Fault
<1>4. ASSUME NEW mode \in Certified!Modes, NEW selected \in SUBSET Leaf,
             Certified!Starts(mode, selected)
      PROVE  Certified!TypeOK'
  <2>1. run' \in [mode : Certified!Modes \cup {"none"}, left : SUBSET Leaf, leaf : Leaf,
                at : {"off", "ca", "caKey", "leaves", "leafKey", "owner", "copy"}]
    BY <1>1, <1>4 DEF Certified!Starts
  <2>2. Certified!Modes' = Certified!Modes
    BY <1>4 DEF Certified!Starts, Certified!Modes
  <2> QED BY <1>4, <2>1, <2>2 DEF Certified!Starts, Certified!TypeOK
<1>5. ASSUME NEW l \in Leaf, Certified!KeepsLeaf(l) PROVE Certified!TypeOK'
  <2>1. run' \in [mode : Certified!Modes \cup {"none"}, left : SUBSET Leaf, leaf : Leaf,
                at : {"off", "ca", "caKey", "leaves", "leafKey", "owner", "copy"}]
    BY <1>5 DEF Certified!KeepsLeaf, Certified!TypeOK
  <2>2. Certified!Modes' = Certified!Modes
    BY <1>5 DEF Certified!KeepsLeaf, Certified!Modes
  <2> QED BY <1>5, <2>1, <2>2 DEF Certified!KeepsLeaf, Certified!TypeOK
<1>6. CASE Certified!KeepsCa
  <2>1. run' \in [mode : Certified!Modes \cup {"none"}, left : SUBSET Leaf, leaf : Leaf,
                at : {"off", "ca", "caKey", "leaves", "leafKey", "owner", "copy"}]
    BY <1>6 DEF Certified!KeepsCa, Certified!TypeOK
  <2>2. Certified!Modes' = Certified!Modes
    BY <1>6 DEF Certified!KeepsCa, Certified!Modes
  <2> QED BY <1>6, <2>1, <2>2 DEF Certified!KeepsCa, Certified!TypeOK
<1>7. CASE Certified!NothingDone
  <2>1. ended' \in Certified!Modes \cup {"none"}
    BY <1>7 DEF Certified!NothingDone, Certified!TypeOK
  <2>2. Certified!Modes' = Certified!Modes
    BY <1>7 DEF Certified!NothingDone, Certified!Modes
  <2> QED BY <1>2, <1>7, <2>1, <2>2 DEF Certified!NothingDone, Certified!TypeOK
<1>8. CASE Certified!MovesCaCert
  <2>1. run' \in [mode : Certified!Modes \cup {"none"}, left : SUBSET Leaf, leaf : Leaf,
                at : {"off", "ca", "caKey", "leaves", "leafKey", "owner", "copy"}]
    BY <1>8 DEF Certified!MovesCaCert, Certified!TypeOK
  <2>2. Certified!Modes' = Certified!Modes
    BY <1>8 DEF Certified!MovesCaCert, Certified!Modes
  <2>3. keys' = keys + 1 /\ keys' \in 0..MaxKeys /\ 0..keys \subseteq 0..keys' /\ keys' \in 0..keys'
    BY <1>1, <1>8 DEF Certified!MovesCaCert
  <2>4. ca' \in [cert : 0..keys', key : 0..keys'] /\ rootCopy' \in 0..keys'
    BY <1>8, <2>3 DEF Certified!MovesCaCert, Certified!TypeOK
  <2>5. leaf' \in [Leaf -> [of : 0..keys', cert : 0..keys', key : 0..keys']]
    <3>1. leaf' = leaf /\ leaf \in [Leaf -> [of : 0..keys, cert : 0..keys, key : 0..keys]]
      BY <1>8 DEF Certified!MovesCaCert, Certified!TypeOK
    <3>2. [of : 0..keys, cert : 0..keys, key : 0..keys] \subseteq [of : 0..keys', cert : 0..keys',
          key : 0..keys']
      BY <2>3
    <3> QED BY <3>1, <3>2
  <2>6. strewn' \in BOOLEAN
    BY <1>8 DEF Certified!MovesCaCert, Certified!TypeOK
  <2> QED BY <1>8, <2>1, <2>2, <2>3, <2>4, <2>5, <2>6 DEF Certified!MovesCaCert, Certified!TypeOK
<1>9. CASE Certified!MovesCaKey
  <2>1. run' \in [mode : Certified!Modes \cup {"none"}, left : SUBSET Leaf, leaf : Leaf,
                at : {"off", "ca", "caKey", "leaves", "leafKey", "owner", "copy"}]
    BY <1>9 DEF Certified!MovesCaKey, Certified!TypeOK
  <2>2. Certified!Modes' = Certified!Modes
    BY <1>9 DEF Certified!MovesCaKey, Certified!Modes
  <2>3. ca' \in [cert : 0..keys, key : 0..keys]
    BY <1>9 DEF Certified!MovesCaKey, Certified!TypeOK
  <2> QED BY <1>9, <2>1, <2>2, <2>3 DEF Certified!MovesCaKey, Certified!TypeOK
<1>10. ASSUME NEW l \in Leaf, Certified!MovesLeafCert(l) PROVE Certified!TypeOK'
  <2>1. run' \in [mode : Certified!Modes \cup {"none"}, left : SUBSET Leaf, leaf : Leaf,
                at : {"off", "ca", "caKey", "leaves", "leafKey", "owner", "copy"}]
    BY <1>10 DEF Certified!MovesLeafCert, Certified!TypeOK
  <2>2. Certified!Modes' = Certified!Modes
    BY <1>10 DEF Certified!MovesLeafCert, Certified!Modes
  <2>3. keys' = keys + 1 /\ keys' \in 0..MaxKeys /\ 0..keys \subseteq 0..keys' /\ keys' \in 0..keys'
    BY <1>1, <1>10 DEF Certified!MovesLeafCert
  <2>4. ca' \in [cert : 0..keys', key : 0..keys'] /\ rootCopy' \in 0..keys' /\ ca.cert \in 0..keys'
    BY <1>10, <2>3 DEF Certified!MovesLeafCert, Certified!TypeOK
  <2>5. leaf' \in [Leaf -> [of : 0..keys', cert : 0..keys', key : 0..keys']]
    <3>1. leaf \in [Leaf -> [of : 0..keys, cert : 0..keys, key : 0..keys]]
      BY DEF Certified!TypeOK
    <3>2. [of : 0..keys, cert : 0..keys, key : 0..keys] \subseteq [of : 0..keys', cert : 0..keys',
          key : 0..keys']
      BY <2>3
    <3>3. leaf \in [Leaf -> [of : 0..keys', cert : 0..keys', key : 0..keys']]
      BY <3>1, <3>2
    <3> HIDE <3>1, <3>2
    <3>4. leaf' = [leaf EXCEPT ![l].of = ca.cert, ![l].cert = keys']
      BY <1>10 DEF Certified!MovesLeafCert
    <3> QED BY <2>3, <2>4, <3>3, <3>4
  <2> QED BY <1>10, <2>1, <2>2, <2>3, <2>4, <2>5 DEF Certified!MovesLeafCert, Certified!TypeOK
<1>11. CASE Certified!MovesLeafKey
  <2>1. run' \in [mode : Certified!Modes \cup {"none"}, left : SUBSET Leaf, leaf : Leaf,
                at : {"off", "ca", "caKey", "leaves", "leafKey", "owner", "copy"}]
    BY <1>11 DEF Certified!MovesLeafKey, Certified!TypeOK
  <2>2. Certified!Modes' = Certified!Modes
    BY <1>11 DEF Certified!MovesLeafKey, Certified!Modes
  <2>3. leaf' \in [Leaf -> [of : 0..keys, cert : 0..keys, key : 0..keys]]
    BY <1>11 DEF Certified!MovesLeafKey, Certified!TypeOK
  <2> QED BY <1>11, <2>1, <2>2, <2>3 DEF Certified!MovesLeafKey, Certified!TypeOK
<1>12. CASE Certified!GivesKey
  <2>1. run' \in [mode : Certified!Modes \cup {"none"}, left : SUBSET Leaf, leaf : Leaf,
                at : {"off", "ca", "caKey", "leaves", "leafKey", "owner", "copy"}]
    BY <1>12 DEF Certified!GivesKey, Certified!TypeOK
  <2>2. Certified!Modes' = Certified!Modes
    BY <1>12 DEF Certified!GivesKey, Certified!Modes
  <2>3. rootCopy' \in 0..keys /\ run.leaf \in Leaf
    BY <1>12 DEF Certified!GivesKey, Certified!TypeOK
  <2> QED BY <1>12, <2>1, <2>2, <2>3 DEF Certified!GivesKey, Certified!TypeOK
<1>13. CASE Certified!Ends
  <2>1. ended' \in Certified!Modes \cup {"none"} /\ strewn' \in BOOLEAN
    BY <1>13 DEF Certified!Ends, Certified!TypeOK
  <2>2. Certified!Modes' = Certified!Modes
    BY <1>13 DEF Certified!Ends, Certified!Modes
  <2> QED BY <1>2, <1>13, <2>1, <2>2 DEF Certified!Ends, Certified!TypeOK
<1>14. CASE Certified!Refuses
  <2>1. Certified!Modes' = Certified!Modes
    BY <1>14 DEF Certified!Refuses, Certified!Modes
  <2> QED BY <1>2, <1>14, <2>1 DEF Certified!Refuses, Certified!TypeOK
<1>15. CASE Certified!Dies
  <2>1. Certified!Modes' = Certified!Modes
    BY <1>15 DEF Certified!Dies, Certified!Modes
  <2>2. ctorn' \subseteq Leaf \cup {"ca"}
    BY <1>15 DEF Certified!Dies, Certified!TypeOK
  <2> QED BY <1>2, <1>3, <1>15, <2>1, <2>2 DEF Certified!Dies, Certified!TypeOK
<1>16. ASSUME NEW x \in Leaf \cup {"ca"}, Certified!Ages(x) PROVE Certified!TypeOK'
  <2>1. Certified!Modes' = Certified!Modes
    BY <1>16 DEF Certified!Ages, Certified!Modes
  <2> QED BY <1>3, <1>16, <2>1 DEF Certified!Ages, Certified!TypeOK
<1>17. CASE UNCHANGED Certified!vars
  <2>1. Certified!Modes' = Certified!Modes
    BY <1>17 DEF Certified!vars, Certified!Modes
  <2> QED BY <1>17, <2>1 DEF Certified!vars, Certified!TypeOK
<1> QED
  BY <1>4, <1>5, <1>6, <1>7, <1>8, <1>9, <1>10, <1>11, <1>12, <1>13, <1>14, <1>15, <1>16,
     <1>17 DEF Certified!Next

\* The script that runs does not change, nor what its leaves and modes are.
LEMMA CertsSets ==
  ASSUME Certified!CertificatesAssumption, Certified!TypeOK, UNCHANGED script
  PROVE  /\ Certified!Leaves' = Certified!Leaves /\ Certified!Modes' = Certified!Modes
         /\ Certified!Thorough' = Certified!Thorough
         /\ Certified!Leaves \subseteq Leaf /\ Only \in Leaf /\ "ca" \notin Leaf
         /\ Certified!Modes \subseteq {"plain", "force", "rotate"}
         /\ Certified!Thorough \in {"rotate", "force"}
         /\ (script = "services" => Certified!Thorough = "rotate")
              /\ script \in {"services", "edge", "mesh"}
         /\ (script # "services" => Certified!Leaves = {Only})
  BY DEF Certified!Leaves, Certified!Modes, Certified!Thorough, Certified!CertificatesAssumption,
         Certified!TypeOK

\* A run starts with the leaves that are selected: a thorough one with all of them.
LEMMA CertsStarts ==
  ASSUME Certified!CertificatesAssumption, Certified!TypeOK, Certified!TypeOK', CertsRun,
         PairsMoved, LeavesHealed, LeavesChained, RootMade,
         NEW mode \in Certified!Modes, NEW selected \in SUBSET Leaf,
         Certified!Starts(mode, selected)
  PROVE  CertsRun' /\ PairsMoved' /\ LeavesHealed' /\ LeavesChained' /\ RootMade'
<1>1. /\ run.at = "off" /\ mode \in Certified!Modes /\ selected \subseteq Certified!Leaves
      /\ (script # "services" \/ mode = "rotate" => selected = Certified!Leaves)
      /\ run'.at = "ca" /\ run'.mode = mode /\ run'.left = selected /\ run'.leaf = Only
      /\ ended' = "none" /\ UNCHANGED <<script, ca, leaf, rootCopy, given, keys, ctorn, strewn>>
  BY DEF Certified!Starts
<1>2. /\ Certified!Leaves' = Certified!Leaves /\ Certified!Modes' = Certified!Modes
      /\ Certified!Thorough' = Certified!Thorough
      /\ Certified!Leaves \subseteq Leaf /\ Only \in Leaf /\ "ca" \notin Leaf
      /\ Certified!Modes \subseteq {"plain", "force", "rotate"}
      /\ Certified!Thorough \in {"rotate", "force"}
      /\ (script = "services" => Certified!Thorough = "rotate")
           /\ script \in {"services", "edge", "mesh"}
      /\ (script # "services" => Certified!Leaves = {Only})
  BY <1>1, CertsSets
<1>3. CertsRun'
  BY <1>1, <1>2 DEF CertsRun, Certified!Idle
<1>4. PairsMoved'
  BY <1>1, <1>2 DEF PairsMoved
<1>5. LeavesHealed'
  BY <1>1, <1>2 DEF LeavesHealed, AtLeaves, Certified!Good
<1>6. LeavesChained'
  BY <1>1, <1>2 DEF LeavesChained, AtLeaves, MeshHolds
<1>7. RootMade'
  BY <1>1, <1>2 DEF RootMade, AtLeaves
<1> QED BY <1>3, <1>4, <1>5, <1>6, <1>7

\* The authority is kept.
LEMMA CertsKeepsCa ==
  ASSUME Certified!CertificatesAssumption, Certified!TypeOK, Certified!TypeOK', CertsRun,
         PairsMoved, LeavesHealed, LeavesChained, RootMade,
         Certified!KeepsCa
  PROVE  CertsRun' /\ PairsMoved' /\ LeavesHealed' /\ LeavesChained' /\ RootMade'
<1>1. /\ run.at = "ca" /\ ~Certified!MakesCa /\ ~Certified!HalfRoot
      /\ run'.at = "leaves" /\ run'.mode = run.mode /\ run'.left = run.left /\ run'.leaf = run.leaf
      /\ UNCHANGED <<script, ca, leaf, rootCopy, given, keys, ended, ctorn, strewn>>
  BY DEF Certified!KeepsCa, Certified!TypeOK
<1>2. /\ Certified!Leaves' = Certified!Leaves /\ Certified!Modes' = Certified!Modes
      /\ Certified!Thorough' = Certified!Thorough
      /\ Certified!Leaves \subseteq Leaf /\ Only \in Leaf /\ "ca" \notin Leaf
      /\ Certified!Modes \subseteq {"plain", "force", "rotate"}
      /\ Certified!Thorough \in {"rotate", "force"}
      /\ (script = "services" => Certified!Thorough = "rotate")
           /\ script \in {"services", "edge", "mesh"}
      /\ (script # "services" => Certified!Leaves = {Only})
  BY <1>1, CertsSets
<1>3. CertsRun'
  BY <1>1, <1>2 DEF CertsRun, Certified!Idle
<1>4. PairsMoved'
  BY <1>1, <1>2 DEF PairsMoved
<1>5. LeavesHealed'
  BY <1>1, <1>2 DEF LeavesHealed, AtLeaves, Certified!Good, CertsRun
<1>6. LeavesChained'
  BY <1>1, <1>2 DEF LeavesChained, AtLeaves, MeshHolds, CertsRun
<1>7. RootMade'
  BY <1>1, <1>2 DEF RootMade, AtLeaves, Certified!MakesCa, Certified!HalfRoot
<1> QED BY <1>3, <1>4, <1>5, <1>6, <1>7

\* The edge script finds nothing to do.
LEMMA CertsNothingDone ==
  ASSUME Certified!CertificatesAssumption, Certified!TypeOK, Certified!TypeOK', CertsRun,
         PairsMoved, LeavesHealed, LeavesChained, RootMade,
         Certified!NothingDone
  PROVE  CertsRun' /\ PairsMoved' /\ LeavesHealed' /\ LeavesChained' /\ RootMade'
<1>1. /\ run.at = "ca" /\ run.mode = "plain" /\ script = "edge"
      /\ run' = Certified!Idle /\ run'.at = "off" /\ run'.left = {} /\ ended' = "plain"
      /\ UNCHANGED <<script, ca, leaf, rootCopy, given, keys, ctorn, strewn>>
  BY DEF Certified!NothingDone, Certified!NothingToDo, Certified!Idle
<1>2. /\ Certified!Leaves' = Certified!Leaves /\ Certified!Modes' = Certified!Modes
      /\ Certified!Thorough' = Certified!Thorough
      /\ Certified!Leaves \subseteq Leaf /\ Only \in Leaf /\ "ca" \notin Leaf
      /\ Certified!Modes \subseteq {"plain", "force", "rotate"}
      /\ Certified!Thorough \in {"rotate", "force"}
      /\ (script = "services" => Certified!Thorough = "rotate")
           /\ script \in {"services", "edge", "mesh"}
      /\ (script # "services" => Certified!Leaves = {Only})
  BY <1>1, CertsSets
<1>3. CertsRun'
  BY <1>1, <1>2 DEF CertsRun, Certified!Idle
<1>4. PairsMoved'
  BY <1>1, <1>2 DEF PairsMoved
<1>5. LeavesHealed'
  BY <1>1, <1>2 DEF LeavesHealed, AtLeaves, Certified!Good
<1>6. LeavesChained'
  BY <1>1, <1>2 DEF LeavesChained, AtLeaves, MeshHolds
<1>7. RootMade'
  BY <1>1, <1>2 DEF RootMade, AtLeaves
<1> QED BY <1>3, <1>4, <1>5, <1>6, <1>7

\* The certificate of a new authority is moved into place: what it has not signed is strewn, or
\* left to the run.
LEMMA CertsMovesCaCert ==
  ASSUME Certified!CertificatesAssumption, Certified!TypeOK, Certified!TypeOK', CertsRun,
         PairsMoved, LeavesHealed, LeavesChained, RootMade,
         Certified!MovesCaCert
  PROVE  CertsRun' /\ PairsMoved' /\ LeavesHealed' /\ LeavesChained' /\ RootMade'
<1>1. /\ run.at = "ca" /\ Certified!MakesCa /\ keys' = keys + 1 /\ ca'.cert = keys + 1
      /\ ca'.key = ca.key /\ keys \in Nat
      /\ run'.at = "caKey" /\ run'.mode = run.mode /\ run'.left = run.left /\ run'.leaf = run.leaf
      /\ UNCHANGED <<script, leaf, rootCopy, given, ended, ctorn>>
  BY DEF Certified!MovesCaCert, Certified!TypeOK
<1>2. /\ Certified!Leaves' = Certified!Leaves /\ Certified!Modes' = Certified!Modes
      /\ Certified!Thorough' = Certified!Thorough
      /\ Certified!Leaves \subseteq Leaf /\ Only \in Leaf /\ "ca" \notin Leaf
      /\ Certified!Modes \subseteq {"plain", "force", "rotate"}
      /\ Certified!Thorough \in {"rotate", "force"}
      /\ (script = "services" => Certified!Thorough = "rotate")
           /\ script \in {"services", "edge", "mesh"}
      /\ (script # "services" => Certified!Leaves = {Only})
  BY <1>1, CertsSets
<1>20. strewn' <=> strewn \/ (script = "services" /\ run.mode # Certified!Thorough
                            /\ \E l \in Certified!Leaves : leaf[l].cert # 0)
  BY DEF Certified!MovesCaCert
<1>3. CertsRun'
  BY <1>1, <1>2 DEF CertsRun, Certified!Idle
<1>4. PairsMoved'
  BY <1>1, <1>2 DEF PairsMoved
<1>5. LeavesHealed'
  BY <1>1, <1>2 DEF LeavesHealed, AtLeaves, Certified!Good, CertsRun
<1>6. LeavesChained'
  BY <1>1, <1>2, <1>20 DEF LeavesChained, AtLeaves, MeshHolds, CertsRun
<1>7. RootMade'
  BY <1>1, <1>2 DEF RootMade, AtLeaves, Certified!MakesCa
<1> QED BY <1>3, <1>4, <1>5, <1>6, <1>7

\* Its key is moved into place.
LEMMA CertsMovesCaKey ==
  ASSUME Certified!CertificatesAssumption, Certified!TypeOK, Certified!TypeOK', CertsRun,
         PairsMoved, LeavesHealed, LeavesChained, RootMade,
         Certified!MovesCaKey
  PROVE  CertsRun' /\ PairsMoved' /\ LeavesHealed' /\ LeavesChained' /\ RootMade'
<1>1. /\ run.at = "caKey" /\ ca'.cert = ca.cert /\ ca'.key = ca.cert
      /\ run'.at = "leaves" /\ run'.mode = run.mode /\ run'.left = run.left /\ run'.leaf = run.leaf
      /\ ctorn' = ctorn \ {"ca"}
      /\ UNCHANGED <<script, leaf, rootCopy, given, keys, ended, strewn>>
  BY DEF Certified!MovesCaKey, Certified!TypeOK
<1>2. /\ Certified!Leaves' = Certified!Leaves /\ Certified!Modes' = Certified!Modes
      /\ Certified!Thorough' = Certified!Thorough
      /\ Certified!Leaves \subseteq Leaf /\ Only \in Leaf /\ "ca" \notin Leaf
      /\ Certified!Modes \subseteq {"plain", "force", "rotate"}
      /\ Certified!Thorough \in {"rotate", "force"}
      /\ (script = "services" => Certified!Thorough = "rotate")
           /\ script \in {"services", "edge", "mesh"}
      /\ (script # "services" => Certified!Leaves = {Only})
  BY <1>1, CertsSets
<1>3. CertsRun'
  BY <1>1, <1>2 DEF CertsRun, Certified!Idle
<1>4. PairsMoved'
  BY <1>1, <1>2 DEF PairsMoved
<1>5. LeavesHealed'
  BY <1>1, <1>2 DEF LeavesHealed, AtLeaves, Certified!Good, CertsRun
<1>6. LeavesChained'
  <2>1. CASE script = "mesh"
    BY <1>1, <1>2, <2>1 DEF LeavesChained, AtLeaves, CertsRun
  <2>2. CASE script # "mesh"
    <3>1. strewn \/ \A l \in Certified!Leaves :
            leaf[l].of \in {0, ca.cert}
              \/ (l \in run.left /\ (script = "edge" \/ run.mode = Certified!Thorough))
      BY <2>2 DEF LeavesChained
    <3> QED BY <1>1, <1>2, <2>2, <3>1 DEF LeavesChained, AtLeaves
  <2> QED BY <2>1, <2>2
<1>7. RootMade'
  BY <1>1, <1>2 DEF RootMade, AtLeaves, CertsRun
<1> QED BY <1>3, <1>4, <1>5, <1>6, <1>7

\* A leaf is kept: the mesh script has looked at who signed it.
LEMMA CertsKeepsLeaf ==
  ASSUME Certified!CertificatesAssumption, Certified!TypeOK, Certified!TypeOK', CertsRun,
         PairsMoved, LeavesHealed, LeavesChained, RootMade,
         NEW l \in Leaf, Certified!KeepsLeaf(l)
  PROVE  CertsRun' /\ PairsMoved' /\ LeavesHealed' /\ LeavesChained' /\ RootMade'
<1>1. /\ run.at = "leaves" /\ l \in run.left /\ run.mode = "plain" /\ script # "edge"
      /\ (script = "mesh" => leaf[l].of = ca.cert /\ rootCopy = ca.cert)
      /\ run'.at = "leaves" /\ run'.mode = run.mode /\ run'.left = run.left \ {l}
      /\ run'.leaf = run.leaf
      /\ UNCHANGED <<script, ca, leaf, rootCopy, given, keys, ended, ctorn, strewn>>
  BY DEF Certified!KeepsLeaf, Certified!Keeps, Certified!TypeOK
<1>2. /\ Certified!Leaves' = Certified!Leaves /\ Certified!Modes' = Certified!Modes
      /\ Certified!Thorough' = Certified!Thorough
      /\ Certified!Leaves \subseteq Leaf /\ Only \in Leaf /\ "ca" \notin Leaf
      /\ Certified!Modes \subseteq {"plain", "force", "rotate"}
      /\ Certified!Thorough \in {"rotate", "force"}
      /\ (script = "services" => Certified!Thorough = "rotate")
           /\ script \in {"services", "edge", "mesh"}
      /\ (script # "services" => Certified!Leaves = {Only})
  BY <1>1, CertsSets
<1>3. CertsRun'
  BY <1>1, <1>2 DEF CertsRun, Certified!Idle
<1>4. PairsMoved'
  BY <1>1, <1>2 DEF PairsMoved
<1>5. LeavesHealed'
  BY <1>1, <1>2 DEF LeavesHealed, AtLeaves, Certified!Good
<1>6. LeavesChained'
  BY <1>1, <1>2 DEF LeavesChained, AtLeaves, MeshHolds
<1>7. RootMade'
  BY <1>1, <1>2 DEF RootMade, AtLeaves
<1> QED BY <1>3, <1>4, <1>5, <1>6, <1>7

\* The certificate of a leaf is moved into place.
LEMMA CertsMovesLeafCert ==
  ASSUME Certified!CertificatesAssumption, Certified!TypeOK, Certified!TypeOK', CertsRun,
         PairsMoved, LeavesHealed, LeavesChained, RootMade,
         NEW l \in Leaf, Certified!MovesLeafCert(l)
  PROVE  CertsRun' /\ PairsMoved' /\ LeavesHealed' /\ LeavesChained' /\ RootMade'
<1>1. /\ run.at = "leaves" /\ l \in run.left /\ ca.cert = ca.key /\ keys' = keys + 1 /\ keys \in Nat
      /\ leaf'[l].of = ca.cert /\ leaf'[l].cert # 0 /\ \A k \in Leaf : k # l => leaf'[k] = leaf[k]
      /\ run'.at = "leafKey" /\ run'.mode = run.mode /\ run'.left = run.left /\ run'.leaf = l
      /\ UNCHANGED <<script, ca, rootCopy, given, ended, ctorn, strewn>>
  BY DEF Certified!MovesLeafCert, Certified!Signs, Certified!TypeOK
<1>2. /\ Certified!Leaves' = Certified!Leaves /\ Certified!Modes' = Certified!Modes
      /\ Certified!Thorough' = Certified!Thorough
      /\ Certified!Leaves \subseteq Leaf /\ Only \in Leaf /\ "ca" \notin Leaf
      /\ Certified!Modes \subseteq {"plain", "force", "rotate"}
      /\ Certified!Thorough \in {"rotate", "force"}
      /\ (script = "services" => Certified!Thorough = "rotate")
           /\ script \in {"services", "edge", "mesh"}
      /\ (script # "services" => Certified!Leaves = {Only})
  BY <1>1, CertsSets
<1>3. CertsRun'
  BY <1>1, <1>2 DEF CertsRun, Certified!Idle
<1>4. PairsMoved'
  BY <1>1, <1>2 DEF PairsMoved
<1>5. LeavesHealed'
  BY <1>1, <1>2 DEF LeavesHealed, AtLeaves, Certified!Good, CertsRun
<1>6. LeavesChained'
  BY <1>1, <1>2 DEF LeavesChained, AtLeaves, MeshHolds, CertsRun
<1>7. RootMade'
  BY <1>1, <1>2 DEF RootMade, AtLeaves
<1> QED BY <1>3, <1>4, <1>5, <1>6, <1>7

\* Its key is moved into place.
LEMMA CertsMovesLeafKey ==
  ASSUME Certified!CertificatesAssumption, Certified!TypeOK, Certified!TypeOK', CertsRun,
         PairsMoved, LeavesHealed, LeavesChained, RootMade,
         Certified!MovesLeafKey
  PROVE  CertsRun' /\ PairsMoved' /\ LeavesHealed' /\ LeavesChained' /\ RootMade'
<1>1. /\ run.at = "leafKey" /\ run.leaf \in Leaf
      /\ leaf'[run.leaf].of = leaf[run.leaf].of /\ leaf'[run.leaf].cert = leaf[run.leaf].cert
      /\ leaf'[run.leaf].key = leaf[run.leaf].cert
      /\ \A k \in Leaf : k # run.leaf => leaf'[k] = leaf[k]
      /\ run'.at = "owner" /\ run'.mode = run.mode /\ run'.left = run.left /\ run'.leaf = run.leaf
      /\ ctorn' = ctorn \ {run.leaf} /\ given' = given \ {run.leaf}
      /\ UNCHANGED <<script, ca, rootCopy, keys, ended, strewn>>
  BY DEF Certified!MovesLeafKey, Certified!TypeOK
<1>2. /\ Certified!Leaves' = Certified!Leaves /\ Certified!Modes' = Certified!Modes
      /\ Certified!Thorough' = Certified!Thorough
      /\ Certified!Leaves \subseteq Leaf /\ Only \in Leaf /\ "ca" \notin Leaf
      /\ Certified!Modes \subseteq {"plain", "force", "rotate"}
      /\ Certified!Thorough \in {"rotate", "force"}
      /\ (script = "services" => Certified!Thorough = "rotate")
           /\ script \in {"services", "edge", "mesh"}
      /\ (script # "services" => Certified!Leaves = {Only})
  BY <1>1, CertsSets
<1>3. CertsRun'
  BY <1>1, <1>2 DEF CertsRun, Certified!Idle
<1>4. PairsMoved'
  BY <1>1, <1>2 DEF PairsMoved
<1>5. LeavesHealed'
  BY <1>1, <1>2 DEF LeavesHealed, AtLeaves, Certified!Good, CertsRun
<1>6. LeavesChained'
  BY <1>1, <1>2 DEF LeavesChained, AtLeaves, MeshHolds, CertsRun
<1>7. RootMade'
  BY <1>1, <1>2 DEF RootMade, AtLeaves
<1> QED BY <1>3, <1>4, <1>5, <1>6, <1>7

\* The key has its owner, and the leaf is done.
LEMMA CertsGivesKey ==
  ASSUME Certified!CertificatesAssumption, Certified!TypeOK, Certified!TypeOK', CertsRun,
         PairsMoved, LeavesHealed, LeavesChained, RootMade,
         Certified!GivesKey
  PROVE  CertsRun' /\ PairsMoved' /\ LeavesHealed' /\ LeavesChained' /\ RootMade'
<1>1. /\ run.at = "owner" /\ run.leaf \in Leaf
      /\ run'.at = "leaves" /\ run'.mode = run.mode /\ run'.left = run.left \ {run.leaf}
      /\ run'.leaf = run.leaf
      /\ given' = given \cup {run.leaf} /\ rootCopy' = IF script = "mesh" THEN ca.cert ELSE rootCopy
      /\ UNCHANGED <<script, ca, leaf, keys, ended, ctorn, strewn>>
  BY DEF Certified!GivesKey, Certified!TypeOK
<1>2. /\ Certified!Leaves' = Certified!Leaves /\ Certified!Modes' = Certified!Modes
      /\ Certified!Thorough' = Certified!Thorough
      /\ Certified!Leaves \subseteq Leaf /\ Only \in Leaf /\ "ca" \notin Leaf
      /\ Certified!Modes \subseteq {"plain", "force", "rotate"}
      /\ Certified!Thorough \in {"rotate", "force"}
      /\ (script = "services" => Certified!Thorough = "rotate")
           /\ script \in {"services", "edge", "mesh"}
      /\ (script # "services" => Certified!Leaves = {Only})
  BY <1>1, CertsSets
<1>3. CertsRun'
  BY <1>1, <1>2 DEF CertsRun, Certified!Idle
<1>4. PairsMoved'
  BY <1>1, <1>2 DEF PairsMoved, CertsRun
<1>5. LeavesHealed'
  BY <1>1, <1>2 DEF LeavesHealed, AtLeaves, Certified!Good, CertsRun
<1>6. LeavesChained'
  BY <1>1, <1>2 DEF LeavesChained, AtLeaves, MeshHolds, CertsRun
<1>7. RootMade'
  BY <1>1, <1>2 DEF RootMade, AtLeaves
<1> QED BY <1>3, <1>4, <1>5, <1>6, <1>7

\* A run ends with no leaf left.
LEMMA CertsEnds ==
  ASSUME Certified!CertificatesAssumption, Certified!TypeOK, Certified!TypeOK', CertsRun,
         PairsMoved, LeavesHealed, LeavesChained, RootMade,
         Certified!Ends
  PROVE  CertsRun' /\ PairsMoved' /\ LeavesHealed' /\ LeavesChained' /\ RootMade'
<1>1. /\ run.at = "leaves" /\ run.left = {} /\ run' = Certified!Idle /\ run'.at = "off"
      /\ run'.left = {} /\ ended' = run.mode
      /\ (strewn' <=> strewn /\ run.mode # Certified!Thorough)
      /\ UNCHANGED <<script, ca, leaf, rootCopy, given, keys, ctorn>>
  BY DEF Certified!Ends, Certified!Idle, Certified!TypeOK
<1>2. /\ Certified!Leaves' = Certified!Leaves /\ Certified!Modes' = Certified!Modes
      /\ Certified!Thorough' = Certified!Thorough
      /\ Certified!Leaves \subseteq Leaf /\ Only \in Leaf /\ "ca" \notin Leaf
      /\ Certified!Modes \subseteq {"plain", "force", "rotate"}
      /\ Certified!Thorough \in {"rotate", "force"}
      /\ (script = "services" => Certified!Thorough = "rotate")
           /\ script \in {"services", "edge", "mesh"}
      /\ (script # "services" => Certified!Leaves = {Only})
  BY <1>1, CertsSets
<1>3. CertsRun'
  BY <1>1, <1>2 DEF CertsRun, Certified!Idle
<1>4. PairsMoved'
  BY <1>1, <1>2 DEF PairsMoved
<1>5. LeavesHealed'
  BY <1>1, <1>2 DEF LeavesHealed, AtLeaves, Certified!Good
<1>6. LeavesChained'
  BY <1>1, <1>2 DEF LeavesChained, AtLeaves, MeshHolds, LeavesHealed, Certified!Good
<1>7. RootMade'
  BY <1>1, <1>2 DEF RootMade, AtLeaves
<1> QED BY <1>3, <1>4, <1>5, <1>6, <1>7

\* A run that stops with an error has moved nothing.
LEMMA CertsRefuses ==
  ASSUME Certified!CertificatesAssumption, Certified!TypeOK, Certified!TypeOK', CertsRun,
         PairsMoved, LeavesHealed, LeavesChained, RootMade,
         Certified!Refuses
  PROVE  CertsRun' /\ PairsMoved' /\ LeavesHealed' /\ LeavesChained' /\ RootMade'
<1>1. /\ run.at = "ca" \/ (run.at = "leaves" /\ (script = "mesh" \/ ca.cert # ca.key))
      /\ run' = Certified!Idle /\ run'.at = "off" /\ run'.left = {}
      /\ UNCHANGED <<script, ca, leaf, rootCopy, given, keys, ended, ctorn, strewn>>
  BY DEF Certified!Refuses, Certified!HalfRoot, Certified!Signs, Certified!Idle
<1>2. /\ Certified!Leaves' = Certified!Leaves /\ Certified!Modes' = Certified!Modes
      /\ Certified!Thorough' = Certified!Thorough
      /\ Certified!Leaves \subseteq Leaf /\ Only \in Leaf /\ "ca" \notin Leaf
      /\ Certified!Modes \subseteq {"plain", "force", "rotate"}
      /\ Certified!Thorough \in {"rotate", "force"}
      /\ (script = "services" => Certified!Thorough = "rotate")
           /\ script \in {"services", "edge", "mesh"}
      /\ (script # "services" => Certified!Leaves = {Only})
  BY <1>1, CertsSets
<1>3. CertsRun'
  BY <1>1, <1>2 DEF CertsRun, Certified!Idle
<1>4. PairsMoved'
  BY <1>1, <1>2 DEF PairsMoved
<1>5. LeavesHealed'
  BY <1>1, <1>2 DEF LeavesHealed, AtLeaves, Certified!Good, CertsRun
<1>6. LeavesChained'
  BY <1>1, <1>2 DEF LeavesChained, AtLeaves, MeshHolds, CertsRun
<1>7. RootMade'
  BY <1>1, <1>2 DEF RootMade, AtLeaves
<1> QED BY <1>3, <1>4, <1>5, <1>6, <1>7

\* A run that dies leaves what it was at torn.
LEMMA CertsDies ==
  ASSUME Certified!CertificatesAssumption, Certified!TypeOK, Certified!TypeOK', CertsRun,
         PairsMoved, LeavesHealed, LeavesChained, RootMade,
         Certified!Dies
  PROVE  CertsRun' /\ PairsMoved' /\ LeavesHealed' /\ LeavesChained' /\ RootMade'
<1>1. /\ run.at # "off" /\ run' = Certified!Idle /\ run'.at = "off" /\ run'.left = {}
      /\ strewn' = TRUE
      /\ ctorn \subseteq ctorn' /\ (run.at = "caKey" => "ca" \in ctorn')
      /\ (run.at \in {"leafKey", "owner"} => run.leaf \in ctorn')
      /\ UNCHANGED <<script, ca, leaf, rootCopy, given, keys, ended>>
  BY DEF Certified!Dies, Certified!Idle
<1>2. /\ Certified!Leaves' = Certified!Leaves /\ Certified!Modes' = Certified!Modes
      /\ Certified!Thorough' = Certified!Thorough
      /\ Certified!Leaves \subseteq Leaf /\ Only \in Leaf /\ "ca" \notin Leaf
      /\ Certified!Modes \subseteq {"plain", "force", "rotate"}
      /\ Certified!Thorough \in {"rotate", "force"}
      /\ (script = "services" => Certified!Thorough = "rotate")
           /\ script \in {"services", "edge", "mesh"}
      /\ (script # "services" => Certified!Leaves = {Only})
  BY <1>1, CertsSets
<1>3. CertsRun'
  BY <1>1, <1>2 DEF CertsRun, Certified!Idle
<1>4. PairsMoved'
  BY <1>1, <1>2 DEF PairsMoved
<1>5. LeavesHealed'
  BY <1>1, <1>2 DEF LeavesHealed, AtLeaves, Certified!Good, CertsRun
<1>6. LeavesChained'
  BY <1>1, <1>2 DEF LeavesChained, AtLeaves, MeshHolds, CertsRun
<1>7. RootMade'
  BY <1>1, <1>2 DEF RootMade, AtLeaves
<1> QED BY <1>3, <1>4, <1>5, <1>6, <1>7

\* The invariant is kept by every step.
LEMMA CertsStep ==
  ASSUME Certified!CertificatesAssumption, CertsInv, [Certified!Next]_(Certified!vars)
  PROVE  CertsInv'
<1>1. Certified!TypeOK /\ Certified!TypeOK' /\ CertsRun /\ PairsMoved /\ LeavesHealed
        /\ LeavesChained /\ RootMade
  BY CertsTypes DEF CertsInv
<1>2. ASSUME UNCHANGED <<script, ca, leaf, rootCopy, given, run, keys, ended, ctorn, strewn>>
      PROVE  CertsRun' /\ PairsMoved' /\ LeavesHealed' /\ LeavesChained' /\ RootMade'
  <2>1. Certified!Leaves' = Certified!Leaves /\ Certified!Modes' = Certified!Modes
          /\ Certified!Thorough' = Certified!Thorough
    BY <1>1, <1>2, CertsSets
  <2>2. CertsRun'
    BY <1>1, <1>2, <2>1 DEF CertsRun, Certified!Idle
  <2>3. PairsMoved' /\ RootMade'
    BY <1>1, <1>2, <2>1 DEF PairsMoved, RootMade, AtLeaves
  <2>4. LeavesHealed' /\ LeavesChained'
    BY <1>1, <1>2, <2>1 DEF LeavesHealed, LeavesChained, AtLeaves, Certified!Good, MeshHolds
  <2> QED BY <2>2, <2>3, <2>4
<1>3. (\E x \in Leaf \cup {"ca"} : Certified!Ages(x)) \/ UNCHANGED Certified!vars
        => UNCHANGED <<script, ca, leaf, rootCopy, given, run, keys, ended, ctorn, strewn>>
  BY DEF Certified!Ages, Certified!vars
<1>4. CertsRun' /\ PairsMoved' /\ LeavesHealed' /\ LeavesChained' /\ RootMade'
  BY <1>1, <1>2, <1>3, CertsStarts, CertsKeepsCa, CertsNothingDone, CertsMovesCaCert,
     CertsMovesCaKey,
     CertsKeepsLeaf, CertsMovesLeafCert, CertsMovesLeafKey, CertsGivesKey, CertsEnds, CertsRefuses,
     CertsDies,
     Zenon DEF Certified!Next
<1> QED BY <1>1, <1>4 DEF CertsInv

\* What the invariant says of the properties.
LEMMA CertsRight ==
  ASSUME Certified!CertificatesAssumption, CertsInv
  PROVE  Certified!TypeOK /\ Certified!PairsMatch /\ Certified!ThoroughRunHeals
           /\ Certified!ChainHolds /\ Certified!RootIsKept
<1>1. Certified!PairsMatch
  BY DEF CertsInv, PairsMoved, Certified!PairsMatch
<1>2. Certified!ThoroughRunHeals
  BY DEF CertsInv, LeavesHealed, Certified!ThoroughRunHeals
<1>3. Certified!ChainHolds
  <2>1. ended # "none" => run.at = "off"
    BY DEF CertsInv, CertsRun
  <2> QED BY <2>1 DEF CertsInv, LeavesChained, Certified!ChainHolds, MeshHolds, AtLeaves
<1>4. Certified!RootIsKept
  BY DEF CertsInv, RootMade, Certified!RootIsKept
<1> QED BY <1>1, <1>2, <1>3, <1>4 DEF CertsInv

-----------------------------------------------------------------------------
(* The cluster *)

\* The registry keeps its pin, no node takes its address, and what is pinned runs at its pin.
Placed ==
  /\ pin[Registry] = 1 /\ Registry \in joined /\ held[Registry] = 0
  /\ file[Registry] \in {0, 1} /\ addr[Registry] \in {0, 1}
  /\ \A n \in Kind!Node : 1 \notin {pin[n], addr[n], file[n], held[n]}
  /\ \A c \in Kind!Container : addr[c] # 0 => c \in joined /\ pin[c] \in {0, addr[c]}
  /\ addr[Control] = addr[Worker] => addr[Control] = 0

PinSteps == {"sever", "connect", "record2"}

\* What the steps before it have brought up, or taken down.
Marching ==
  /\ cmd.at \in {"control", "network", "open", "mesh", "worker", "network2", "open2"} =>
       addr[Registry] # 0
  /\ cmd.at \in {"network", "open", "mesh", "worker", "network2", "open2"} => addr[Control] # 0
  /\ cmd.at \in {"network2", "open2"} => addr[Worker] # 0
  /\ cmd.at = "open" => Control \in net
  /\ cmd.at = "open2" => Worker \in net
  /\ cmd.at \in {"drain", "off", "off2", "off3"} \cup PinSteps => cordon = Kind!Node
  /\ cmd.at \in {"off", "off2", "off3"} \cup PinSteps => work = {}
  /\ cmd.at \in {"off2", "off3"} \cup PinSteps => addr[Worker] = 0
  /\ cmd.at \in {"off3"} \cup PinSteps => addr[Control] = 0
  /\ cmd.at \in PinSteps => addr[Registry] = 0

\* A node that is off is cordoned and empty.
Emptied ==
  abrupt \/ \A n \in Kind!Node : IF addr[n] = 0 THEN n \in cordon \ work ELSE n \in net \cup cordon

\* It is off the network, or has the pin that its file says.
Settled(c) == file[c] = 0 \/ c \notin joined \/ pin[c] = file[c]

ClusterStarting ==
  /\ cmd.at = "release" => \A c \in Kind!Container \ cmd.left : Settled(c)
  /\ cmd.at \in Kind!StartSteps \ {"release"} => \A c \in Kind!Container : Settled(c)
  /\ cmd.at = "attach" => Kind!Container \ cmd.left \subseteq joined
  /\ cmd.at \in Kind!StartSteps \ {"release", "record", "attach"} => joined = Kind!Container
  /\ clusterReady =>
       cmd.at = "none" /\ \A c \in Kind!Container : addr[c] # 0 /\ file[c] \in {0, addr[c]}

Attached ==
  /\ \A c \in Kind!Container \ joined : file[c] # 0 \/ c \in severed
       \/ (cmd.at = "connect" /\ c \in cmd.left)
  /\ cmd.at \in {"cordon", "drain", "off", "off2", "off3"} =>
       \A c \in Kind!Container : held[c] # 0 => pin[c] = 0 /\ c \in joined
  /\ cmd.at \in {"sever", "connect"} => \A c \in cmd.left : pin[c] = 0 /\ held[c] # 0
  /\ cmd.at = "sever" => cmd.left \subseteq joined
  /\ cmd.at = "connect" => \A c, d \in cmd.left \ joined : c = d

\* The pins, the files and the addresses of the two nodes keep apart.
Apart ==
  /\ \A n \in Kind!Node : file[n] = 0 \/ pin[n] \in {0, file[n]}
  /\ file[Control] = file[Worker] => file[Control] = 0
  /\ pin[Control] = 0 \/ pin[Control] \notin {file[Worker], addr[Worker]}
  /\ pin[Worker] = 0 \/ pin[Worker] \notin {file[Control], addr[Control]}
  /\ file[Control] = 0 /\ pin[Control] = 0 => file[Worker] = 0 /\ pin[Worker] = 0
  /\ pin[Control] = 0 /\ file[Control] # 0 => file[Worker] # 0

\* A control plane that comes from another cluster, with a worker that is off.
Foreign ==
  pin[Control] = 0 /\ file[Control] # 0 /\ addr[Worker] = 0 => addr[Control] \in {0, file[Control]}

\* What stop has noted.
Noted ==
  /\ held[Control] = held[Worker] => held[Control] = 0
  /\ held[Control] = 0 \/ pin[Worker] # held[Control]
  /\ held[Worker] = 0 \/ pin[Control] # held[Worker]
  /\ cmd.at # "cordon" \/ addr[Control] # 0 => pin[Control] # 0 \/ held[Control] # 0
  /\ held[Worker] = 0 /\ pin[Worker] = 0 /\ file[Worker] # 0 =>
       file[Worker] \notin {held[Control], pin[Control]}
  /\ cmd.at \in {"sever", "connect"} =>
       \A n \in Kind!Node : held[n] # 0 => n \in cmd.left \/ pin[n] = held[n]
  /\ cmd.at = "record2" =>
       \A n \in Kind!Node : (held[n] # 0 => pin[n] = held[n])
         /\ (n \notin cmd.left /\ pin[n] # 0 => file[n] = pin[n])

ClusterKept ==
  \/ mixed
  \/ /\ pin[Control] = pin[Worker] => pin[Control] = 0
     /\ cmd.at \notin PinSteps => Apart
     /\ cmd.at \notin PinSteps \cup {"off2", "off3"}
          /\ ~(cmd.at = "release" /\ Control \in cmd.left) => Foreign
     /\ cmd.at \in {"cordon", "drain", "off", "off2", "off3"} \cup PinSteps => Noted

ClusterInv == Kind!TypeOK /\ Placed /\ Marching /\ Emptied /\ ClusterStarting /\ Attached
  /\ ClusterKept

\* A cluster that was just created.
LEMMA ClusterStart ==
  ASSUME Kind!ClusterAssumption, Kind!Init
  PROVE  ClusterInv
<1>1. /\ Control # Worker /\ Registry # Control /\ Registry # Worker /\ 0 \in 0..ClusterFaults
  BY DEF Kind!ClusterAssumption
<1>2. /\ cmd = [at |-> "none", left |-> {}] /\ cmd.at = "none" /\ cmd.left = {}
      /\ joined = Kind!Container /\ other = 0 /\ cordon = {} /\ net = Kind!Node /\ work = Kind!Node
      /\ clusterReady = FALSE
      /\ severed = {} /\ mixed = FALSE /\ abrupt = FALSE /\ kfaults = 0
  BY DEF Kind!Init, Kind!Idle
<1>3. /\ addr \in [Kind!Container -> 1..3] /\ addr[Registry] = 1
      /\ {addr[Control], addr[Worker]} = {2, 3}
  <2>1. addr \in [Kind!Container -> 1..3] /\ Kind!Plan(addr)
    BY DEF Kind!Init
  <2>2. {addr[n] : n \in Kind!Node} = {addr[Control], addr[Worker]}
    BY DEF Kind!Node
  <2> QED BY <2>1, <2>2 DEF Kind!Plan
<1>4. /\ pin \in [Kind!Container -> {0, 1}] /\ pin[Registry] = 1 /\ pin[Control] = 0
      /\ pin[Worker] = 0
      /\ held \in [Kind!Container -> {0}] /\ \A c \in Kind!Container : held[c] = 0
  BY <1>1 DEF Kind!Init, Kind!Zeros, Kind!Container, Kind!Node
<1>5. /\ file \in [Kind!Container -> 0..3]
      /\ \/ file[Registry] = 0 /\ file[Control] = 0 /\ file[Worker] = 0
         \/ file[Registry] = 1 /\ {file[Control], file[Worker]} = {2, 3}
  <2>1. CASE file \in {f \in [Kind!Container -> 1..3] : Kind!Plan(f)}
    <3>1. {file[n] : n \in Kind!Node} = {file[Control], file[Worker]}
      BY DEF Kind!Node
    <3>2. file \in [Kind!Container -> 1..3] /\ Kind!Plan(file)
      BY <2>1
    <3> QED BY <3>1, <3>2 DEF Kind!Plan
  <2>2. CASE file \in {Kind!Zeros}
    BY <2>2 DEF Kind!Zeros, Kind!Container, Kind!Node
  <2> QED BY <2>1, <2>2 DEF Kind!Init
<1>6. Kind!TypeOK
  <2>1. pin \in [Kind!Container -> Kind!Address \cup {0}]
          /\ held \in [Kind!Container -> Kind!Address \cup {0}]
    BY <1>4 DEF Kind!Address
  <2>2. addr \in [Kind!Container -> Kind!Address \cup {0}]
          /\ file \in [Kind!Container -> Kind!Address \cup {0}]
    BY <1>3, <1>5 DEF Kind!Address
  <2> QED BY <1>1, <1>2, <2>1, <2>2 DEF Kind!TypeOK
<1>7. Placed
  BY <1>1, <1>2, <1>3, <1>4, <1>5 DEF Placed, Kind!Container, Kind!Node
<1>8. Marching /\ ClusterStarting /\ Attached
  BY <1>2 DEF Marching, ClusterStarting, Attached, PinSteps, Kind!StartSteps
<1>9. Emptied
  BY <1>1, <1>2, <1>3 DEF Emptied, Kind!Node
<1>10. ClusterKept
  <2>1. Foreign
    BY <1>1, <1>2, <1>3 DEF Foreign
  <2>2. Apart
    BY <1>1, <1>4, <1>5 DEF Apart, Kind!Node
  <2> QED BY <1>2, <1>4, <2>1, <2>2 DEF ClusterKept, PinSteps
<1> QED BY <1>6, <1>7, <1>8, <1>9, <1>10 DEF ClusterInv

\* The three containers, and functions of them.
ClusterShape ==
  /\ Control # Worker /\ Registry # Control /\ Registry # Worker
  /\ Kind!Node = {Control, Worker} /\ Kind!Container = {Control, Worker, Registry}
  /\ pin \in [Kind!Container -> Kind!Address \cup {0}]
  /\ addr \in [Kind!Container -> Kind!Address \cup {0}]
  /\ file \in [Kind!Container -> Kind!Address \cup {0}]
  /\ held \in [Kind!Container -> Kind!Address \cup {0}]
  /\ 0 \notin Kind!Address
  /\ ClusterFaults \in Nat /\ joined \subseteq Kind!Container /\ mixed \in BOOLEAN
  /\ abrupt \in BOOLEAN

\* The three containers, and the parts of the invariant.
LEMMA ClusterSets ==
  ASSUME Kind!ClusterAssumption, ClusterInv
  PROVE  ClusterShape /\ Kind!TypeOK /\ Placed /\ Marching /\ Emptied /\ ClusterStarting
           /\ Attached /\ ClusterKept
BY DEF Kind!ClusterAssumption, ClusterInv, ClusterShape, Kind!TypeOK, Kind!Node, Kind!Container,
       Kind!Address

\* start begins.
LEMMA ClusterStarts ==
  ASSUME Kind!ClusterAssumption, ClusterInv,
         Kind!Start
  PROVE  ClusterInv'
<1>1. ClusterShape /\ Kind!TypeOK /\ Placed /\ Marching /\ Emptied /\ ClusterStarting /\ Attached
        /\ ClusterKept
  BY ClusterSets
<1>2. /\ cmd.at = "none" /\ clusterReady' = FALSE /\ cmd'.at = "release"
      /\ cmd'.left = Kind!Container /\ cmd' = [at |-> "release", left |-> Kind!Container]
      /\ UNCHANGED <<joined, pin, addr, file, other, cordon, net, work, held, severed, mixed,
         abrupt, kfaults>>
  BY <1>1 DEF ClusterShape, Kind!Start, Kind!At, Kind!Goes, Kind!history, Kind!Idle
<1>3. Kind!TypeOK'
  BY <1>1, <1>2 DEF ClusterShape, Kind!TypeOK, Kind!Idle, Kind!StartSteps, Kind!StopSteps
<1>4. Placed'
  BY <1>1, <1>2 DEF ClusterShape, Placed
<1>5. Marching'
  BY <1>1, <1>2 DEF ClusterShape, Marching, PinSteps
<1>6. Emptied'
  BY <1>1, <1>2 DEF ClusterShape, Emptied, Marching, PinSteps
<1>7. ClusterStarting'
  BY <1>1, <1>2 DEF ClusterShape, ClusterStarting, Settled, Kind!StartSteps
<1>8. Attached'
  BY <1>1, <1>2 DEF ClusterShape, Attached
<1>9. ClusterKept'
  BY <1>1, <1>2 DEF ClusterShape, ClusterKept, Apart, Foreign, Noted, PinSteps
<1> QED BY <1>3, <1>4, <1>5, <1>6, <1>7, <1>8, <1>9 DEF ClusterInv

\* stop begins.
LEMMA ClusterStops ==
  ASSUME Kind!ClusterAssumption, ClusterInv,
         Kind!Stop
  PROVE  ClusterInv'
<1>1. ClusterShape /\ Kind!TypeOK /\ Placed /\ Marching /\ Emptied /\ ClusterStarting /\ Attached
        /\ ClusterKept
  BY ClusterSets
<1>2. /\ cmd.at = "none" /\ clusterReady' = FALSE /\ cmd'.at = "note" /\ cmd'.left = {}
      /\ cmd' = [at |-> "note", left |-> {}]
      /\ UNCHANGED <<joined, pin, addr, file, other, cordon, net, work, held, severed, mixed,
         abrupt, kfaults>>
  BY <1>1 DEF ClusterShape, Kind!Stop, Kind!At, Kind!Goes, Kind!history, Kind!Idle
<1>3. Kind!TypeOK'
  BY <1>1, <1>2 DEF ClusterShape, Kind!TypeOK, Kind!Idle, Kind!StartSteps, Kind!StopSteps
<1>4. Placed'
  BY <1>1, <1>2 DEF ClusterShape, Placed
<1>5. Marching'
  BY <1>1, <1>2 DEF ClusterShape, Marching, PinSteps
<1>6. Emptied'
  BY <1>1, <1>2 DEF ClusterShape, Emptied, Marching, PinSteps
<1>7. ClusterStarting'
  BY <1>1, <1>2 DEF ClusterShape, ClusterStarting, Settled, Kind!StartSteps
<1>8. Attached'
  BY <1>1, <1>2 DEF ClusterShape, Attached
<1>9. ClusterKept'
  BY <1>1, <1>2 DEF ClusterShape, ClusterKept, Apart, Foreign, Noted, PinSteps
<1> QED BY <1>3, <1>4, <1>5, <1>6, <1>7, <1>8, <1>9 DEF ClusterInv

\* A container that has moved is taken off the network.
LEMMA ClusterRelease1 ==
  ASSUME Kind!ClusterAssumption, ClusterInv,
         NEW c \in Kind!Container, Kind!Release(c), Kind!Moved(c)
  PROVE  ClusterInv'
<1>1. ClusterShape /\ Kind!TypeOK /\ Placed /\ Marching /\ Emptied /\ ClusterStarting /\ Attached
        /\ ClusterKept
  BY ClusterSets
<1>2. /\ cmd.at = "release" /\ c \in cmd.left /\ cmd'.at = "release" /\ cmd'.left = cmd.left \ {c}
      /\ cmd' = [at |-> "release", left |-> cmd.left \ {c}]
      /\ joined' = joined \ {c} /\ net' = net \ {c} /\ work' = work \ {c}
      /\ pin'[c] = 0 /\ pin' \in [Kind!Container -> Kind!Address \cup {0}]
           /\ \A d \in Kind!Container : d # c => pin'[d] = pin[d]
      /\ addr'[c] = 0 /\ addr' \in [Kind!Container -> Kind!Address \cup {0}]
           /\ \A d \in Kind!Container : d # c => addr'[d] = addr[d]
      /\ file[c] # 0 /\ pin[c] # file[c]
      /\ UNCHANGED <<file, other, cordon, held, clusterReady, severed, mixed, kfaults>>
  BY <1>1 DEF ClusterShape, Kind!Release, Kind!Moved, Kind!At, Kind!Goes, Kind!history, Kind!Idle
<1>3. (abrupt' <=> abrupt \/ addr[c] # 0) /\ abrupt' \in BOOLEAN
  BY <1>1 DEF ClusterShape, Kind!Release
<1>4. Kind!TypeOK'
  <2>1. /\ pin' \in [Kind!Container -> Kind!Address \cup {0}]
        /\ addr' \in [Kind!Container -> Kind!Address \cup {0}]
        /\ file' \in [Kind!Container -> Kind!Address \cup {0}]
        /\ held' \in [Kind!Container -> Kind!Address \cup {0}]
    BY <1>1, <1>2, <1>3 DEF ClusterShape
  <2>2. cmd' \in [at : Kind!StartSteps \cup Kind!StopSteps \cup {"none"},
        left : SUBSET Kind!Container]
    BY <1>1, <1>2, <1>3 DEF ClusterShape, Kind!TypeOK, Kind!StartSteps, Kind!StopSteps
  <2>3. \A d \in Kind!Container : pin'[d] # 0 => d \in joined'
    BY <1>1, <1>2, <1>3 DEF ClusterShape, Kind!TypeOK
  <2>4. /\ joined' \subseteq Kind!Container /\ cordon' \subseteq Kind!Node
        /\ net' \subseteq Kind!Node /\ work' \subseteq Kind!Node
        /\ severed' \subseteq Kind!Container
    BY <1>1, <1>2, <1>3 DEF ClusterShape, Kind!TypeOK
  <2>5. other' \in Kind!Address \cup {0} /\ clusterReady' \in BOOLEAN
          /\ kfaults' \in 0..ClusterFaults
    BY <1>1, <1>2, <1>3 DEF ClusterShape, Kind!TypeOK
  <2>6. abrupt' \in BOOLEAN /\ mixed' \in BOOLEAN
    BY <1>1, <1>2, <1>3 DEF ClusterShape, Kind!TypeOK
  <2> QED BY <2>1, <2>2, <2>3, <2>4, <2>5, <2>6 DEF Kind!TypeOK
<1>5. Placed'
  BY <1>1, <1>2, <1>3 DEF ClusterShape, Placed
<1>6. Marching'
  BY <1>1, <1>2, <1>3 DEF ClusterShape, Marching, PinSteps
<1>7. Emptied'
  BY <1>1, <1>2, <1>3 DEF ClusterShape, Emptied, Marching, PinSteps
<1>8. ClusterStarting'
  BY <1>1, <1>2, <1>3 DEF ClusterShape, ClusterStarting, Settled, Kind!StartSteps
<1>9. Attached'
  BY <1>1, <1>2, <1>3 DEF ClusterShape, Attached
<1>10. ClusterKept'
  <2>1. CASE mixed'
    BY <2>1 DEF ClusterKept
  <2>2. ASSUME ~mixed'
        PROVE  /\ pin'[Control] = pin'[Worker] => pin'[Control] = 0
               /\ cmd'.at \notin PinSteps => Apart'
               /\ cmd'.at \notin PinSteps \cup {"off2", "off3"}
                    /\ ~(cmd'.at = "release" /\ Control \in cmd'.left) => Foreign'
               /\ cmd'.at \in {"cordon", "drain", "off", "off2", "off3"} \cup PinSteps => Noted'
    <3>1. /\ pin[Control] = pin[Worker] => pin[Control] = 0
          /\ cmd.at \notin PinSteps => Apart
          /\ cmd.at \notin PinSteps \cup {"off2", "off3"}
               /\ ~(cmd.at = "release" /\ Control \in cmd.left) => Foreign
          /\ cmd.at \in {"cordon", "drain", "off", "off2", "off3"} \cup PinSteps => Noted
      BY <1>1, <1>2, <1>3, <2>2 DEF ClusterShape, ClusterKept
    <3>2. pin'[Control] = pin'[Worker] => pin'[Control] = 0
      BY <3>1, <1>1, <1>2, <1>3 DEF ClusterShape, Apart, Noted, PinSteps, Placed, ClusterStarting
    <3>3. cmd'.at \notin PinSteps => Apart'
      BY <3>1, <1>1, <1>2, <1>3 DEF ClusterShape, Apart, Noted, PinSteps, Placed, Marching,
                                    ClusterStarting, Kind!StartSteps, Settled
    <3>4. cmd'.at \notin PinSteps \cup {"off2", "off3"}
            /\ ~(cmd'.at = "release" /\ Control \in cmd'.left) => Foreign'
      BY <3>1, <1>1, <1>2, <1>3 DEF ClusterShape, Foreign, Noted, PinSteps, Placed,
                                    ClusterStarting, Kind!StartSteps, Settled
    <3>5. cmd'.at \in {"cordon", "drain", "off", "off2", "off3"} \cup PinSteps => Noted'
      BY <3>1, <1>1, <1>2, <1>3 DEF ClusterShape, Apart, Foreign, Noted, PinSteps, Placed
    <3> QED BY <3>2, <3>3, <3>4, <3>5
  <2> QED BY <2>1, <2>2 DEF ClusterKept
<1> QED BY <1>4, <1>5, <1>6, <1>7, <1>8, <1>9, <1>10 DEF ClusterInv

\* Another one is left where it is.
LEMMA ClusterRelease2 ==
  ASSUME Kind!ClusterAssumption, ClusterInv,
         NEW c \in Kind!Container, Kind!Release(c), ~Kind!Moved(c)
  PROVE  ClusterInv'
<1>1. ClusterShape /\ Kind!TypeOK /\ Placed /\ Marching /\ Emptied /\ ClusterStarting /\ Attached
        /\ ClusterKept
  BY ClusterSets
<1>2. /\ cmd.at = "release" /\ c \in cmd.left /\ cmd'.at = "release" /\ cmd'.left = cmd.left \ {c}
      /\ cmd' = [at |-> "release", left |-> cmd.left \ {c}]
      /\ (file[c] = 0 \/ c \notin joined \/ pin[c] = file[c])
      /\ UNCHANGED <<joined, pin, addr, file, other, cordon, net, work, held, clusterReady,
         severed, mixed, abrupt, kfaults>>
  BY <1>1 DEF ClusterShape, Kind!Release, Kind!Moved, Kind!At, Kind!Goes, Kind!history, Kind!Idle
<1>3. Kind!TypeOK'
  BY <1>1, <1>2 DEF ClusterShape, Kind!TypeOK, Kind!Idle, Kind!StartSteps, Kind!StopSteps
<1>4. Placed'
  BY <1>1, <1>2 DEF ClusterShape, Placed
<1>5. Marching'
  BY <1>1, <1>2 DEF ClusterShape, Marching, PinSteps
<1>6. Emptied'
  BY <1>1, <1>2 DEF ClusterShape, Emptied, Marching, PinSteps
<1>7. ClusterStarting'
  BY <1>1, <1>2 DEF ClusterShape, ClusterStarting, Settled, Kind!StartSteps
<1>8. Attached'
  BY <1>1, <1>2 DEF ClusterShape, Attached
<1>9. ClusterKept'
  <2>1. CASE mixed'
    BY <2>1 DEF ClusterKept
  <2>2. ASSUME ~mixed'
        PROVE  /\ pin'[Control] = pin'[Worker] => pin'[Control] = 0
               /\ cmd'.at \notin PinSteps => Apart'
               /\ cmd'.at \notin PinSteps \cup {"off2", "off3"}
                    /\ ~(cmd'.at = "release" /\ Control \in cmd'.left) => Foreign'
               /\ cmd'.at \in {"cordon", "drain", "off", "off2", "off3"} \cup PinSteps => Noted'
    <3>1. /\ pin[Control] = pin[Worker] => pin[Control] = 0
          /\ cmd.at \notin PinSteps => Apart
          /\ cmd.at \notin PinSteps \cup {"off2", "off3"}
               /\ ~(cmd.at = "release" /\ Control \in cmd.left) => Foreign
          /\ cmd.at \in {"cordon", "drain", "off", "off2", "off3"} \cup PinSteps => Noted
      BY <1>1, <1>2, <2>2 DEF ClusterShape, ClusterKept
    <3>2. pin'[Control] = pin'[Worker] => pin'[Control] = 0
      BY <3>1, <1>1, <1>2 DEF ClusterShape, Apart, Noted, PinSteps, Placed, ClusterStarting
    <3>3. cmd'.at \notin PinSteps => Apart'
      BY <3>1, <1>1, <1>2 DEF ClusterShape, Apart, Noted, PinSteps, Placed, Marching,
                              ClusterStarting, Kind!StartSteps, Settled
    <3>4. cmd'.at \notin PinSteps \cup {"off2", "off3"}
            /\ ~(cmd'.at = "release" /\ Control \in cmd'.left) => Foreign'
      BY <3>1, <1>1, <1>2 DEF ClusterShape, Foreign, Noted, PinSteps, Placed, ClusterStarting,
                              Kind!StartSteps, Settled
    <3>5. cmd'.at \in {"cordon", "drain", "off", "off2", "off3"} \cup PinSteps => Noted'
      BY <3>1, <1>1, <1>2 DEF ClusterShape, Apart, Foreign, Noted, PinSteps, Placed
    <3> QED BY <3>2, <3>3, <3>4, <3>5
  <2> QED BY <2>1, <2>2 DEF ClusterKept
<1> QED BY <1>3, <1>4, <1>5, <1>6, <1>7, <1>8, <1>9 DEF ClusterInv

\* start records the pins.
LEMMA ClusterRecord1 ==
  ASSUME Kind!ClusterAssumption, ClusterInv,
         NEW c \in Kind!Container, Kind!Record("record", c)
  PROVE  ClusterInv'
<1>1. ClusterShape /\ Kind!TypeOK /\ Placed /\ Marching /\ Emptied /\ ClusterStarting /\ Attached
        /\ ClusterKept
  BY ClusterSets
<1>2. /\ cmd.at = "record" /\ c \in cmd.left /\ cmd'.at = "record" /\ cmd'.left = cmd.left \ {c}
      /\ cmd' = [at |-> "record", left |-> cmd.left \ {c}]
      /\ file'[c] = (IF pin[c] # 0 THEN pin[c] ELSE file[c])
           /\ file' \in [Kind!Container -> Kind!Address \cup {0}]
                /\ \A d \in Kind!Container : d # c => file'[d] = file[d]
      /\ UNCHANGED <<joined, pin, addr, other, cordon, net, work, held, clusterReady, severed,
         mixed, abrupt, kfaults>>
  BY <1>1 DEF ClusterShape, Kind!Record, Kind!At, Kind!Goes, Kind!history, Kind!Idle
<1>3. Kind!TypeOK'
  BY <1>1, <1>2 DEF ClusterShape, Kind!TypeOK, Kind!Idle, Kind!StartSteps, Kind!StopSteps
<1>4. Placed'
  BY <1>1, <1>2 DEF ClusterShape, Placed
<1>5. Marching'
  BY <1>1, <1>2 DEF ClusterShape, Marching, PinSteps
<1>6. Emptied'
  BY <1>1, <1>2 DEF ClusterShape, Emptied, Marching, PinSteps
<1>7. ClusterStarting'
  BY <1>1, <1>2 DEF ClusterShape, ClusterStarting, Settled, Kind!StartSteps
<1>8. Attached'
  BY <1>1, <1>2 DEF ClusterShape, Attached
<1>9. ClusterKept'
  <2>1. CASE mixed'
    BY <2>1 DEF ClusterKept
  <2>2. ASSUME ~mixed'
        PROVE  /\ pin'[Control] = pin'[Worker] => pin'[Control] = 0
               /\ cmd'.at \notin PinSteps => Apart'
               /\ cmd'.at \notin PinSteps \cup {"off2", "off3"}
                    /\ ~(cmd'.at = "release" /\ Control \in cmd'.left) => Foreign'
               /\ cmd'.at \in {"cordon", "drain", "off", "off2", "off3"} \cup PinSteps => Noted'
    <3>1. /\ pin[Control] = pin[Worker] => pin[Control] = 0
          /\ cmd.at \notin PinSteps => Apart
          /\ cmd.at \notin PinSteps \cup {"off2", "off3"}
               /\ ~(cmd.at = "release" /\ Control \in cmd.left) => Foreign
          /\ cmd.at \in {"cordon", "drain", "off", "off2", "off3"} \cup PinSteps => Noted
      BY <1>1, <1>2, <2>2 DEF ClusterShape, ClusterKept
    <3>2. pin'[Control] = pin'[Worker] => pin'[Control] = 0
      BY <3>1, <1>1, <1>2 DEF ClusterShape, Apart, Noted, PinSteps, Placed, ClusterStarting
    <3>3. cmd'.at \notin PinSteps => Apart'
      BY <3>1, <1>1, <1>2 DEF ClusterShape, Apart, Noted, PinSteps, Placed, Marching,
                              ClusterStarting, Kind!StartSteps, Settled
    <3>4. cmd'.at \notin PinSteps \cup {"off2", "off3"}
            /\ ~(cmd'.at = "release" /\ Control \in cmd'.left) => Foreign'
      BY <3>1, <1>1, <1>2 DEF ClusterShape, Foreign, Noted, PinSteps, Placed, ClusterStarting,
                              Kind!StartSteps, Settled
    <3>5. cmd'.at \in {"cordon", "drain", "off", "off2", "off3"} \cup PinSteps => Noted'
      BY <3>1, <1>1, <1>2 DEF ClusterShape, Apart, Foreign, Noted, PinSteps, Placed
    <3> QED BY <3>2, <3>3, <3>4, <3>5
  <2> QED BY <2>1, <2>2 DEF ClusterKept
<1> QED BY <1>3, <1>4, <1>5, <1>6, <1>7, <1>8, <1>9 DEF ClusterInv

\* stop records the pins.
LEMMA ClusterRecord2 ==
  ASSUME Kind!ClusterAssumption, ClusterInv,
         NEW c \in Kind!Container, Kind!Record("record2", c)
  PROVE  ClusterInv'
<1>1. ClusterShape /\ Kind!TypeOK /\ Placed /\ Marching /\ Emptied /\ ClusterStarting /\ Attached
        /\ ClusterKept
  BY ClusterSets
<1>2. /\ cmd.at = "record2" /\ c \in cmd.left /\ cmd'.at = "record2" /\ cmd'.left = cmd.left \ {c}
      /\ cmd' = [at |-> "record2", left |-> cmd.left \ {c}]
      /\ file'[c] = (IF pin[c] # 0 THEN pin[c] ELSE file[c])
           /\ file' \in [Kind!Container -> Kind!Address \cup {0}]
                /\ \A d \in Kind!Container : d # c => file'[d] = file[d]
      /\ UNCHANGED <<joined, pin, addr, other, cordon, net, work, held, clusterReady, severed,
         mixed, abrupt, kfaults>>
  BY <1>1 DEF ClusterShape, Kind!Record, Kind!At, Kind!Goes, Kind!history, Kind!Idle
<1>3. Kind!TypeOK'
  BY <1>1, <1>2 DEF ClusterShape, Kind!TypeOK, Kind!Idle, Kind!StartSteps, Kind!StopSteps
<1>4. Placed'
  BY <1>1, <1>2 DEF ClusterShape, Placed
<1>5. Marching'
  BY <1>1, <1>2 DEF ClusterShape, Marching, PinSteps
<1>6. Emptied'
  BY <1>1, <1>2 DEF ClusterShape, Emptied, Marching, PinSteps
<1>7. ClusterStarting'
  BY <1>1, <1>2 DEF ClusterShape, ClusterStarting, Settled, Kind!StartSteps
<1>8. Attached'
  BY <1>1, <1>2 DEF ClusterShape, Attached
<1>9. ClusterKept'
  <2>1. CASE mixed'
    BY <2>1 DEF ClusterKept
  <2>2. ASSUME ~mixed'
        PROVE  /\ pin'[Control] = pin'[Worker] => pin'[Control] = 0
               /\ cmd'.at \notin PinSteps => Apart'
               /\ cmd'.at \notin PinSteps \cup {"off2", "off3"}
                    /\ ~(cmd'.at = "release" /\ Control \in cmd'.left) => Foreign'
               /\ cmd'.at \in {"cordon", "drain", "off", "off2", "off3"} \cup PinSteps => Noted'
    <3>1. /\ pin[Control] = pin[Worker] => pin[Control] = 0
          /\ cmd.at \notin PinSteps => Apart
          /\ cmd.at \notin PinSteps \cup {"off2", "off3"}
               /\ ~(cmd.at = "release" /\ Control \in cmd.left) => Foreign
          /\ cmd.at \in {"cordon", "drain", "off", "off2", "off3"} \cup PinSteps => Noted
      BY <1>1, <1>2, <2>2 DEF ClusterShape, ClusterKept
    <3>2. pin'[Control] = pin'[Worker] => pin'[Control] = 0
      BY <3>1, <1>1, <1>2 DEF ClusterShape, Apart, Noted, PinSteps, Placed, ClusterStarting
    <3>3. cmd'.at \notin PinSteps => Apart'
      BY <3>1, <1>1, <1>2 DEF ClusterShape, Apart, Noted, PinSteps, Placed, Marching,
                              ClusterStarting, Kind!StartSteps, Settled
    <3>4. cmd'.at \notin PinSteps \cup {"off2", "off3"}
            /\ ~(cmd'.at = "release" /\ Control \in cmd'.left) => Foreign'
      BY <3>1, <1>1, <1>2 DEF ClusterShape, Foreign, Noted, PinSteps, Placed, ClusterStarting,
                              Kind!StartSteps, Settled
    <3>5. cmd'.at \in {"cordon", "drain", "off", "off2", "off3"} \cup PinSteps => Noted'
      BY <3>1, <1>1, <1>2 DEF ClusterShape, Apart, Foreign, Noted, PinSteps, Placed
    <3> QED BY <3>2, <3>3, <3>4, <3>5
  <2> QED BY <2>1, <2>2 DEF ClusterKept
<1> QED BY <1>3, <1>4, <1>5, <1>6, <1>7, <1>8, <1>9 DEF ClusterInv

\* A container is attached at the address of its file.
LEMMA ClusterAttach ==
  ASSUME Kind!ClusterAssumption, ClusterInv,
         NEW c \in Kind!Container, Kind!Attach(c)
  PROVE  ClusterInv'
<1>1. ClusterShape /\ Kind!TypeOK /\ Placed /\ Marching /\ Emptied /\ ClusterStarting /\ Attached
        /\ ClusterKept
  BY ClusterSets
<1>2. /\ cmd.at = "attach" /\ c \in cmd.left /\ (c \in joined \/ file[c] # 0) /\ cmd'.at = "attach"
      /\ cmd'.left = cmd.left \ {c} /\ cmd' = [at |-> "attach", left |-> cmd.left \ {c}]
      /\ joined' = joined \cup {c}
      /\ pin'[c] = (IF c \in joined THEN pin[c] ELSE file[c])
           /\ pin' \in [Kind!Container -> Kind!Address \cup {0}]
                /\ \A d \in Kind!Container : d # c => pin'[d] = pin[d]
      /\ UNCHANGED <<addr, file, other, cordon, net, work, held, clusterReady, severed, mixed,
         abrupt, kfaults>>
  BY <1>1 DEF ClusterShape, Kind!Attach, Kind!At, Kind!Goes, Kind!history, Kind!Idle
<1>3. Kind!TypeOK'
  BY <1>1, <1>2 DEF ClusterShape, Kind!TypeOK, Kind!Idle, Kind!StartSteps, Kind!StopSteps
<1>4. Placed'
  BY <1>1, <1>2 DEF ClusterShape, Placed
<1>5. Marching'
  BY <1>1, <1>2 DEF ClusterShape, Marching, PinSteps
<1>6. Emptied'
  BY <1>1, <1>2 DEF ClusterShape, Emptied, Marching, PinSteps
<1>7. ClusterStarting'
  BY <1>1, <1>2 DEF ClusterShape, ClusterStarting, Settled, Kind!StartSteps
<1>8. Attached'
  BY <1>1, <1>2 DEF ClusterShape, Attached
<1>9. ClusterKept'
  <2>1. CASE mixed'
    BY <2>1 DEF ClusterKept
  <2>2. ASSUME ~mixed'
        PROVE  /\ pin'[Control] = pin'[Worker] => pin'[Control] = 0
               /\ cmd'.at \notin PinSteps => Apart'
               /\ cmd'.at \notin PinSteps \cup {"off2", "off3"}
                    /\ ~(cmd'.at = "release" /\ Control \in cmd'.left) => Foreign'
               /\ cmd'.at \in {"cordon", "drain", "off", "off2", "off3"} \cup PinSteps => Noted'
    <3>1. /\ pin[Control] = pin[Worker] => pin[Control] = 0
          /\ cmd.at \notin PinSteps => Apart
          /\ cmd.at \notin PinSteps \cup {"off2", "off3"}
               /\ ~(cmd.at = "release" /\ Control \in cmd.left) => Foreign
          /\ cmd.at \in {"cordon", "drain", "off", "off2", "off3"} \cup PinSteps => Noted
      BY <1>1, <1>2, <2>2 DEF ClusterShape, ClusterKept
    <3>2. pin'[Control] = pin'[Worker] => pin'[Control] = 0
      BY <3>1, <1>1, <1>2 DEF ClusterShape, Apart, Noted, PinSteps, Placed, ClusterStarting
    <3>3. cmd'.at \notin PinSteps => Apart'
      BY <3>1, <1>1, <1>2 DEF ClusterShape, Apart, Noted, PinSteps, Placed, Marching,
                              ClusterStarting, Kind!StartSteps, Settled
    <3>4. cmd'.at \notin PinSteps \cup {"off2", "off3"}
            /\ ~(cmd'.at = "release" /\ Control \in cmd'.left) => Foreign'
      BY <3>1, <1>1, <1>2 DEF ClusterShape, Foreign, Noted, PinSteps, Placed, ClusterStarting,
                              Kind!StartSteps, Settled
    <3>5. cmd'.at \in {"cordon", "drain", "off", "off2", "off3"} \cup PinSteps => Noted'
      BY <3>1, <1>1, <1>2 DEF ClusterShape, Apart, Foreign, Noted, PinSteps, Placed
    <3> QED BY <3>2, <3>3, <3>4, <3>5
  <2> QED BY <2>1, <2>2 DEF ClusterKept
<1> QED BY <1>3, <1>4, <1>5, <1>6, <1>7, <1>8, <1>9 DEF ClusterInv

\* A container is taken off the network, to be pinned.
LEMMA ClusterSever ==
  ASSUME Kind!ClusterAssumption, ClusterInv,
         NEW c \in Kind!Container, Kind!Sever(c)
  PROVE  ClusterInv'
<1>1. ClusterShape /\ Kind!TypeOK /\ Placed /\ Marching /\ Emptied /\ ClusterStarting /\ Attached
        /\ ClusterKept
  BY ClusterSets
<1>2. /\ cmd.at = "sever" /\ c \in cmd.left /\ cmd'.at = "connect" /\ cmd'.left = cmd.left
      /\ cmd' = [at |-> "connect", left |-> cmd.left]
      /\ joined' = joined \ {c}
      /\ UNCHANGED <<pin, addr, file, other, cordon, net, work, held, clusterReady, severed, mixed,
         abrupt, kfaults>>
  BY <1>1 DEF ClusterShape, Kind!Sever, Kind!TypeOK, Kind!At, Kind!Goes, Kind!history, Kind!Idle
<1>3. Kind!TypeOK'
  <2>1. /\ pin' \in [Kind!Container -> Kind!Address \cup {0}]
        /\ addr' \in [Kind!Container -> Kind!Address \cup {0}]
        /\ file' \in [Kind!Container -> Kind!Address \cup {0}]
        /\ held' \in [Kind!Container -> Kind!Address \cup {0}]
    BY <1>1, <1>2 DEF ClusterShape
  <2>2. cmd' \in [at : Kind!StartSteps \cup Kind!StopSteps \cup {"none"},
        left : SUBSET Kind!Container]
    BY <1>1, <1>2 DEF ClusterShape, Kind!TypeOK, Kind!StartSteps, Kind!StopSteps
  <2>3. \A d \in Kind!Container : pin'[d] # 0 => d \in joined'
    BY <1>1, <1>2 DEF ClusterShape, Kind!TypeOK, Attached
  <2>4. /\ joined' \subseteq Kind!Container /\ cordon' \subseteq Kind!Node
        /\ net' \subseteq Kind!Node /\ work' \subseteq Kind!Node
        /\ severed' \subseteq Kind!Container
    BY <1>1, <1>2 DEF ClusterShape, Kind!TypeOK
  <2>5. other' \in Kind!Address \cup {0} /\ clusterReady' \in BOOLEAN
          /\ kfaults' \in 0..ClusterFaults
    BY <1>1, <1>2 DEF ClusterShape, Kind!TypeOK
  <2>6. abrupt' \in BOOLEAN /\ mixed' \in BOOLEAN
    BY <1>1, <1>2 DEF ClusterShape, Kind!TypeOK
  <2> QED BY <2>1, <2>2, <2>3, <2>4, <2>5, <2>6 DEF Kind!TypeOK
<1>4. Placed'
  BY <1>1, <1>2 DEF ClusterShape, Placed, Attached, Marching, PinSteps
<1>5. Marching'
  BY <1>1, <1>2 DEF ClusterShape, Marching, PinSteps
<1>6. Emptied'
  BY <1>1, <1>2 DEF ClusterShape, Emptied, Marching, PinSteps
<1>7. ClusterStarting'
  BY <1>1, <1>2 DEF ClusterShape, ClusterStarting, Settled, Kind!StartSteps
<1>8. Attached'
  BY <1>1, <1>2 DEF ClusterShape, Attached
<1>9. ClusterKept'
  BY <1>1, <1>2 DEF ClusterShape, ClusterKept, Apart, Foreign, Noted, PinSteps
<1> QED BY <1>3, <1>4, <1>5, <1>6, <1>7, <1>8, <1>9 DEF ClusterInv

\* It is attached again, at the address that was noted.
LEMMA ClusterConnect ==
  ASSUME Kind!ClusterAssumption, ClusterInv,
         NEW c \in Kind!Container, Kind!Connect(c)
  PROVE  ClusterInv'
<1>1. ClusterShape /\ Kind!TypeOK /\ Placed /\ Marching /\ Emptied /\ ClusterStarting /\ Attached
        /\ ClusterKept
  BY ClusterSets
<1>2. /\ cmd.at = "connect" /\ c \in cmd.left \ joined /\ cmd'.at = "sever"
      /\ cmd'.left = cmd.left \ {c} /\ cmd' = [at |-> "sever", left |-> cmd.left \ {c}]
      /\ joined' = joined \cup {c}
      /\ pin'[c] = held[c] /\ pin' \in [Kind!Container -> Kind!Address \cup {0}]
           /\ \A d \in Kind!Container : d # c => pin'[d] = pin[d]
      /\ UNCHANGED <<addr, file, other, cordon, net, work, held, clusterReady, severed, mixed,
         abrupt, kfaults>>
  BY <1>1 DEF ClusterShape, Kind!Connect, Kind!At, Kind!Goes, Kind!history, Kind!Idle
<1>3. Kind!TypeOK'
  BY <1>1, <1>2 DEF ClusterShape, Kind!TypeOK, Kind!Idle, Kind!StartSteps, Kind!StopSteps
<1>4. Placed'
  BY <1>1, <1>2 DEF ClusterShape, Placed
<1>5. Marching'
  BY <1>1, <1>2 DEF ClusterShape, Marching, PinSteps
<1>6. Emptied'
  BY <1>1, <1>2 DEF ClusterShape, Emptied, Marching, PinSteps
<1>7. ClusterStarting'
  BY <1>1, <1>2 DEF ClusterShape, ClusterStarting, Settled, Kind!StartSteps
<1>8. Attached'
  BY <1>1, <1>2 DEF ClusterShape, Attached
<1>9. ClusterKept'
  <2>1. CASE mixed'
    BY <2>1 DEF ClusterKept
  <2>2. ASSUME ~mixed'
        PROVE  /\ pin'[Control] = pin'[Worker] => pin'[Control] = 0
               /\ cmd'.at \notin PinSteps => Apart'
               /\ cmd'.at \notin PinSteps \cup {"off2", "off3"}
                    /\ ~(cmd'.at = "release" /\ Control \in cmd'.left) => Foreign'
               /\ cmd'.at \in {"cordon", "drain", "off", "off2", "off3"} \cup PinSteps => Noted'
    <3>1. /\ pin[Control] = pin[Worker] => pin[Control] = 0
          /\ cmd.at \notin PinSteps => Apart
          /\ cmd.at \notin PinSteps \cup {"off2", "off3"}
               /\ ~(cmd.at = "release" /\ Control \in cmd.left) => Foreign
          /\ cmd.at \in {"cordon", "drain", "off", "off2", "off3"} \cup PinSteps => Noted
      BY <1>1, <1>2, <2>2 DEF ClusterShape, ClusterKept
    <3>2. pin'[Control] = pin'[Worker] => pin'[Control] = 0
      BY <3>1, <1>1, <1>2 DEF ClusterShape, Apart, Noted, PinSteps, Placed, ClusterStarting
    <3>3. cmd'.at \notin PinSteps => Apart'
      BY <3>1, <1>1, <1>2 DEF ClusterShape, Apart, Noted, PinSteps, Placed, Marching,
                              ClusterStarting, Kind!StartSteps, Settled
    <3>4. cmd'.at \notin PinSteps \cup {"off2", "off3"}
            /\ ~(cmd'.at = "release" /\ Control \in cmd'.left) => Foreign'
      BY <3>1, <1>1, <1>2 DEF ClusterShape, Foreign, Noted, PinSteps, Placed, ClusterStarting,
                              Kind!StartSteps, Settled
    <3>5. cmd'.at \in {"cordon", "drain", "off", "off2", "off3"} \cup PinSteps => Noted'
      <4>1. Noted /\ held[c] # 0 /\ c \in Kind!Node
        <5>1. Noted
          BY <1>2, <3>1 DEF PinSteps
        <5>2. held[c] # 0
          BY <1>1, <1>2 DEF ClusterShape, Attached
        <5> QED BY <1>1, <5>1, <5>2 DEF ClusterShape, Placed
      <4>2. CASE c = Control
        <5>1. /\ pin'[Control] = held[Control] /\ pin'[Worker] = pin[Worker] /\ cmd'.at = "sever"
              /\ cmd.at = "connect"
              /\ cmd'.left = cmd.left \ {Control} /\ UNCHANGED <<held, file, addr>>
              /\ held[Control] # 0
          BY <1>1, <1>2, <4>1, <4>2 DEF ClusterShape
        <5>2. Noted
          BY <4>1
        <5> QED BY <1>1, <5>1, <5>2 DEF ClusterShape, Noted
      <4>3. CASE c = Worker
        BY <1>1, <1>2, <4>1, <4>3 DEF ClusterShape, Noted
      <4> QED BY <1>1, <4>1, <4>2, <4>3 DEF ClusterShape
    <3> QED BY <3>2, <3>3, <3>4, <3>5
  <2> QED BY <2>1, <2>2 DEF ClusterKept
<1> QED BY <1>3, <1>4, <1>5, <1>6, <1>7, <1>8, <1>9 DEF ClusterInv

\* A step over the containers is at its end.
LEMMA ClusterThen1 ==
  ASSUME Kind!ClusterAssumption, ClusterInv,
         Kind!Then("release", "record", Kind!Container)
  PROVE  ClusterInv'
<1>1. ClusterShape /\ Kind!TypeOK /\ Placed /\ Marching /\ Emptied /\ ClusterStarting /\ Attached
        /\ ClusterKept
  BY ClusterSets
<1>2. /\ cmd.at = "release" /\ cmd.left = {} /\ cmd'.at = "record" /\ cmd'.left = Kind!Container
      /\ cmd' = [at |-> "record", left |-> Kind!Container]
      /\ UNCHANGED <<joined, pin, addr, file, other, cordon, net, work, held, clusterReady,
         severed, mixed, abrupt, kfaults>>
  BY <1>1 DEF ClusterShape, Kind!Then, Kind!At, Kind!Goes, Kind!history, Kind!Idle
<1>3. Kind!TypeOK'
  BY <1>1, <1>2 DEF ClusterShape, Kind!TypeOK, Kind!Idle, Kind!StartSteps, Kind!StopSteps
<1>4. Placed'
  BY <1>1, <1>2 DEF ClusterShape, Placed
<1>5. Marching'
  BY <1>1, <1>2 DEF ClusterShape, Marching, PinSteps
<1>6. Emptied'
  BY <1>1, <1>2 DEF ClusterShape, Emptied, Marching, PinSteps
<1>7. ClusterStarting'
  BY <1>1, <1>2 DEF ClusterShape, ClusterStarting, Settled, Kind!StartSteps
<1>8. Attached'
  BY <1>1, <1>2 DEF ClusterShape, Attached
<1>9. ClusterKept'
  BY <1>1, <1>2 DEF ClusterShape, ClusterKept, Apart, Foreign, Noted, PinSteps
<1> QED BY <1>3, <1>4, <1>5, <1>6, <1>7, <1>8, <1>9 DEF ClusterInv

\* Every pin is recorded, and the containers are attached.
LEMMA ClusterThen2 ==
  ASSUME Kind!ClusterAssumption, ClusterInv,
         Kind!Then("record", "attach", Kind!Container)
  PROVE  ClusterInv'
<1>1. ClusterShape /\ Kind!TypeOK /\ Placed /\ Marching /\ Emptied /\ ClusterStarting /\ Attached
        /\ ClusterKept
  BY ClusterSets
<1>2. /\ cmd.at = "record" /\ cmd.left = {} /\ cmd'.at = "attach" /\ cmd'.left = Kind!Container
      /\ cmd' = [at |-> "attach", left |-> Kind!Container]
      /\ UNCHANGED <<joined, pin, addr, file, other, cordon, net, work, held, clusterReady,
         severed, mixed, abrupt, kfaults>>
  BY <1>1 DEF ClusterShape, Kind!Then, Kind!At, Kind!Goes, Kind!history, Kind!Idle
<1>3. Kind!TypeOK'
  BY <1>1, <1>2 DEF ClusterShape, Kind!TypeOK, Kind!Idle, Kind!StartSteps, Kind!StopSteps
<1>4. Placed'
  BY <1>1, <1>2 DEF ClusterShape, Placed
<1>5. Marching'
  BY <1>1, <1>2 DEF ClusterShape, Marching, PinSteps
<1>6. Emptied'
  BY <1>1, <1>2 DEF ClusterShape, Emptied, Marching, PinSteps
<1>7. ClusterStarting'
  BY <1>1, <1>2 DEF ClusterShape, ClusterStarting, Settled, Kind!StartSteps
<1>8. Attached'
  BY <1>1, <1>2 DEF ClusterShape, Attached
<1>9. ClusterKept'
  BY <1>1, <1>2 DEF ClusterShape, ClusterKept, Apart, Foreign, Noted, PinSteps
<1> QED BY <1>3, <1>4, <1>5, <1>6, <1>7, <1>8, <1>9 DEF ClusterInv

\* Every container is attached, and the registry comes first.
LEMMA ClusterThen3 ==
  ASSUME Kind!ClusterAssumption, ClusterInv,
         Kind!Then("attach", "registry", {})
  PROVE  ClusterInv'
<1>1. ClusterShape /\ Kind!TypeOK /\ Placed /\ Marching /\ Emptied /\ ClusterStarting /\ Attached
        /\ ClusterKept
  BY ClusterSets
<1>2. /\ cmd.at = "attach" /\ cmd.left = {} /\ cmd'.at = "registry" /\ cmd'.left = {}
      /\ cmd' = [at |-> "registry", left |-> {}]
      /\ UNCHANGED <<joined, pin, addr, file, other, cordon, net, work, held, clusterReady,
         severed, mixed, abrupt, kfaults>>
  BY <1>1 DEF ClusterShape, Kind!Then, Kind!At, Kind!Goes, Kind!history, Kind!Idle
<1>3. Kind!TypeOK'
  BY <1>1, <1>2 DEF ClusterShape, Kind!TypeOK, Kind!Idle, Kind!StartSteps, Kind!StopSteps
<1>4. Placed'
  BY <1>1, <1>2 DEF ClusterShape, Placed
<1>5. Marching'
  BY <1>1, <1>2 DEF ClusterShape, Marching, PinSteps
<1>6. Emptied'
  BY <1>1, <1>2 DEF ClusterShape, Emptied, Marching, PinSteps
<1>7. ClusterStarting'
  BY <1>1, <1>2 DEF ClusterShape, ClusterStarting, Settled, Kind!StartSteps
<1>8. Attached'
  BY <1>1, <1>2 DEF ClusterShape, Attached
<1>9. ClusterKept'
  BY <1>1, <1>2 DEF ClusterShape, ClusterKept, Apart, Foreign, Noted, PinSteps
<1> QED BY <1>3, <1>4, <1>5, <1>6, <1>7, <1>8, <1>9 DEF ClusterInv

\* What was noted is pinned, and recorded.
LEMMA ClusterThen4 ==
  ASSUME Kind!ClusterAssumption, ClusterInv,
         Kind!Then("sever", "record2", Kind!Container)
  PROVE  ClusterInv'
<1>1. ClusterShape /\ Kind!TypeOK /\ Placed /\ Marching /\ Emptied /\ ClusterStarting /\ Attached
        /\ ClusterKept
  BY ClusterSets
<1>2. /\ cmd.at = "sever" /\ cmd.left = {} /\ cmd'.at = "record2" /\ cmd'.left = Kind!Container
      /\ cmd' = [at |-> "record2", left |-> Kind!Container]
      /\ UNCHANGED <<joined, pin, addr, file, other, cordon, net, work, held, clusterReady,
         severed, mixed, abrupt, kfaults>>
  BY <1>1 DEF ClusterShape, Kind!Then, Kind!At, Kind!Goes, Kind!history, Kind!Idle
<1>3. Kind!TypeOK'
  BY <1>1, <1>2 DEF ClusterShape, Kind!TypeOK, Kind!Idle, Kind!StartSteps, Kind!StopSteps
<1>4. Placed'
  BY <1>1, <1>2 DEF ClusterShape, Placed
<1>5. Marching'
  BY <1>1, <1>2 DEF ClusterShape, Marching, PinSteps
<1>6. Emptied'
  BY <1>1, <1>2 DEF ClusterShape, Emptied, Marching, PinSteps
<1>7. ClusterStarting'
  BY <1>1, <1>2 DEF ClusterShape, ClusterStarting, Settled, Kind!StartSteps
<1>8. Attached'
  BY <1>1, <1>2 DEF ClusterShape, Attached
<1>9. ClusterKept'
  BY <1>1, <1>2 DEF ClusterShape, ClusterKept, Apart, Foreign, Noted, PinSteps
<1> QED BY <1>3, <1>4, <1>5, <1>6, <1>7, <1>8, <1>9 DEF ClusterInv

\* The mesh is there, and the worker comes up.
LEMMA ClusterThen5 ==
  ASSUME Kind!ClusterAssumption, ClusterInv,
         Kind!Then("mesh", "worker", {})
  PROVE  ClusterInv'
<1>1. ClusterShape /\ Kind!TypeOK /\ Placed /\ Marching /\ Emptied /\ ClusterStarting /\ Attached
        /\ ClusterKept
  BY ClusterSets
<1>2. /\ cmd.at = "mesh" /\ cmd.left = {} /\ cmd'.at = "worker" /\ cmd'.left = {}
      /\ cmd' = [at |-> "worker", left |-> {}]
      /\ UNCHANGED <<joined, pin, addr, file, other, cordon, net, work, held, clusterReady,
         severed, mixed, abrupt, kfaults>>
  BY <1>1 DEF ClusterShape, Kind!Then, Kind!At, Kind!Goes, Kind!history, Kind!Idle
<1>3. Kind!TypeOK'
  BY <1>1, <1>2 DEF ClusterShape, Kind!TypeOK, Kind!Idle, Kind!StartSteps, Kind!StopSteps
<1>4. Placed'
  BY <1>1, <1>2 DEF ClusterShape, Placed
<1>5. Marching'
  BY <1>1, <1>2 DEF ClusterShape, Marching, PinSteps
<1>6. Emptied'
  BY <1>1, <1>2 DEF ClusterShape, Emptied, Marching, PinSteps
<1>7. ClusterStarting'
  BY <1>1, <1>2 DEF ClusterShape, ClusterStarting, Settled, Kind!StartSteps
<1>8. Attached'
  BY <1>1, <1>2 DEF ClusterShape, Attached
<1>9. ClusterKept'
  BY <1>1, <1>2 DEF ClusterShape, ClusterKept, Apart, Foreign, Noted, PinSteps
<1> QED BY <1>3, <1>4, <1>5, <1>6, <1>7, <1>8, <1>9 DEF ClusterInv

\* The registry comes up.
LEMMA ClusterBoot1 ==
  ASSUME Kind!ClusterAssumption, ClusterInv,
         Kind!Boot(Registry, "registry", "control")
  PROVE  ClusterInv'
<1>1. ClusterShape /\ Kind!TypeOK /\ Placed /\ Marching /\ Emptied /\ ClusterStarting /\ Attached
        /\ ClusterKept
  BY ClusterSets
<1>2. /\ cmd.at = "registry" /\ cmd'.at = "control" /\ cmd'.left = {}
      /\ cmd' = [at |-> "control", left |-> {}]
      /\ UNCHANGED <<joined, pin, file, other, cordon, net, work, held, clusterReady, severed,
         mixed, abrupt, kfaults>>
  BY <1>1 DEF ClusterShape, Kind!Boot, Kind!At, Kind!Goes, Kind!history, Kind!Idle
<1>3. addr' \in [Kind!Container -> Kind!Address \cup {0}] /\ addr'[Registry] # 0
        /\ (\A d \in Kind!Container : d # Registry => addr'[d] = addr[d])
      /\ \/ addr' = addr
         \/ addr[Registry] = 0 /\ pin[Registry] \in {0, addr'[Registry]}
              /\ \A d \in Kind!Container : d # Registry => addr[d] # addr'[Registry]
  BY <1>1 DEF ClusterShape, Kind!Boot, Kind!Free, Kind!At, Kind!Goes
<1>4. Kind!TypeOK'
  BY <1>1, <1>2, <1>3 DEF ClusterShape, Kind!TypeOK, Kind!Idle, Kind!StartSteps, Kind!StopSteps
<1>5. Placed'
  <2>1. CASE addr' = addr
    BY <1>1, <1>2, <2>1 DEF ClusterShape, Placed
  <2>2. CASE addr' # addr
    <3>1. /\ \A d \in Kind!Container : addr'[d] # 0 => d \in joined /\ pin[d] \in {0, addr'[d]}
          /\ addr'[Registry] \in {0, 1}
      <4>1. joined = Kind!Container
        BY <1>1, <1>2 DEF ClusterShape, ClusterStarting, Kind!StartSteps
      <4>2. \A d \in Kind!Container : addr'[d] # 0 => pin[d] \in {0, addr'[d]}
        BY <1>1, <1>3, <2>2 DEF ClusterShape, Placed
      <4>3. addr'[Registry] # 0 => addr'[Registry] = 1
        BY <1>1, <4>2 DEF ClusterShape, Placed
      <4> QED BY <1>1, <4>1, <4>2, <4>3 DEF ClusterShape
    <3>2. addr'[Control] = addr'[Worker] => addr'[Control] = 0
      BY <1>1, <1>2, <1>3, <2>2 DEF ClusterShape, Placed
    <3>3. \A n \in Kind!Node : addr'[n] # 1
      BY <1>1, <1>2, <1>3, <2>2 DEF ClusterShape, Placed, Marching
    <3> QED BY <1>1, <1>2, <3>1, <3>2, <3>3 DEF ClusterShape, Placed
  <2> QED BY <2>1, <2>2
<1>6. Marching'
  BY <1>1, <1>2, <1>3 DEF ClusterShape, Marching, PinSteps
<1>7. Emptied'
  BY <1>1, <1>2, <1>3 DEF ClusterShape, Emptied, Marching, PinSteps
<1>8. ClusterStarting'
  BY <1>1, <1>2, <1>3 DEF ClusterShape, ClusterStarting, Settled, Kind!StartSteps
<1>9. Attached'
  BY <1>1, <1>2, <1>3 DEF ClusterShape, Attached
<1>10. ClusterKept'
  BY <1>1, <1>2, <1>3 DEF ClusterShape, ClusterKept, Apart, Foreign, Noted, PinSteps
<1> QED BY <1>4, <1>5, <1>6, <1>7, <1>8, <1>9, <1>10 DEF ClusterInv

\* The control plane comes up.
LEMMA ClusterBoot2 ==
  ASSUME Kind!ClusterAssumption, ClusterInv,
         Kind!Boot(Control, "control", "network")
  PROVE  ClusterInv'
<1>1. ClusterShape /\ Kind!TypeOK /\ Placed /\ Marching /\ Emptied /\ ClusterStarting /\ Attached
        /\ ClusterKept
  BY ClusterSets
<1>2. /\ cmd.at = "control" /\ cmd'.at = "network" /\ cmd'.left = {}
      /\ cmd' = [at |-> "network", left |-> {}]
      /\ UNCHANGED <<joined, pin, file, other, cordon, net, work, held, clusterReady, severed,
         mixed, abrupt, kfaults>>
  BY <1>1 DEF ClusterShape, Kind!Boot, Kind!At, Kind!Goes, Kind!history, Kind!Idle
<1>3. addr' \in [Kind!Container -> Kind!Address \cup {0}] /\ addr'[Control] # 0
        /\ (\A d \in Kind!Container : d # Control => addr'[d] = addr[d])
      /\ \/ addr' = addr
         \/ addr[Control] = 0 /\ pin[Control] \in {0, addr'[Control]}
              /\ \A d \in Kind!Container : d # Control => addr[d] # addr'[Control]
  BY <1>1 DEF ClusterShape, Kind!Boot, Kind!Free, Kind!At, Kind!Goes
<1>4. Kind!TypeOK'
  BY <1>1, <1>2, <1>3 DEF ClusterShape, Kind!TypeOK, Kind!Idle, Kind!StartSteps, Kind!StopSteps
<1>5. Placed'
  <2>1. CASE addr' = addr
    BY <1>1, <1>2, <2>1 DEF ClusterShape, Placed
  <2>2. CASE addr' # addr
    <3>1. /\ \A d \in Kind!Container : addr'[d] # 0 => d \in joined /\ pin[d] \in {0, addr'[d]}
          /\ addr'[Registry] \in {0, 1}
      <4>1. joined = Kind!Container
        BY <1>1, <1>2 DEF ClusterShape, ClusterStarting, Kind!StartSteps
      <4>2. \A d \in Kind!Container : addr'[d] # 0 => pin[d] \in {0, addr'[d]}
        BY <1>1, <1>3, <2>2 DEF ClusterShape, Placed
      <4>3. addr'[Registry] # 0 => addr'[Registry] = 1
        BY <1>1, <4>2 DEF ClusterShape, Placed
      <4> QED BY <1>1, <4>1, <4>2, <4>3 DEF ClusterShape
    <3>2. addr'[Control] = addr'[Worker] => addr'[Control] = 0
      BY <1>1, <1>2, <1>3, <2>2 DEF ClusterShape, Placed
    <3>3. \A n \in Kind!Node : addr'[n] # 1
      BY <1>1, <1>2, <1>3, <2>2 DEF ClusterShape, Placed, Marching
    <3> QED BY <1>1, <1>2, <3>1, <3>2, <3>3 DEF ClusterShape, Placed
  <2> QED BY <2>1, <2>2
<1>6. Marching'
  BY <1>1, <1>2, <1>3 DEF ClusterShape, Marching, PinSteps
<1>7. Emptied'
  BY <1>1, <1>2, <1>3 DEF ClusterShape, Emptied, Marching, PinSteps
<1>8. ClusterStarting'
  BY <1>1, <1>2, <1>3 DEF ClusterShape, ClusterStarting, Settled, Kind!StartSteps
<1>9. Attached'
  BY <1>1, <1>2, <1>3 DEF ClusterShape, Attached
<1>10. ClusterKept'
  <2>1. CASE mixed'
    BY <2>1 DEF ClusterKept
  <2>2. ASSUME ~mixed'
        PROVE  /\ pin'[Control] = pin'[Worker] => pin'[Control] = 0
               /\ cmd'.at \notin PinSteps => Apart'
               /\ cmd'.at \notin PinSteps \cup {"off2", "off3"}
                    /\ ~(cmd'.at = "release" /\ Control \in cmd'.left) => Foreign'
               /\ cmd'.at \in {"cordon", "drain", "off", "off2", "off3"} \cup PinSteps => Noted'
    <3>1. /\ pin[Control] = pin[Worker] => pin[Control] = 0
          /\ cmd.at \notin PinSteps => Apart
          /\ cmd.at \notin PinSteps \cup {"off2", "off3"}
               /\ ~(cmd.at = "release" /\ Control \in cmd.left) => Foreign
          /\ cmd.at \in {"cordon", "drain", "off", "off2", "off3"} \cup PinSteps => Noted
      BY <1>1, <1>2, <1>3, <2>2 DEF ClusterShape, ClusterKept
    <3>2. pin'[Control] = pin'[Worker] => pin'[Control] = 0
      BY <3>1, <1>1, <1>2, <1>3 DEF ClusterShape, Apart, Noted, PinSteps, Placed, ClusterStarting
    <3>3. cmd'.at \notin PinSteps => Apart'
      BY <3>1, <1>1, <1>2, <1>3 DEF ClusterShape, Apart, Noted, PinSteps, Placed, Marching,
                                    ClusterStarting, Kind!StartSteps, Settled
    <3>4. cmd'.at \notin PinSteps \cup {"off2", "off3"}
            /\ ~(cmd'.at = "release" /\ Control \in cmd'.left) => Foreign'
      BY <3>1, <1>1, <1>2, <1>3 DEF ClusterShape, Foreign, Noted, PinSteps, Placed,
                                    ClusterStarting, Kind!StartSteps, Settled
    <3>5. cmd'.at \in {"cordon", "drain", "off", "off2", "off3"} \cup PinSteps => Noted'
      BY <3>1, <1>1, <1>2, <1>3 DEF ClusterShape, Apart, Foreign, Noted, PinSteps, Placed
    <3> QED BY <3>2, <3>3, <3>4, <3>5
  <2> QED BY <2>1, <2>2 DEF ClusterKept
<1> QED BY <1>4, <1>5, <1>6, <1>7, <1>8, <1>9, <1>10 DEF ClusterInv

\* The worker comes up.
LEMMA ClusterBoot3 ==
  ASSUME Kind!ClusterAssumption, ClusterInv,
         Kind!Boot(Worker, "worker", "network2")
  PROVE  ClusterInv'
<1>1. ClusterShape /\ Kind!TypeOK /\ Placed /\ Marching /\ Emptied /\ ClusterStarting /\ Attached
        /\ ClusterKept
  BY ClusterSets
<1>2. /\ cmd.at = "worker" /\ cmd'.at = "network2" /\ cmd'.left = {}
      /\ cmd' = [at |-> "network2", left |-> {}]
      /\ UNCHANGED <<joined, pin, file, other, cordon, net, work, held, clusterReady, severed,
         mixed, abrupt, kfaults>>
  BY <1>1 DEF ClusterShape, Kind!Boot, Kind!At, Kind!Goes, Kind!history, Kind!Idle
<1>3. addr' \in [Kind!Container -> Kind!Address \cup {0}] /\ addr'[Worker] # 0
        /\ (\A d \in Kind!Container : d # Worker => addr'[d] = addr[d])
      /\ \/ addr' = addr
         \/ addr[Worker] = 0 /\ pin[Worker] \in {0, addr'[Worker]}
              /\ \A d \in Kind!Container : d # Worker => addr[d] # addr'[Worker]
  BY <1>1 DEF ClusterShape, Kind!Boot, Kind!Free, Kind!At, Kind!Goes
<1>4. Kind!TypeOK'
  BY <1>1, <1>2, <1>3 DEF ClusterShape, Kind!TypeOK, Kind!Idle, Kind!StartSteps, Kind!StopSteps
<1>5. Placed'
  <2>1. CASE addr' = addr
    BY <1>1, <1>2, <2>1 DEF ClusterShape, Placed
  <2>2. CASE addr' # addr
    <3>1. /\ \A d \in Kind!Container : addr'[d] # 0 => d \in joined /\ pin[d] \in {0, addr'[d]}
          /\ addr'[Registry] \in {0, 1}
      <4>1. joined = Kind!Container
        BY <1>1, <1>2 DEF ClusterShape, ClusterStarting, Kind!StartSteps
      <4>2. \A d \in Kind!Container : addr'[d] # 0 => pin[d] \in {0, addr'[d]}
        BY <1>1, <1>3, <2>2 DEF ClusterShape, Placed
      <4>3. addr'[Registry] # 0 => addr'[Registry] = 1
        BY <1>1, <4>2 DEF ClusterShape, Placed
      <4> QED BY <1>1, <4>1, <4>2, <4>3 DEF ClusterShape
    <3>2. addr'[Control] = addr'[Worker] => addr'[Control] = 0
      BY <1>1, <1>2, <1>3, <2>2 DEF ClusterShape, Placed
    <3>3. \A n \in Kind!Node : addr'[n] # 1
      BY <1>1, <1>2, <1>3, <2>2 DEF ClusterShape, Placed, Marching
    <3> QED BY <1>1, <1>2, <3>1, <3>2, <3>3 DEF ClusterShape, Placed
  <2> QED BY <2>1, <2>2
<1>6. Marching'
  BY <1>1, <1>2, <1>3 DEF ClusterShape, Marching, PinSteps
<1>7. Emptied'
  BY <1>1, <1>2, <1>3 DEF ClusterShape, Emptied, Marching, PinSteps
<1>8. ClusterStarting'
  BY <1>1, <1>2, <1>3 DEF ClusterShape, ClusterStarting, Settled, Kind!StartSteps
<1>9. Attached'
  BY <1>1, <1>2, <1>3 DEF ClusterShape, Attached
<1>10. ClusterKept'
  <2>1. CASE mixed'
    BY <2>1 DEF ClusterKept
  <2>2. ASSUME ~mixed'
        PROVE  /\ pin'[Control] = pin'[Worker] => pin'[Control] = 0
               /\ cmd'.at \notin PinSteps => Apart'
               /\ cmd'.at \notin PinSteps \cup {"off2", "off3"}
                    /\ ~(cmd'.at = "release" /\ Control \in cmd'.left) => Foreign'
               /\ cmd'.at \in {"cordon", "drain", "off", "off2", "off3"} \cup PinSteps => Noted'
    <3>1. /\ pin[Control] = pin[Worker] => pin[Control] = 0
          /\ cmd.at \notin PinSteps => Apart
          /\ cmd.at \notin PinSteps \cup {"off2", "off3"}
               /\ ~(cmd.at = "release" /\ Control \in cmd.left) => Foreign
          /\ cmd.at \in {"cordon", "drain", "off", "off2", "off3"} \cup PinSteps => Noted
      BY <1>1, <1>2, <1>3, <2>2 DEF ClusterShape, ClusterKept
    <3>2. pin'[Control] = pin'[Worker] => pin'[Control] = 0
      BY <3>1, <1>1, <1>2, <1>3 DEF ClusterShape, Apart, Noted, PinSteps, Placed, ClusterStarting
    <3>3. cmd'.at \notin PinSteps => Apart'
      BY <3>1, <1>1, <1>2, <1>3 DEF ClusterShape, Apart, Noted, PinSteps, Placed, Marching,
                                    ClusterStarting, Kind!StartSteps, Settled
    <3>4. cmd'.at \notin PinSteps \cup {"off2", "off3"}
            /\ ~(cmd'.at = "release" /\ Control \in cmd'.left) => Foreign'
      BY <3>1, <1>1, <1>2, <1>3 DEF ClusterShape, Foreign, Noted, PinSteps, Placed,
                                    ClusterStarting, Kind!StartSteps, Settled
    <3>5. cmd'.at \in {"cordon", "drain", "off", "off2", "off3"} \cup PinSteps => Noted'
      BY <3>1, <1>1, <1>2, <1>3 DEF ClusterShape, Apart, Foreign, Noted, PinSteps, Placed
    <3> QED BY <3>2, <3>3, <3>4, <3>5
  <2> QED BY <2>1, <2>2 DEF ClusterKept
<1> QED BY <1>4, <1>5, <1>6, <1>7, <1>8, <1>9, <1>10 DEF ClusterInv

\* The network of the control plane is there.
LEMMA ClusterAwait1 ==
  ASSUME Kind!ClusterAssumption, ClusterInv,
         Kind!AwaitNetwork(Control, "network", "open")
  PROVE  ClusterInv'
<1>1. ClusterShape /\ Kind!TypeOK /\ Placed /\ Marching /\ Emptied /\ ClusterStarting /\ Attached
        /\ ClusterKept
  BY ClusterSets
<1>2. /\ cmd.at = "network" /\ cmd'.at = "open" /\ cmd'.left = {}
      /\ cmd' = [at |-> "open", left |-> {}] /\ net' = net \cup {Control}
      /\ UNCHANGED <<joined, pin, addr, file, other, cordon, work, held, clusterReady, severed,
         mixed, abrupt, kfaults>>
  BY <1>1 DEF ClusterShape, Kind!AwaitNetwork, Kind!At, Kind!Goes, Kind!history, Kind!Idle
<1>3. Kind!TypeOK'
  BY <1>1, <1>2 DEF ClusterShape, Kind!TypeOK, Kind!Idle, Kind!StartSteps, Kind!StopSteps
<1>4. Placed'
  BY <1>1, <1>2 DEF ClusterShape, Placed
<1>5. Marching'
  BY <1>1, <1>2 DEF ClusterShape, Marching, PinSteps
<1>6. Emptied'
  BY <1>1, <1>2 DEF ClusterShape, Emptied, Marching, PinSteps
<1>7. ClusterStarting'
  BY <1>1, <1>2 DEF ClusterShape, ClusterStarting, Settled, Kind!StartSteps
<1>8. Attached'
  BY <1>1, <1>2 DEF ClusterShape, Attached
<1>9. ClusterKept'
  BY <1>1, <1>2 DEF ClusterShape, ClusterKept, Apart, Foreign, Noted, PinSteps
<1> QED BY <1>3, <1>4, <1>5, <1>6, <1>7, <1>8, <1>9 DEF ClusterInv

\* The network of the worker is there.
LEMMA ClusterAwait2 ==
  ASSUME Kind!ClusterAssumption, ClusterInv,
         Kind!AwaitNetwork(Worker, "network2", "open2")
  PROVE  ClusterInv'
<1>1. ClusterShape /\ Kind!TypeOK /\ Placed /\ Marching /\ Emptied /\ ClusterStarting /\ Attached
        /\ ClusterKept
  BY ClusterSets
<1>2. /\ cmd.at = "network2" /\ cmd'.at = "open2" /\ cmd'.left = {}
      /\ cmd' = [at |-> "open2", left |-> {}] /\ net' = net \cup {Worker}
      /\ UNCHANGED <<joined, pin, addr, file, other, cordon, work, held, clusterReady, severed,
         mixed, abrupt, kfaults>>
  BY <1>1 DEF ClusterShape, Kind!AwaitNetwork, Kind!At, Kind!Goes, Kind!history, Kind!Idle
<1>3. Kind!TypeOK'
  BY <1>1, <1>2 DEF ClusterShape, Kind!TypeOK, Kind!Idle, Kind!StartSteps, Kind!StopSteps
<1>4. Placed'
  BY <1>1, <1>2 DEF ClusterShape, Placed
<1>5. Marching'
  BY <1>1, <1>2 DEF ClusterShape, Marching, PinSteps
<1>6. Emptied'
  BY <1>1, <1>2 DEF ClusterShape, Emptied, Marching, PinSteps
<1>7. ClusterStarting'
  BY <1>1, <1>2 DEF ClusterShape, ClusterStarting, Settled, Kind!StartSteps
<1>8. Attached'
  BY <1>1, <1>2 DEF ClusterShape, Attached
<1>9. ClusterKept'
  BY <1>1, <1>2 DEF ClusterShape, ClusterKept, Apart, Foreign, Noted, PinSteps
<1> QED BY <1>3, <1>4, <1>5, <1>6, <1>7, <1>8, <1>9 DEF ClusterInv

\* The control plane takes work.
LEMMA ClusterOpen1 ==
  ASSUME Kind!ClusterAssumption, ClusterInv,
         Kind!Open(Control, "open", "mesh")
  PROVE  ClusterInv'
<1>1. ClusterShape /\ Kind!TypeOK /\ Placed /\ Marching /\ Emptied /\ ClusterStarting /\ Attached
        /\ ClusterKept
  BY ClusterSets
<1>2. /\ cmd.at = "open" /\ cmd'.at = "mesh" /\ cmd'.left = {}
      /\ cmd' = [at |-> "mesh", left |-> {}] /\ cordon' = cordon \ {Control}
      /\ work' = work \cup {Control} /\ clusterReady' = FALSE
      /\ UNCHANGED <<joined, pin, addr, file, other, net, held, severed, mixed, abrupt, kfaults>>
  BY <1>1 DEF ClusterShape, Kind!Open, Kind!At, Kind!Goes, Kind!history, Kind!Idle
<1>3. Kind!TypeOK'
  <2>1. /\ pin' \in [Kind!Container -> Kind!Address \cup {0}]
        /\ addr' \in [Kind!Container -> Kind!Address \cup {0}]
        /\ file' \in [Kind!Container -> Kind!Address \cup {0}]
        /\ held' \in [Kind!Container -> Kind!Address \cup {0}]
    BY <1>1, <1>2 DEF ClusterShape
  <2>2. cmd' \in [at : Kind!StartSteps \cup Kind!StopSteps \cup {"none"},
        left : SUBSET Kind!Container]
    BY <1>1, <1>2 DEF ClusterShape, Kind!TypeOK, Kind!StartSteps, Kind!StopSteps
  <2>3. \A d \in Kind!Container : pin'[d] # 0 => d \in joined'
    BY <1>1, <1>2 DEF ClusterShape, Kind!TypeOK
  <2>4. /\ joined' \subseteq Kind!Container /\ cordon' \subseteq Kind!Node
        /\ net' \subseteq Kind!Node /\ work' \subseteq Kind!Node
        /\ severed' \subseteq Kind!Container
    BY <1>1, <1>2 DEF ClusterShape, Kind!TypeOK
  <2>5. other' \in Kind!Address \cup {0} /\ clusterReady' \in BOOLEAN
          /\ kfaults' \in 0..ClusterFaults
    BY <1>1, <1>2 DEF ClusterShape, Kind!TypeOK
  <2>6. abrupt' \in BOOLEAN /\ mixed' \in BOOLEAN
    BY <1>1, <1>2 DEF ClusterShape, Kind!TypeOK
  <2> QED BY <2>1, <2>2, <2>3, <2>4, <2>5, <2>6 DEF Kind!TypeOK
<1>4. Placed'
  BY <1>1, <1>2 DEF ClusterShape, Placed
<1>5. Marching'
  BY <1>1, <1>2 DEF ClusterShape, Marching, PinSteps
<1>6. Emptied'
  <2>1. CASE abrupt'
    BY <2>1 DEF Emptied
  <2>2. ASSUME ~abrupt', NEW n \in Kind!Node
        PROVE  IF addr'[n] = 0 THEN n \in cordon' \ work' ELSE n \in net' \cup cordon'
    <3>1. ~abrupt => IF addr[n] = 0 THEN n \in cordon \ work ELSE n \in net \cup cordon
      BY <1>1 DEF ClusterShape, Emptied
    <3> QED BY <1>1, <1>2, <2>2, <3>1 DEF ClusterShape, Marching, PinSteps
  <2> QED BY <2>1, <2>2 DEF Emptied
<1>7. ClusterStarting'
  BY <1>1, <1>2 DEF ClusterShape, ClusterStarting, Settled, Kind!StartSteps, Placed, Marching
<1>8. Attached'
  BY <1>1, <1>2 DEF ClusterShape, Attached
<1>9. ClusterKept'
  BY <1>1, <1>2 DEF ClusterShape, ClusterKept, Apart, Foreign, Noted, PinSteps
<1> QED BY <1>3, <1>4, <1>5, <1>6, <1>7, <1>8, <1>9 DEF ClusterInv

\* The worker takes work.
LEMMA ClusterOpen2 ==
  ASSUME Kind!ClusterAssumption, ClusterInv,
         Kind!Open(Worker, "open2", "none")
  PROVE  ClusterInv'
<1>1. ClusterShape /\ Kind!TypeOK /\ Placed /\ Marching /\ Emptied /\ ClusterStarting /\ Attached
        /\ ClusterKept
  BY ClusterSets
<1>2. /\ cmd.at = "open2" /\ cmd'.at = "none" /\ cmd'.left = {}
      /\ cmd' = [at |-> "none", left |-> {}] /\ cordon' = cordon \ {Worker}
      /\ work' = work \cup {Worker} /\ clusterReady' = TRUE
      /\ UNCHANGED <<joined, pin, addr, file, other, net, held, severed, mixed, abrupt, kfaults>>
  BY <1>1 DEF ClusterShape, Kind!Open, Kind!At, Kind!Goes, Kind!history, Kind!Idle
<1>3. Kind!TypeOK'
  BY <1>1, <1>2 DEF ClusterShape, Kind!TypeOK, Kind!Idle, Kind!StartSteps, Kind!StopSteps
<1>4. Placed'
  BY <1>1, <1>2 DEF ClusterShape, Placed
<1>5. Marching'
  BY <1>1, <1>2 DEF ClusterShape, Marching, PinSteps
<1>6. Emptied'
  <2>1. CASE abrupt'
    BY <2>1 DEF Emptied
  <2>2. ASSUME ~abrupt', NEW n \in Kind!Node
        PROVE  IF addr'[n] = 0 THEN n \in cordon' \ work' ELSE n \in net' \cup cordon'
    <3>1. ~abrupt => IF addr[n] = 0 THEN n \in cordon \ work ELSE n \in net \cup cordon
      BY <1>1 DEF ClusterShape, Emptied
    <3> QED BY <1>1, <1>2, <2>2, <3>1 DEF ClusterShape, Marching, PinSteps
  <2> QED BY <2>1, <2>2 DEF Emptied
<1>7. ClusterStarting'
  BY <1>1, <1>2 DEF ClusterShape, ClusterStarting, Settled, Kind!StartSteps, Placed, Marching
<1>8. Attached'
  BY <1>1, <1>2 DEF ClusterShape, Attached
<1>9. ClusterKept'
  BY <1>1, <1>2 DEF ClusterShape, ClusterKept, Apart, Foreign, Noted, PinSteps
<1> QED BY <1>3, <1>4, <1>5, <1>6, <1>7, <1>8, <1>9 DEF ClusterInv

\* stop notes the addresses of what has no pin.
LEMMA ClusterNote ==
  ASSUME Kind!ClusterAssumption, ClusterInv,
         Kind!Note
  PROVE  ClusterInv'
<1>1. ClusterShape /\ Kind!TypeOK /\ Placed /\ Marching /\ Emptied /\ ClusterStarting /\ Attached
        /\ ClusterKept
  BY ClusterSets
<1>2. /\ cmd.at = "note" /\ cmd'.at = "cordon" /\ cmd'.left = {}
      /\ cmd' = [at |-> "cordon", left |-> {}]
      /\ held' \in [Kind!Container -> Kind!Address \cup {0}]
      /\ \A c \in Kind!Container : held'[c] = IF pin[c] = 0 THEN addr[c] ELSE 0
      /\ UNCHANGED <<joined, pin, addr, file, other, cordon, net, work, clusterReady, severed,
         mixed, abrupt, kfaults>>
  BY <1>1 DEF ClusterShape, Kind!Note, Kind!At, Kind!Goes, Kind!history, Kind!Idle
<1>3. Kind!TypeOK'
  BY <1>1, <1>2 DEF ClusterShape, Kind!TypeOK, Kind!Idle, Kind!StartSteps, Kind!StopSteps
<1>4. Placed'
  BY <1>1, <1>2 DEF ClusterShape, Placed
<1>5. Marching'
  BY <1>1, <1>2 DEF ClusterShape, Marching, PinSteps
<1>6. Emptied'
  BY <1>1, <1>2 DEF ClusterShape, Emptied, Marching, PinSteps
<1>7. ClusterStarting'
  BY <1>1, <1>2 DEF ClusterShape, ClusterStarting, Settled, Kind!StartSteps
<1>8. Attached'
  BY <1>1, <1>2 DEF ClusterShape, Attached, Placed
<1>9. ClusterKept'
  <2>1. CASE mixed'
    BY <2>1 DEF ClusterKept
  <2>2. ASSUME ~mixed'
        PROVE  /\ pin'[Control] = pin'[Worker] => pin'[Control] = 0
               /\ cmd'.at \notin PinSteps => Apart'
               /\ cmd'.at \notin PinSteps \cup {"off2", "off3"}
                    /\ ~(cmd'.at = "release" /\ Control \in cmd'.left) => Foreign'
               /\ cmd'.at \in {"cordon", "drain", "off", "off2", "off3"} \cup PinSteps => Noted'
    <3>1. /\ pin[Control] = pin[Worker] => pin[Control] = 0
          /\ cmd.at \notin PinSteps => Apart
          /\ cmd.at \notin PinSteps \cup {"off2", "off3"}
               /\ ~(cmd.at = "release" /\ Control \in cmd.left) => Foreign
          /\ cmd.at \in {"cordon", "drain", "off", "off2", "off3"} \cup PinSteps => Noted
      BY <1>1, <1>2, <2>2 DEF ClusterShape, ClusterKept
    <3>2. pin'[Control] = pin'[Worker] => pin'[Control] = 0
      BY <3>1, <1>1, <1>2 DEF ClusterShape, Apart, Noted, PinSteps, Placed, ClusterStarting
    <3>3. cmd'.at \notin PinSteps => Apart'
      BY <3>1, <1>1, <1>2 DEF ClusterShape, Apart, Noted, PinSteps, Placed, Marching,
                              ClusterStarting, Kind!StartSteps, Settled
    <3>4. cmd'.at \notin PinSteps \cup {"off2", "off3"}
            /\ ~(cmd'.at = "release" /\ Control \in cmd'.left) => Foreign'
      BY <3>1, <1>1, <1>2 DEF ClusterShape, Foreign, Noted, PinSteps, Placed, ClusterStarting,
                              Kind!StartSteps, Settled
    <3>5. cmd'.at \in {"cordon", "drain", "off", "off2", "off3"} \cup PinSteps => Noted'
      BY <3>1, <1>1, <1>2 DEF ClusterShape, Apart, Foreign, Noted, PinSteps, Placed
    <3> QED BY <3>2, <3>3, <3>4, <3>5
  <2> QED BY <2>1, <2>2 DEF ClusterKept
<1> QED BY <1>3, <1>4, <1>5, <1>6, <1>7, <1>8, <1>9 DEF ClusterInv

\* stop keeps new work off the worker.
LEMMA ClusterCordon ==
  ASSUME Kind!ClusterAssumption, ClusterInv,
         Kind!Cordon
  PROVE  ClusterInv'
<1>1. ClusterShape /\ Kind!TypeOK /\ Placed /\ Marching /\ Emptied /\ ClusterStarting /\ Attached
        /\ ClusterKept
  BY ClusterSets
<1>2. /\ cmd.at = "cordon" /\ addr[Control] # 0 /\ cmd'.at = "drain" /\ cmd'.left = {}
      /\ cmd' = [at |-> "drain", left |-> {}] /\ cordon' = Kind!Node
      /\ UNCHANGED <<joined, pin, addr, file, other, net, work, held, clusterReady, severed, mixed,
         abrupt, kfaults>>
  BY <1>1 DEF ClusterShape, Kind!Cordon, Kind!Answers, Kind!At, Kind!Goes, Kind!history, Kind!Idle
<1>3. Kind!TypeOK'
  BY <1>1, <1>2 DEF ClusterShape, Kind!TypeOK, Kind!Idle, Kind!StartSteps, Kind!StopSteps
<1>4. Placed'
  BY <1>1, <1>2 DEF ClusterShape, Placed
<1>5. Marching'
  BY <1>1, <1>2 DEF ClusterShape, Marching, PinSteps
<1>6. Emptied'
  BY <1>1, <1>2 DEF ClusterShape, Emptied, Marching, PinSteps
<1>7. ClusterStarting'
  BY <1>1, <1>2 DEF ClusterShape, ClusterStarting, Settled, Kind!StartSteps
<1>8. Attached'
  BY <1>1, <1>2 DEF ClusterShape, Attached
<1>9. ClusterKept'
  BY <1>1, <1>2 DEF ClusterShape, ClusterKept, Apart, Foreign, Noted, PinSteps
<1> QED BY <1>3, <1>4, <1>5, <1>6, <1>7, <1>8, <1>9 DEF ClusterInv

\* stop moves the work off it.
LEMMA ClusterDrain ==
  ASSUME Kind!ClusterAssumption, ClusterInv,
         Kind!Drain
  PROVE  ClusterInv'
<1>1. ClusterShape /\ Kind!TypeOK /\ Placed /\ Marching /\ Emptied /\ ClusterStarting /\ Attached
        /\ ClusterKept
  BY ClusterSets
<1>2. /\ cmd.at = "drain" /\ cmd'.at = "off" /\ cmd'.left = {}
      /\ cmd' = [at |-> "off", left |-> {}] /\ work' = {}
      /\ UNCHANGED <<joined, pin, addr, file, other, cordon, net, held, clusterReady, severed,
         mixed, abrupt, kfaults>>
  BY <1>1 DEF ClusterShape, Kind!Drain, Kind!Answers, Kind!At, Kind!Goes, Kind!history, Kind!Idle
<1>3. Kind!TypeOK'
  BY <1>1, <1>2 DEF ClusterShape, Kind!TypeOK, Kind!Idle, Kind!StartSteps, Kind!StopSteps
<1>4. Placed'
  BY <1>1, <1>2 DEF ClusterShape, Placed
<1>5. Marching'
  BY <1>1, <1>2 DEF ClusterShape, Marching, PinSteps
<1>6. Emptied'
  BY <1>1, <1>2 DEF ClusterShape, Emptied, Marching, PinSteps
<1>7. ClusterStarting'
  BY <1>1, <1>2 DEF ClusterShape, ClusterStarting, Settled, Kind!StartSteps
<1>8. Attached'
  BY <1>1, <1>2 DEF ClusterShape, Attached
<1>9. ClusterKept'
  BY <1>1, <1>2 DEF ClusterShape, ClusterKept, Apart, Foreign, Noted, PinSteps
<1> QED BY <1>3, <1>4, <1>5, <1>6, <1>7, <1>8, <1>9 DEF ClusterInv

\* The worker is stopped first.
LEMMA ClusterOff1 ==
  ASSUME Kind!ClusterAssumption, ClusterInv,
         Kind!PowerOff(Worker, "off", "off2", {})
  PROVE  ClusterInv'
<1>1. ClusterShape /\ Kind!TypeOK /\ Placed /\ Marching /\ Emptied /\ ClusterStarting /\ Attached
        /\ ClusterKept
  BY ClusterSets
<1>2. /\ cmd.at = "off" /\ cmd'.at = "off2" /\ cmd'.left = {}
      /\ cmd' = [at |-> "off2", left |-> {}] /\ net' = net \ {Worker}
      /\ addr'[Worker] = 0 /\ addr' \in [Kind!Container -> Kind!Address \cup {0}]
           /\ \A d \in Kind!Container : d # Worker => addr'[d] = addr[d]
      /\ UNCHANGED <<joined, pin, file, other, cordon, work, held, clusterReady, severed, mixed,
         abrupt, kfaults>>
  BY <1>1 DEF ClusterShape, Kind!PowerOff, Kind!At, Kind!Goes, Kind!history, Kind!Idle
<1>3. Kind!TypeOK'
  BY <1>1, <1>2 DEF ClusterShape, Kind!TypeOK, Kind!Idle, Kind!StartSteps, Kind!StopSteps
<1>4. Placed'
  BY <1>1, <1>2 DEF ClusterShape, Placed
<1>5. Marching'
  BY <1>1, <1>2 DEF ClusterShape, Marching, PinSteps
<1>6. Emptied'
  <2>1. CASE abrupt'
    BY <2>1 DEF Emptied
  <2>2. ASSUME ~abrupt', NEW n \in Kind!Node
        PROVE  IF addr'[n] = 0 THEN n \in cordon' \ work' ELSE n \in net' \cup cordon'
    <3>1. ~abrupt => IF addr[n] = 0 THEN n \in cordon \ work ELSE n \in net \cup cordon
      BY <1>1 DEF ClusterShape, Emptied
    <3> QED BY <1>1, <1>2, <2>2, <3>1 DEF ClusterShape, Marching, PinSteps
  <2> QED BY <2>1, <2>2 DEF Emptied
<1>7. ClusterStarting'
  BY <1>1, <1>2 DEF ClusterShape, ClusterStarting, Settled, Kind!StartSteps
<1>8. Attached'
  BY <1>1, <1>2 DEF ClusterShape, Attached
<1>9. ClusterKept'
  BY <1>1, <1>2 DEF ClusterShape, ClusterKept, Apart, Foreign, Noted, PinSteps
<1> QED BY <1>3, <1>4, <1>5, <1>6, <1>7, <1>8, <1>9 DEF ClusterInv

\* The control plane is stopped.
LEMMA ClusterOff2 ==
  ASSUME Kind!ClusterAssumption, ClusterInv,
         Kind!PowerOff(Control, "off2", "off3", {})
  PROVE  ClusterInv'
<1>1. ClusterShape /\ Kind!TypeOK /\ Placed /\ Marching /\ Emptied /\ ClusterStarting /\ Attached
        /\ ClusterKept
  BY ClusterSets
<1>2. /\ cmd.at = "off2" /\ cmd'.at = "off3" /\ cmd'.left = {}
      /\ cmd' = [at |-> "off3", left |-> {}] /\ net' = net \ {Control}
      /\ addr'[Control] = 0 /\ addr' \in [Kind!Container -> Kind!Address \cup {0}]
           /\ \A d \in Kind!Container : d # Control => addr'[d] = addr[d]
      /\ UNCHANGED <<joined, pin, file, other, cordon, work, held, clusterReady, severed, mixed,
         abrupt, kfaults>>
  BY <1>1 DEF ClusterShape, Kind!PowerOff, Kind!At, Kind!Goes, Kind!history, Kind!Idle
<1>3. Kind!TypeOK'
  BY <1>1, <1>2 DEF ClusterShape, Kind!TypeOK, Kind!Idle, Kind!StartSteps, Kind!StopSteps
<1>4. Placed'
  BY <1>1, <1>2 DEF ClusterShape, Placed
<1>5. Marching'
  BY <1>1, <1>2 DEF ClusterShape, Marching, PinSteps
<1>6. Emptied'
  <2>1. CASE abrupt'
    BY <2>1 DEF Emptied
  <2>2. ASSUME ~abrupt', NEW n \in Kind!Node
        PROVE  IF addr'[n] = 0 THEN n \in cordon' \ work' ELSE n \in net' \cup cordon'
    <3>1. ~abrupt => IF addr[n] = 0 THEN n \in cordon \ work ELSE n \in net \cup cordon
      BY <1>1 DEF ClusterShape, Emptied
    <3> QED BY <1>1, <1>2, <2>2, <3>1 DEF ClusterShape, Marching, PinSteps
  <2> QED BY <2>1, <2>2 DEF Emptied
<1>7. ClusterStarting'
  BY <1>1, <1>2 DEF ClusterShape, ClusterStarting, Settled, Kind!StartSteps
<1>8. Attached'
  BY <1>1, <1>2 DEF ClusterShape, Attached
<1>9. ClusterKept'
  BY <1>1, <1>2 DEF ClusterShape, ClusterKept, Apart, Foreign, Noted, PinSteps
<1> QED BY <1>3, <1>4, <1>5, <1>6, <1>7, <1>8, <1>9 DEF ClusterInv

\* The registry is stopped last.
LEMMA ClusterOff3 ==
  ASSUME Kind!ClusterAssumption, ClusterInv,
         Kind!PowerOff(Registry, "off3", "sever", Kind!Unpinned)
  PROVE  ClusterInv'
<1>1. ClusterShape /\ Kind!TypeOK /\ Placed /\ Marching /\ Emptied /\ ClusterStarting /\ Attached
        /\ ClusterKept
  BY ClusterSets
<1>2. /\ cmd.at = "off3" /\ cmd'.at = "sever" /\ cmd'.left = {c \in Kind!Container : held[c] # 0}
      /\ cmd' = [at |-> "sever", left |-> {c \in Kind!Container : held[c] # 0}]
      /\ net' = net \ {Registry}
      /\ addr'[Registry] = 0 /\ addr' \in [Kind!Container -> Kind!Address \cup {0}]
           /\ \A d \in Kind!Container : d # Registry => addr'[d] = addr[d]
      /\ UNCHANGED <<joined, pin, file, other, cordon, work, held, clusterReady, severed, mixed,
         abrupt, kfaults>>
  BY <1>1 DEF ClusterShape, Kind!PowerOff, Kind!Unpinned, Kind!At, Kind!Goes, Kind!history,
              Kind!Idle
<1>3. Kind!TypeOK'
  BY <1>1, <1>2 DEF ClusterShape, Kind!TypeOK, Kind!Idle, Kind!StartSteps, Kind!StopSteps
<1>4. Placed'
  BY <1>1, <1>2 DEF ClusterShape, Placed
<1>5. Marching'
  BY <1>1, <1>2 DEF ClusterShape, Marching, PinSteps
<1>6. Emptied'
  BY <1>1, <1>2 DEF ClusterShape, Emptied, Marching, PinSteps
<1>7. ClusterStarting'
  BY <1>1, <1>2 DEF ClusterShape, ClusterStarting, Settled, Kind!StartSteps
<1>8. Attached'
  BY <1>1, <1>2 DEF ClusterShape, Attached
<1>9. ClusterKept'
  BY <1>1, <1>2 DEF ClusterShape, ClusterKept, Apart, Foreign, Noted, PinSteps
<1> QED BY <1>3, <1>4, <1>5, <1>6, <1>7, <1>8, <1>9 DEF ClusterInv

\* stop comes to its end with every pin recorded.
LEMMA ClusterStopped ==
  ASSUME Kind!ClusterAssumption, ClusterInv,
         Kind!Stopped
  PROVE  ClusterInv'
<1>1. ClusterShape /\ Kind!TypeOK /\ Placed /\ Marching /\ Emptied /\ ClusterStarting /\ Attached
        /\ ClusterKept
  BY ClusterSets
<1>2. /\ cmd.at = "record2" /\ cmd.left = {} /\ cmd'.at = "none" /\ cmd'.left = {}
      /\ cmd' = [at |-> "none", left |-> {}] /\ abrupt' = FALSE
      /\ UNCHANGED <<joined, pin, addr, file, other, cordon, net, work, held, clusterReady,
         severed, mixed, kfaults>>
  BY <1>1 DEF ClusterShape, Kind!Stopped, Kind!At, Kind!Goes, Kind!history, Kind!Idle
<1>3. Kind!TypeOK'
  BY <1>1, <1>2 DEF ClusterShape, Kind!TypeOK, Kind!Idle, Kind!StartSteps, Kind!StopSteps
<1>4. Placed'
  BY <1>1, <1>2 DEF ClusterShape, Placed
<1>5. Marching'
  BY <1>1, <1>2 DEF ClusterShape, Marching, PinSteps
<1>6. Emptied'
  <2>1. CASE abrupt'
    BY <2>1 DEF Emptied
  <2>2. ASSUME ~abrupt', NEW n \in Kind!Node
        PROVE  IF addr'[n] = 0 THEN n \in cordon' \ work' ELSE n \in net' \cup cordon'
    <3>1. ~abrupt => IF addr[n] = 0 THEN n \in cordon \ work ELSE n \in net \cup cordon
      BY <1>1 DEF ClusterShape, Emptied
    <3> QED BY <1>1, <1>2, <2>2, <3>1 DEF ClusterShape, Marching, PinSteps
  <2> QED BY <2>1, <2>2 DEF Emptied
<1>7. ClusterStarting'
  BY <1>1, <1>2 DEF ClusterShape, ClusterStarting, Settled, Kind!StartSteps
<1>8. Attached'
  BY <1>1, <1>2 DEF ClusterShape, Attached
<1>9. ClusterKept'
  <2>1. CASE mixed'
    BY <2>1 DEF ClusterKept
  <2>2. ASSUME ~mixed'
        PROVE  /\ pin'[Control] = pin'[Worker] => pin'[Control] = 0
               /\ cmd'.at \notin PinSteps => Apart'
               /\ cmd'.at \notin PinSteps \cup {"off2", "off3"}
                    /\ ~(cmd'.at = "release" /\ Control \in cmd'.left) => Foreign'
               /\ cmd'.at \in {"cordon", "drain", "off", "off2", "off3"} \cup PinSteps => Noted'
    <3>1. /\ pin[Control] = pin[Worker] => pin[Control] = 0
          /\ cmd.at \notin PinSteps => Apart
          /\ cmd.at \notin PinSteps \cup {"off2", "off3"}
               /\ ~(cmd.at = "release" /\ Control \in cmd.left) => Foreign
          /\ cmd.at \in {"cordon", "drain", "off", "off2", "off3"} \cup PinSteps => Noted
      BY <1>1, <1>2, <2>2 DEF ClusterShape, ClusterKept
    <3>2. pin'[Control] = pin'[Worker] => pin'[Control] = 0
      BY <3>1, <1>1, <1>2 DEF ClusterShape, Apart, Noted, PinSteps, Placed, ClusterStarting
    <3>3. cmd'.at \notin PinSteps => Apart'
      BY <3>1, <1>1, <1>2 DEF ClusterShape, Apart, Noted, PinSteps, Placed, Marching,
                              ClusterStarting, Kind!StartSteps, Settled
    <3>4. cmd'.at \notin PinSteps \cup {"off2", "off3"}
            /\ ~(cmd'.at = "release" /\ Control \in cmd'.left) => Foreign'
      BY <3>1, <1>1, <1>2 DEF ClusterShape, Foreign, Noted, PinSteps, Placed, ClusterStarting,
                              Kind!StartSteps, Settled
    <3>5. cmd'.at \in {"cordon", "drain", "off", "off2", "off3"} \cup PinSteps => Noted'
      BY <3>1, <1>1, <1>2 DEF ClusterShape, Apart, Foreign, Noted, PinSteps, Placed
    <3> QED BY <3>2, <3>3, <3>4, <3>5
  <2> QED BY <2>1, <2>2 DEF ClusterKept
<1> QED BY <1>3, <1>4, <1>5, <1>6, <1>7, <1>8, <1>9 DEF ClusterInv

\* A command dies where it is.
LEMMA ClusterDie ==
  ASSUME Kind!ClusterAssumption, ClusterInv,
         Kind!Dies
  PROVE  ClusterInv'
<1>1. ClusterShape /\ Kind!TypeOK /\ Placed /\ Marching /\ Emptied /\ ClusterStarting /\ Attached
        /\ ClusterKept
  BY ClusterSets
<1>2. /\ cmd.at # "none" /\ cmd'.at = "none" /\ cmd'.left = {}
      /\ cmd' = [at |-> "none", left |-> {}]
      /\ UNCHANGED <<joined, pin, addr, file, other, cordon, net, work, held, clusterReady, abrupt>>
  BY <1>1 DEF ClusterShape, Kind!Dies, Kind!At, Kind!Goes, Kind!history, Kind!Idle
<1>3. /\ severed' = severed \cup (IF cmd.at = "connect" THEN cmd.left \ joined ELSE {})
      /\ mixed' \/ (~mixed /\ cmd.at \notin {"sever", "connect"}
                     /\ \A c \in joined : file[c] # 0 => {pin[c], addr[c]} \ {0, file[c]} = {})
  BY <1>1 DEF ClusterShape, Kind!Dies, Kind!LeavesTraces, Kind!At
<1>4. kfaults' \in 0..ClusterFaults
  BY <1>1 DEF ClusterShape, Kind!Dies, Kind!Fault, Kind!TypeOK
<1>5. mixed' \in BOOLEAN
  BY <1>1 DEF ClusterShape, Kind!Dies, Kind!LeavesTraces
<1>6. mixed' \/ (~mixed /\ cmd.at \notin {"sever", "connect"}
              /\ \A c \in joined : file[c] # 0 =>
                   pin[c] \in {0, file[c]} /\ addr[c] \in {0, file[c]})
  BY <1>3
<1>7. \A c \in Kind!Container : (pin[c] # 0 => c \in joined) /\ (addr[c] # 0 => c \in joined)
  BY <1>1 DEF ClusterShape, Kind!TypeOK, Placed
<1>8. Kind!TypeOK'
  BY <1>1, <1>2, <1>3, <1>4, <1>5, <1>6, <1>7 DEF ClusterShape, Kind!TypeOK, Kind!Idle,
                                                  Kind!StartSteps, Kind!StopSteps
<1>9. Placed'
  BY <1>1, <1>2, <1>3, <1>4, <1>5, <1>6, <1>7 DEF ClusterShape, Placed
<1>10. Marching'
  BY <1>1, <1>2, <1>3, <1>4, <1>5, <1>6, <1>7 DEF ClusterShape, Marching, PinSteps
<1>11. Emptied'
  BY <1>1, <1>2, <1>3, <1>4, <1>5, <1>6, <1>7 DEF ClusterShape, Emptied, Marching, PinSteps
<1>12. ClusterStarting'
  BY <1>1, <1>2, <1>3, <1>4, <1>5, <1>6, <1>7 DEF ClusterShape, ClusterStarting, Settled,
                                                  Kind!StartSteps
<1>13. Attached'
  BY <1>1, <1>2, <1>3, <1>4, <1>5, <1>6, <1>7 DEF ClusterShape, Attached
<1>14. ClusterKept'
  <2>1. CASE mixed'
    BY <2>1 DEF ClusterKept
  <2>2. ASSUME ~mixed'
        PROVE  /\ pin'[Control] = pin'[Worker] => pin'[Control] = 0
               /\ cmd'.at \notin PinSteps => Apart'
               /\ cmd'.at \notin PinSteps \cup {"off2", "off3"}
                    /\ ~(cmd'.at = "release" /\ Control \in cmd'.left) => Foreign'
               /\ cmd'.at \in {"cordon", "drain", "off", "off2", "off3"} \cup PinSteps => Noted'
    <3>1. /\ pin[Control] = pin[Worker] => pin[Control] = 0
          /\ cmd.at \notin PinSteps => Apart
          /\ cmd.at \notin PinSteps \cup {"off2", "off3"}
               /\ ~(cmd.at = "release" /\ Control \in cmd.left) => Foreign
          /\ cmd.at \in {"cordon", "drain", "off", "off2", "off3"} \cup PinSteps => Noted
      BY <1>1, <1>2, <1>3, <1>4, <1>5, <1>6, <1>7, <2>2 DEF ClusterShape, ClusterKept
    <3>2. pin'[Control] = pin'[Worker] => pin'[Control] = 0
      BY <3>1, <1>1, <1>2, <1>3, <1>4, <1>5, <1>6, <1>7 DEF ClusterShape, Apart, Noted, PinSteps,
           Placed, ClusterStarting
    <3>3. Apart'
      <4>1. /\ cmd.at \in PinSteps => cmd.at = "record2" /\ Noted
            /\ cmd.at \notin PinSteps => Apart
        BY <3>1, <2>2, <1>6 DEF PinSteps
      <4>2. \A n \in Kind!Node : /\ file[n] = 0 \/ pin[n] \in {0, file[n]}
                               /\ addr'[n] \in {0, addr[n]}
        BY <1>1, <1>2, <1>6, <1>7, <2>2 DEF ClusterShape
      <4>3. UNCHANGED <<file, pin>>
        BY <1>2
      <4>4. CASE Apart
        BY <1>1, <4>2, <4>3, <4>4 DEF ClusterShape, Apart
      <4>5. CASE cmd.at = "record2" /\ Noted
        <5>1. addr[Control] = 0 /\ addr[Worker] = 0
          BY <1>1, <4>5 DEF ClusterShape, Marching, PinSteps
        <5>2. pin[Control] # 0
          BY <1>1, <4>5 DEF ClusterShape, Noted
        <5>3. /\ held[Worker] # 0 => pin[Worker] # 0
              /\ held[Worker] = 0 /\ pin[Worker] = 0 /\ file[Worker] # 0 =>
                   file[Worker] # pin[Control]
          BY <1>1, <4>5 DEF ClusterShape, Noted
        <5>4. pin[Control] # pin[Worker]
          BY <3>1, <5>2
        <5>5. /\ file[Control] \in {0, pin[Control]}
              /\ file[Worker] = 0 \/ pin[Worker] \in {0, file[Worker]}
          BY <1>1, <4>2, <5>2 DEF ClusterShape
        <5> QED BY <1>1, <4>2, <4>3, <5>1, <5>2, <5>3, <5>4, <5>5 DEF ClusterShape, Apart
      <4> QED BY <4>1, <4>4, <4>5
    <3>4. Foreign'
      <4>1. pin[Control] = 0 /\ file[Control] # 0 => addr[Control] \in {0, file[Control]}
        BY <1>1, <1>6, <1>7, <2>2 DEF ClusterShape
      <4>2. addr'[Control] \in {0, addr[Control]}
        BY <1>1, <1>2 DEF ClusterShape
      <4> QED BY <1>2, <4>1, <4>2 DEF Foreign
    <3>5. cmd'.at \in {"cordon", "drain", "off", "off2", "off3"} \cup PinSteps => Noted'
      BY <3>1, <1>1, <1>2, <1>3, <1>4, <1>5, <1>6, <1>7 DEF ClusterShape, Apart, Foreign, Noted,
           PinSteps, Placed
    <3> QED BY <3>2, <3>3, <3>4, <3>5
  <2> QED BY <2>1, <2>2 DEF ClusterKept
<1> QED BY <1>8, <1>9, <1>10, <1>11, <1>12, <1>13, <1>14 DEF ClusterInv

\* A command cannot go on.
LEMMA ClusterRefuse ==
  ASSUME Kind!ClusterAssumption, ClusterInv,
         Kind!Refuses
  PROVE  ClusterInv'
<1>1. ClusterShape /\ Kind!TypeOK /\ Placed /\ Marching /\ Emptied /\ ClusterStarting /\ Attached
        /\ ClusterKept
  BY ClusterSets
<1>2. /\ cmd.at \in {"attach", "registry", "control", "worker", "cordon"} /\ cmd'.at = "none"
      /\ cmd'.left = {} /\ cmd' = [at |-> "none", left |-> {}]
      /\ UNCHANGED <<joined, pin, addr, file, other, cordon, net, work, held, clusterReady,
         severed, mixed, abrupt, kfaults>>
  BY <1>1 DEF ClusterShape, Kind!Refuses, Kind!Answers, Kind!At, Kind!Goes, Kind!history, Kind!Idle
<1>3. Kind!TypeOK'
  BY <1>1, <1>2 DEF ClusterShape, Kind!TypeOK, Kind!Idle, Kind!StartSteps, Kind!StopSteps
<1>4. Placed'
  BY <1>1, <1>2 DEF ClusterShape, Placed
<1>5. Marching'
  BY <1>1, <1>2 DEF ClusterShape, Marching, PinSteps
<1>6. Emptied'
  BY <1>1, <1>2 DEF ClusterShape, Emptied, Marching, PinSteps
<1>7. ClusterStarting'
  BY <1>1, <1>2 DEF ClusterShape, ClusterStarting, Settled, Kind!StartSteps
<1>8. Attached'
  BY <1>1, <1>2 DEF ClusterShape, Attached
<1>9. ClusterKept'
  BY <1>1, <1>2 DEF ClusterShape, ClusterKept, Apart, Foreign, Noted, PinSteps
<1> QED BY <1>3, <1>4, <1>5, <1>6, <1>7, <1>8, <1>9 DEF ClusterInv

\* The host goes down.
LEMMA ClusterDown ==
  ASSUME Kind!ClusterAssumption, ClusterInv,
         Kind!HostGoesDown
  PROVE  ClusterInv'
<1>1. ClusterShape /\ Kind!TypeOK /\ Placed /\ Marching /\ Emptied /\ ClusterStarting /\ Attached
        /\ ClusterKept
  BY ClusterSets
<1>2. /\ cmd'.at = "none" /\ cmd'.left = {}
      /\ cmd' = [at |-> "none", left |-> {}]
      /\ addr' \in [Kind!Container -> Kind!Address \cup {0}]
      /\ (\A c \in Kind!Container : addr'[c] = 0)
      /\ net' = {} /\ other' = 0 /\ clusterReady' = FALSE /\ abrupt' = TRUE
      /\ UNCHANGED <<joined, pin, file, cordon, work, held>>
  BY <1>1 DEF ClusterShape, Kind!HostGoesDown, Kind!Zeros, Kind!At, Kind!Goes, Kind!history,
              Kind!Idle
<1>3. /\ severed' = severed \cup (IF cmd.at = "connect" THEN cmd.left \ joined ELSE {})
      /\ mixed' \/ (~mixed /\ cmd.at \notin {"sever", "connect"}
                     /\ \A c \in joined : file[c] # 0 => {pin[c], addr[c]} \ {0, file[c]} = {})
  BY <1>1 DEF ClusterShape, Kind!HostGoesDown, Kind!LeavesTraces, Kind!At
<1>4. kfaults' \in 0..ClusterFaults
  BY <1>1 DEF ClusterShape, Kind!HostGoesDown, Kind!Fault, Kind!TypeOK
<1>5. mixed' \in BOOLEAN
  BY <1>1 DEF ClusterShape, Kind!HostGoesDown, Kind!LeavesTraces
<1>6. mixed' \/ (~mixed /\ cmd.at \notin {"sever", "connect"}
              /\ \A c \in joined : file[c] # 0 =>
                   pin[c] \in {0, file[c]} /\ addr[c] \in {0, file[c]})
  BY <1>3
<1>7. \A c \in Kind!Container : (pin[c] # 0 => c \in joined) /\ (addr[c] # 0 => c \in joined)
  BY <1>1 DEF ClusterShape, Kind!TypeOK, Placed
<1>8. Kind!TypeOK'
  <2>1. /\ pin' \in [Kind!Container -> Kind!Address \cup {0}]
        /\ addr' \in [Kind!Container -> Kind!Address \cup {0}]
        /\ file' \in [Kind!Container -> Kind!Address \cup {0}]
        /\ held' \in [Kind!Container -> Kind!Address \cup {0}]
    BY <1>1, <1>2, <1>3, <1>4, <1>5, <1>6, <1>7 DEF ClusterShape
  <2>2. cmd' \in [at : Kind!StartSteps \cup Kind!StopSteps \cup {"none"},
        left : SUBSET Kind!Container]
    BY <1>1, <1>2, <1>3, <1>4, <1>5, <1>6, <1>7 DEF ClusterShape, Kind!TypeOK, Kind!StartSteps,
         Kind!StopSteps
  <2>3. \A d \in Kind!Container : pin'[d] # 0 => d \in joined'
    BY <1>1, <1>2, <1>3, <1>4, <1>5, <1>6, <1>7 DEF ClusterShape, Kind!TypeOK
  <2>4. /\ joined' \subseteq Kind!Container /\ cordon' \subseteq Kind!Node
        /\ net' \subseteq Kind!Node /\ work' \subseteq Kind!Node
        /\ severed' \subseteq Kind!Container
    BY <1>1, <1>2, <1>3, <1>4, <1>5, <1>6, <1>7 DEF ClusterShape, Kind!TypeOK
  <2>5. other' \in Kind!Address \cup {0} /\ clusterReady' \in BOOLEAN
          /\ kfaults' \in 0..ClusterFaults
    BY <1>1, <1>2, <1>3, <1>4, <1>5, <1>6, <1>7 DEF ClusterShape, Kind!TypeOK
  <2>6. abrupt' \in BOOLEAN /\ mixed' \in BOOLEAN
    BY <1>1, <1>2, <1>3, <1>4, <1>5, <1>6, <1>7 DEF ClusterShape, Kind!TypeOK
  <2> QED BY <2>1, <2>2, <2>3, <2>4, <2>5, <2>6 DEF Kind!TypeOK
<1>9. Placed'
  BY <1>1, <1>2, <1>3, <1>4, <1>5, <1>6, <1>7 DEF ClusterShape, Placed
<1>10. Marching'
  BY <1>1, <1>2, <1>3, <1>4, <1>5, <1>6, <1>7 DEF ClusterShape, Marching, PinSteps
<1>11. Emptied'
  BY <1>1, <1>2, <1>3, <1>4, <1>5, <1>6, <1>7 DEF ClusterShape, Emptied, Marching, PinSteps
<1>12. ClusterStarting'
  BY <1>1, <1>2, <1>3, <1>4, <1>5, <1>6, <1>7 DEF ClusterShape, ClusterStarting, Settled,
                                                  Kind!StartSteps
<1>13. Attached'
  BY <1>1, <1>2, <1>3, <1>4, <1>5, <1>6, <1>7 DEF ClusterShape, Attached
<1>14. ClusterKept'
  <2>1. CASE mixed'
    BY <2>1 DEF ClusterKept
  <2>2. ASSUME ~mixed'
        PROVE  /\ pin'[Control] = pin'[Worker] => pin'[Control] = 0
               /\ cmd'.at \notin PinSteps => Apart'
               /\ cmd'.at \notin PinSteps \cup {"off2", "off3"}
                    /\ ~(cmd'.at = "release" /\ Control \in cmd'.left) => Foreign'
               /\ cmd'.at \in {"cordon", "drain", "off", "off2", "off3"} \cup PinSteps => Noted'
    <3>1. /\ pin[Control] = pin[Worker] => pin[Control] = 0
          /\ cmd.at \notin PinSteps => Apart
          /\ cmd.at \notin PinSteps \cup {"off2", "off3"}
               /\ ~(cmd.at = "release" /\ Control \in cmd.left) => Foreign
          /\ cmd.at \in {"cordon", "drain", "off", "off2", "off3"} \cup PinSteps => Noted
      BY <1>1, <1>2, <1>3, <1>4, <1>5, <1>6, <1>7, <2>2 DEF ClusterShape, ClusterKept
    <3>2. pin'[Control] = pin'[Worker] => pin'[Control] = 0
      BY <3>1, <1>1, <1>2, <1>3, <1>4, <1>5, <1>6, <1>7 DEF ClusterShape, Apart, Noted, PinSteps,
           Placed, ClusterStarting
    <3>3. Apart'
      <4>1. /\ cmd.at \in PinSteps => cmd.at = "record2" /\ Noted
            /\ cmd.at \notin PinSteps => Apart
        BY <3>1, <2>2, <1>6 DEF PinSteps
      <4>2. \A n \in Kind!Node : /\ file[n] = 0 \/ pin[n] \in {0, file[n]}
                               /\ addr'[n] \in {0, addr[n]}
        BY <1>1, <1>2, <1>6, <1>7, <2>2 DEF ClusterShape
      <4>3. UNCHANGED <<file, pin>>
        BY <1>2
      <4>4. CASE Apart
        BY <1>1, <4>2, <4>3, <4>4 DEF ClusterShape, Apart
      <4>5. CASE cmd.at = "record2" /\ Noted
        <5>1. addr[Control] = 0 /\ addr[Worker] = 0
          BY <1>1, <4>5 DEF ClusterShape, Marching, PinSteps
        <5>2. pin[Control] # 0
          BY <1>1, <4>5 DEF ClusterShape, Noted
        <5>3. /\ held[Worker] # 0 => pin[Worker] # 0
              /\ held[Worker] = 0 /\ pin[Worker] = 0 /\ file[Worker] # 0 =>
                   file[Worker] # pin[Control]
          BY <1>1, <4>5 DEF ClusterShape, Noted
        <5>4. pin[Control] # pin[Worker]
          BY <3>1, <5>2
        <5>5. /\ file[Control] \in {0, pin[Control]}
              /\ file[Worker] = 0 \/ pin[Worker] \in {0, file[Worker]}
          BY <1>1, <4>2, <5>2 DEF ClusterShape
        <5> QED BY <1>1, <4>2, <4>3, <5>1, <5>2, <5>3, <5>4, <5>5 DEF ClusterShape, Apart
      <4> QED BY <4>1, <4>4, <4>5
    <3>4. Foreign'
      <4>1. pin[Control] = 0 /\ file[Control] # 0 => addr[Control] \in {0, file[Control]}
        BY <1>1, <1>6, <1>7, <2>2 DEF ClusterShape
      <4>2. addr'[Control] \in {0, addr[Control]}
        BY <1>1, <1>2 DEF ClusterShape
      <4> QED BY <1>2, <4>1, <4>2 DEF Foreign
    <3>5. cmd'.at \in {"cordon", "drain", "off", "off2", "off3"} \cup PinSteps => Noted'
      BY <3>1, <1>1, <1>2, <1>3, <1>4, <1>5, <1>6, <1>7 DEF ClusterShape, Apart, Foreign, Noted,
           PinSteps, Placed
    <3> QED BY <3>2, <3>3, <3>4, <3>5
  <2> QED BY <2>1, <2>2 DEF ClusterKept
<1> QED BY <1>8, <1>9, <1>10, <1>11, <1>12, <1>13, <1>14 DEF ClusterInv

\* Another container comes or goes.
LEMMA ClusterOther ==
  ASSUME Kind!ClusterAssumption, ClusterInv,
         Kind!OtherComes \/ Kind!OtherGoes \/ UNCHANGED Kind!vars
  PROVE  ClusterInv'
<1>1. ClusterShape /\ Kind!TypeOK /\ Placed /\ Marching /\ Emptied /\ ClusterStarting /\ Attached
        /\ ClusterKept
  BY ClusterSets
<1>2. /\ UNCHANGED cmd
      /\ UNCHANGED <<joined, pin, addr, file, cordon, net, work, held, clusterReady, severed,
         mixed, abrupt>>
  BY <1>1 DEF ClusterShape, Kind!OtherComes, Kind!OtherGoes, Kind!vars, Kind!At, Kind!Goes,
              Kind!history, Kind!Idle
<1>3. kfaults' \in 0..ClusterFaults
  BY <1>1 DEF ClusterShape, Kind!OtherComes, Kind!OtherGoes, Kind!vars, Kind!Fault, Kind!TypeOK,
              Kind!history
<1>4. other' \in Kind!Address \cup {0}
  BY <1>1 DEF ClusterShape, Kind!OtherComes, Kind!OtherGoes, Kind!vars, Kind!Free, Kind!TypeOK
<1>5. Kind!TypeOK'
  BY <1>1, <1>2, <1>3, <1>4 DEF ClusterShape, Kind!TypeOK, Kind!Idle, Kind!StartSteps,
                                Kind!StopSteps
<1>6. Placed'
  BY <1>1, <1>2, <1>3, <1>4 DEF ClusterShape, Placed
<1>7. Marching'
  BY <1>1, <1>2, <1>3, <1>4 DEF ClusterShape, Marching, PinSteps
<1>8. Emptied'
  BY <1>1, <1>2, <1>3, <1>4 DEF ClusterShape, Emptied, Marching, PinSteps
<1>9. ClusterStarting'
  BY <1>1, <1>2, <1>3, <1>4 DEF ClusterShape, ClusterStarting, Settled, Kind!StartSteps
<1>10. Attached'
  BY <1>1, <1>2, <1>3, <1>4 DEF ClusterShape, Attached
<1>11. ClusterKept'
  BY <1>1, <1>2, <1>3, <1>4 DEF ClusterShape, ClusterKept, Apart, Foreign, Noted, PinSteps
<1> QED BY <1>5, <1>6, <1>7, <1>8, <1>9, <1>10, <1>11 DEF ClusterInv

\* The invariant is kept by every step.
LEMMA ClusterStep ==
  ASSUME Kind!ClusterAssumption, ClusterInv, [Kind!Next]_(Kind!vars)
  PROVE  ClusterInv'
<1>1. ASSUME NEW c \in Kind!Container,
             Kind!Release(c) \/ Kind!Record("record", c) \/ Kind!Record("record2", c)
               \/ Kind!Attach(c)
                            \/ Kind!Sever(c) \/ Kind!Connect(c)
      PROVE  ClusterInv'
  BY <1>1, ClusterRelease1, ClusterRelease2, ClusterRecord1, ClusterRecord2, ClusterAttach,
     ClusterSever, ClusterConnect, Zenon
<1>2. CASE \/ Kind!Then("release", "record", Kind!Container)
                \/ Kind!Then("record", "attach", Kind!Container)
           \/ Kind!Then("attach", "registry", {}) \/ Kind!Then("sever", "record2", Kind!Container)
           \/ Kind!Boot(Registry, "registry", "control") \/ Kind!Boot(Control, "control", "network")
           \/ Kind!AwaitNetwork(Control, "network", "open") \/ Kind!Open(Control, "open", "mesh")
           \/ Kind!Then("mesh", "worker", {}) \/ Kind!Boot(Worker, "worker", "network2")
           \/ Kind!AwaitNetwork(Worker, "network2", "open2") \/ Kind!Open(Worker, "open2", "none")
  BY <1>2, ClusterThen1, ClusterThen2, ClusterThen3, ClusterThen4, ClusterThen5, ClusterBoot1,
     ClusterBoot2, ClusterBoot3,
     ClusterAwait1, ClusterAwait2, ClusterOpen1, ClusterOpen2, Zenon
<1>3. CASE \/ Kind!PowerOff(Worker, "off", "off2", {}) \/ Kind!PowerOff(Control, "off2", "off3", {})
           \/ Kind!PowerOff(Registry, "off3", "sever", Kind!Unpinned)
  BY <1>3, ClusterOff1, ClusterOff2, ClusterOff3, Zenon
<1> QED
  BY <1>1, <1>2, <1>3, ClusterStarts, ClusterStops, ClusterNote, ClusterCordon, ClusterDrain,
     ClusterStopped, ClusterDie, ClusterRefuse,
     ClusterDown, ClusterOther, Zenon DEF Kind!Next

\* What the invariant says of the properties.
LEMMA ClusterRight ==
  ASSUME Kind!ClusterAssumption, ClusterInv
  PROVE  Kind!TypeOK /\ Kind!AddressesAreKept /\ Kind!NothingIsLost /\ Kind!WorkIsOnReadyNodes
<1>1. Kind!AddressesAreKept
  <2>1. clusterReady => \A c \in Kind!Container : addr[c] # 0 /\ file[c] \in {0, addr[c]}
    BY DEF ClusterInv, ClusterStarting
  <2>2. pin[Registry] = 1 /\ pin[Control] # 1 /\ pin[Worker] # 1
    BY DEF ClusterInv, Placed, Kind!Node
  <2>3. mixed \/ (pin[Control] = pin[Worker] => pin[Control] = 0)
    BY DEF ClusterInv, ClusterKept
  <2> QED BY <2>1, <2>2, <2>3 DEF Kind!AddressesAreKept, Kind!Container, Kind!Node
<1>2. Kind!NothingIsLost
  BY DEF ClusterInv, Attached, Kind!NothingIsLost, Kind!At
<1>3. Kind!WorkIsOnReadyNodes
  BY DEF ClusterInv, Emptied, Kind!WorkIsOnReadyNodes
<1> QED BY <1>1, <1>2, <1>3 DEF ClusterInv

-----------------------------------------------------------------------------
(* The intake *)

\* What is asked for is for a recipient the server has had, and so is what is stored.
Addressed ==
  /\ \A i \in DOMAIN intents : intents[i].to \in had
  /\ \A c \in Call : taking[c].at # "idle" => taking[c].to \in had
  /\ \A c \in Call : taking[c].at # "idle" /\ taking[c].ref \in Group => taking[c].body # "alert"

\* A request that is answered has its intent, and one that was refused finds one.
IntentsFound ==
  /\ \A c \in Call : taking[c].at = "enqueue" =>
       /\ taking[c].intent \in DOMAIN intents
       /\ intents[taking[c].intent].ref = taking[c].ref
       /\ intents[taking[c].intent].to = taking[c].to
  /\ \A c \in Call : taking[c].at = "find" =>
       \E i \in DOMAIN intents : intents[i].ref = taking[c].ref /\ intents[i].to = taking[c].to

\* The natural key of an intent is its own.
KeysApart ==
  \A i, j \in DOMAIN intents :
    intents[i].ref = intents[j].ref /\ intents[i].to = intents[j].to => i = j

\* A worker is at work on an intent that is there, that is for a chat, and that no other has
\* brought to its end unless they met over it.
WorkFits ==
  \A w \in Tasker : doing[w].at # "idle" =>
    /\ doing[w].intent \in DOMAIN intents
    /\ intents[doing[w].intent].to # Unset
    /\ Taking!Done(doing[w].intent) => intents[doing[w].intent].ref \in again

\* Two that are at work on one intent have met over it.
WorkAlone ==
  \A v, w \in Tasker :
    v # w /\ doing[v].at # "idle" /\ doing[w].at # "idle" /\ doing[v].intent = doing[w].intent =>
      intents[doing[w].intent].ref \in again

\* An intent that was posted, be it recorded or not.
Told(i) ==
  intents[i].status = "SENT" \/ \E w \in Tasker : doing[w].at = "posted" /\ doing[w].intent = i

\* The recipients that were told of an alert.
ToldTo(r) == {intents[i].to : i \in {j \in DOMAIN intents : intents[j].ref = r /\ Told(j)}}

\* Each of them was told once.
PostsCounted == \A r \in Taking!Ref : r \in again \/ posts[r] <= Cardinality(ToldTo(r))

\* What was shown was of intents there are.
ViewsBehind == \A a \in Alert : viewed[a].of <= Len(intents)

IntakeInv ==
  /\ Taking!TypeOK /\ Addressed /\ IntentsFound /\ WorkFits /\ WorkAlone
  /\ (Migrated => KeysApart /\ PostsCounted)
  /\ ViewsBehind /\ Taking!ShownIsTheWorst

IntentRecord == [ref : Taking!Ref, to : Chat, body : Taking!Body, status : DOMAIN Taking!Severity]

\* Intents are added and move on; those that were sent or given up stay so, unless two tasks met.
IntentsGrow ==
  /\ Len(intents) <= Len(intents') /\ again \subseteq again'
  /\ \A i \in DOMAIN intents :
       /\ intents'[i].ref = intents[i].ref /\ intents'[i].to = intents[i].to
       /\ intents[i].status \in {"SENT", "DEAD"} =>
            intents'[i].status = intents[i].status \/ intents[i].ref \in again'

\* Nothing is asked for yet.
LEMMA IntakeStart ==
  ASSUME Taking!IntakeAssumption, Taking!Init
  PROVE  IntakeInv
<1>1. 0 \in 0..MaxMoves /\ 0 \in 0..IntakeFaults /\ 0 \in 0..MaxAsks
  BY DEF Taking!IntakeAssumption
<1>2. /\ intents = <<>> /\ Len(intents) = 0 /\ DOMAIN intents = {} /\ intents \in Seq(IntentRecord)
      /\ recipient \in Chat /\ destination = recipient /\ had = {recipient} /\ queued = {}
      /\ \A c \in Call : taking[c] = Taking!Idle /\ taking[c].at = "idle"
      /\ taking = [c \in Call |-> Taking!Idle]
      /\ \A a \in Alert : viewed[a].state = "UNKNOWN" /\ viewed[a].of = 0
      /\ doing = [w \in Tasker |-> Taking!Idle] /\ again = {}
      /\ \A w \in Tasker : doing[w].at = "idle"
  BY DEF Taking!Init, Taking!Idle
<1>3. Taking!TypeOK
  <2>1. asked \in [Taking!Ref -> 0..MaxAsks] /\ posts \in [Taking!Ref -> Nat]
          /\ notice \in [Taking!Ref -> Taking!Body \cup {"none"}]
    BY <1>1 DEF Taking!Init
  <2>2. heard \in [Group -> {"none", "firing", "resolved"}] /\ moves \in 0..MaxMoves
          /\ mishaps \in 0..IntakeFaults
    BY <1>1 DEF Taking!Init
  <2>3. viewed \in [Alert -> [state : DOMAIN Taking!Severity \cup {"UNKNOWN"}, of : Nat]]
    BY DEF Taking!Init
  <2> QED BY <1>2, <2>1, <2>2, <2>3 DEF Taking!TypeOK, IntentRecord
<1>4. Addressed /\ IntentsFound /\ KeysApart /\ ViewsBehind /\ WorkFits /\ WorkAlone
  BY <1>2 DEF Addressed, IntentsFound, KeysApart, ViewsBehind, WorkFits, WorkAlone
<1>5. PostsCounted
  <2>1. \A r \in Taking!Ref : ToldTo(r) = {} /\ posts[r] = 0
    BY <1>2 DEF ToldTo, Taking!Init
  <2> QED BY <2>1, FS_EmptySet DEF PostsCounted
<1>6. Taking!ShownIsTheWorst
  BY <1>2 DEF Taking!ShownIsTheWorst
<1> QED BY <1>3, <1>4, <1>5, <1>6 DEF IntakeInv

\* What is at an index of the intents.
LEMMA IntentAt ==
  ASSUME Taking!TypeOK
  PROVE  \A i \in DOMAIN intents :
           /\ intents[i] \in IntentRecord /\ intents[i].ref \in Taking!Ref /\ intents[i].to \in Chat
           /\ intents[i].body \in Taking!Body /\ intents[i].status \in DOMAIN Taking!Severity
<1>1. intents \in Seq(IntentRecord)
  BY DEF Taking!TypeOK, IntentRecord
<1>2. \A i \in DOMAIN intents : intents[i] \in IntentRecord
  BY <1>1
<1> QED BY <1>2 DEF IntentRecord

\* The recipients that were told are finitely many.
LEMMA ToldFinite ==
  ASSUME Taking!IntakeAssumption, Taking!TypeOK
  PROVE  \A r \in Taking!Ref : IsFiniteSet(ToldTo(r)) /\ Cardinality(ToldTo(r)) \in Nat
<1>1. \A r \in Taking!Ref : ToldTo(r) \subseteq Chat
  BY IntentAt DEF ToldTo
<1>2. IsFiniteSet(Chat)
  BY SameSizes DEF Taking!IntakeAssumption
<1> QED BY <1>1, <1>2, FS_Subset, FS_CardinalityType

\* What was shown stays true while intents only go on.
LEMMA ShownStays ==
  ASSUME Taking!TypeOK, ViewsBehind, Taking!ShownIsTheWorst, IntentsGrow, Len(intents') \in Nat,
         viewed' = viewed
  PROVE  ViewsBehind' /\ Taking!ShownIsTheWorst'
<1>1. /\ DOMAIN intents = 1..Len(intents) /\ Len(intents) \in Nat
      /\ \A a \in Alert : viewed[a].of \in Nat /\ viewed[a].of <= Len(intents)
  BY DEF Taking!TypeOK, ViewsBehind
<1>2. ViewsBehind'
  BY <1>1 DEF ViewsBehind, IntentsGrow
<1>3. ASSUME NEW a \in Alert, a \notin again'
      PROVE  LET old == {intents[i].status : i \in {j \in 1 .. viewed[a].of : intents[j].ref = a}}
                 new == {intents'[i].status : i \in {j \in 1 .. viewed[a].of : intents'[j].ref = a}}
             IN  CASE viewed[a].state = "SENT"    -> new = {"SENT"}
                   [] viewed[a].state = "DEAD"    -> "DEAD" \in new
                   [] viewed[a].state = "UNKNOWN" -> new = {}
                   [] OTHER                       -> new # {}
  <2> DEFINE J == {j \in 1 .. viewed[a].of : intents[j].ref = a}
             K == {j \in 1 .. viewed[a].of : intents'[j].ref = a}
             old == {intents[i].status : i \in J}
             new == {intents'[i].status : i \in K}
  <2>1. K = J /\ J \subseteq DOMAIN intents
    BY <1>1 DEF IntentsGrow
  <2>2. \A j \in J : intents[j].status \in {"SENT", "DEAD"} =>
          intents'[j].status = intents[j].status
    BY <1>3, <2>1 DEF IntentsGrow
  <2>3. /\ viewed[a].state = "SENT" => old = {"SENT"}
        /\ viewed[a].state = "DEAD" => "DEAD" \in old
        /\ viewed[a].state = "UNKNOWN" => old = {}
        /\ viewed[a].state \notin {"SENT", "DEAD", "UNKNOWN"} => old # {}
    BY <1>3 DEF Taking!ShownIsTheWorst, IntentsGrow
  <2> HIDE DEF J, K
  <2>4. CASE viewed[a].state = "SENT"
    <3>1. old = {"SENT"}
      BY <2>3, <2>4
    <3>2. J # {} /\ \A j \in J : intents[j].status = "SENT"
      BY <3>1
    <3>3. new = {"SENT"}
      BY <2>1, <2>2, <3>2
    <3> QED BY <2>4, <3>3 DEF J, K
  <2>5. CASE viewed[a].state = "DEAD"
    <3>1. PICK j \in J : intents[j].status = "DEAD"
      BY <2>3, <2>5
    <3>2. "DEAD" \in new
      BY <2>1, <2>2, <3>1
    <3> QED BY <2>5, <3>2 DEF J, K
  <2>6. CASE viewed[a].state = "UNKNOWN"
    <3>1. J = {}
      BY <2>3, <2>6
    <3>2. new = {}
      BY <2>1, <3>1
    <3> QED BY <2>6, <3>2 DEF J, K
  <2>7. CASE viewed[a].state \notin {"SENT", "DEAD", "UNKNOWN"}
    <3>1. J # {}
      BY <2>3, <2>7
    <3>2. new # {}
      BY <2>1, <3>1
    <3> QED BY <2>7, <3>2 DEF J, K
  <2> QED BY <2>4, <2>5, <2>6, <2>7
<1> QED BY <1>2, <1>3 DEF Taking!ShownIsTheWorst

\* The worst of some intents is the state of one of them, and none is worse.
LEMMA WorstThere ==
  ASSUME NEW S, S # {}, \A i \in S : intents[i].status \in DOMAIN Taking!Severity
  PROVE  /\ Taking!Worst(S) \in {intents[i].status : i \in S}
         /\ Taking!Worst(S) \in DOMAIN Taking!Severity
         /\ \A i \in S : Taking!Severity[intents[i].status] <= Taking!Severity[Taking!Worst(S)]
<1> DEFINE of == {intents[i].status : i \in S}
<1>1. of # {} /\ of \subseteq {"SENT", "PENDING", "FAILED", "DEAD"}
  BY DEF Taking!Severity
<1>2. /\ Taking!Severity["SENT"] = 0 /\ Taking!Severity["PENDING"] = 1
      /\ Taking!Severity["FAILED"] = 3 /\ Taking!Severity["DEAD"] = 4
  BY DEF Taking!Severity
<1>3. \E s \in of : \A t \in of : Taking!Severity[t] <= Taking!Severity[s]
  <2> HIDE DEF of
  <2>1. CASE "DEAD" \in of
    BY <1>1, <1>2, <2>1
  <2>2. CASE "DEAD" \notin of /\ "FAILED" \in of
    BY <1>1, <1>2, <2>2
  <2>3. CASE "DEAD" \notin of /\ "FAILED" \notin of /\ "PENDING" \in of
    BY <1>1, <1>2, <2>3
  <2>4. CASE of = {"SENT"}
    BY <1>1, <1>2, <2>4
  <2> QED BY <1>1, <2>1, <2>2, <2>3, <2>4
<1>4. Taking!Worst(S) \in of /\ \A t \in of : Taking!Severity[t] <= Taking!Severity[Taking!Worst(S)]
  BY <1>3 DEF Taking!Worst
<1> QED BY <1>4

\* One more intent.
LEMMA AppendIntent ==
  ASSUME Taking!TypeOK, NEW x \in IntentRecord, intents' = Append(intents, x), UNCHANGED again
  PROVE  /\ intents' \in Seq(IntentRecord) /\ Len(intents) \in Nat
         /\ Len(intents') = Len(intents) + 1
         /\ DOMAIN intents = 1 .. Len(intents) /\ DOMAIN intents' = 1 .. (Len(intents) + 1)
         /\ \A j \in DOMAIN intents : j \in DOMAIN intents' /\ intents'[j] = intents[j]
         /\ intents'[Len(intents) + 1] = x
         /\ IntentsGrow
<1>1. intents \in Seq(IntentRecord)
  BY DEF Taking!TypeOK, IntentRecord
<1>2. /\ intents' \in Seq(IntentRecord) /\ Len(intents) \in Nat /\ Len(intents') = Len(intents) + 1
      /\ DOMAIN intents = 1 .. Len(intents) /\ DOMAIN intents' = 1 .. (Len(intents) + 1)
      /\ \A j \in 1 .. Len(intents) : intents'[j] = intents[j]
      /\ intents'[Len(intents) + 1] = x
  BY <1>1
<1> QED BY <1>2 DEF IntentsGrow

\* An intent moves on.
LEMMA MoveIntent ==
  ASSUME Taking!TypeOK, NEW i \in DOMAIN intents, NEW s \in DOMAIN Taking!Severity,
         Taking!Becomes(i, s), again \subseteq again'
  PROVE  /\ intents' \in Seq(IntentRecord) /\ Len(intents) \in Nat /\ Len(intents') = Len(intents)
         /\ DOMAIN intents = 1 .. Len(intents) /\ DOMAIN intents' = DOMAIN intents
         /\ \A j \in DOMAIN intents :
              /\ intents'[j].ref = intents[j].ref /\ intents'[j].to = intents[j].to
              /\ intents'[j].status = IF j = i THEN s ELSE intents[j].status
         /\ ~Taking!Done(i) \/ intents[i].ref \in again' => IntentsGrow
<1>1. intents \in Seq(IntentRecord) /\ DOMAIN intents = 1 .. Len(intents) /\ Len(intents) \in Nat
  BY DEF Taking!TypeOK, IntentRecord
<1>2. intents' = [intents EXCEPT ![i] = [intents[i] EXCEPT !.status = s]]
  BY DEF Taking!Becomes
<1>3. [intents[i] EXCEPT !.status = s] \in IntentRecord
  BY IntentAt DEF IntentRecord
<1>4. /\ [intents[i] EXCEPT !.status = s].ref = intents[i].ref
      /\ [intents[i] EXCEPT !.status = s].to = intents[i].to
      /\ [intents[i] EXCEPT !.status = s].status = s
  BY IntentAt DEF IntentRecord
<1> DEFINE x == [intents[i] EXCEPT !.status = s]
<1> HIDE DEF x
<1>5. x \in IntentRecord /\ intents' = [intents EXCEPT ![i] = x]
  BY <1>2, <1>3 DEF x
<1>6. /\ intents' \in Seq(IntentRecord) /\ Len(intents') = Len(intents)
      /\ DOMAIN intents' = DOMAIN intents
      /\ \A j \in DOMAIN intents : intents'[j] = IF j = i THEN x ELSE intents[j]
  BY <1>1, <1>5
<1>7. x.ref = intents[i].ref /\ x.to = intents[i].to /\ x.status = s
  BY <1>4 DEF x
<1>8. \A j \in DOMAIN intents :
        /\ intents'[j].ref = intents[j].ref /\ intents'[j].to = intents[j].to
        /\ intents'[j].status = IF j = i THEN s ELSE intents[j].status
  BY <1>6, <1>7
<1>9. ~Taking!Done(i) \/ intents[i].ref \in again' => IntentsGrow
  BY <1>1, <1>6, <1>8 DEF Taking!Done, IntentsGrow
<1> QED BY <1>1, <1>6, <1>8, <1>9

\* What a worker does.
IntakeWork(w) ==
  Taking!Deliver(w) \/ Taking!Unanswered(w) \/ Taking!Fail(w) \/ Taking!Die(w)

\* What a worker does moves one intent at most, and claims it, posts it, or is through with it.
LEMMA WorkMoves ==
  ASSUME IntakeInv, NEW w \in Tasker, IntakeWork(w)
  PROVE  \E i \in DOMAIN intents, s \in {"PENDING", "SENT", "FAILED", "DEAD"} :
           /\ Taking!Becomes(i, s) \/ intents' = intents
           /\ doing[w].at # "idle" => doing[w].intent = i
           /\ again' \in {again, again \cup {intents[i].ref}}
           /\ queued' \in {queued, Taking!With(i), Taking!Without(i)}
           /\ \/ doing' = doing /\ doing[w].at = "idle"
              \/ doing' = [doing EXCEPT ![w] = Taking!Idle] /\ doing[w].at # "idle"
              \/ doing' = [doing EXCEPT ![w] = [at |-> "claimed", intent |-> i]]
              \/ doing' = [doing EXCEPT ![w].at = "posted"] /\ doing[w].at = "claimed"
           /\ \/ UNCHANGED <<posts, notice>>
              \/ /\ posts' = [posts EXCEPT ![intents[i].ref] = @ + 1]
                 /\ notice' = [notice EXCEPT ![intents[i].ref] = intents[i].body]
           /\ UNCHANGED mishaps \/ Taking!Fault
           /\ UNCHANGED <<recipient, destination, had, taking, asked, heard, viewed, moves>>
<1>1. CASE Taking!Skip(w)
  BY <1>1 DEF Taking!Skip, Taking!Takes, Taking!Free
<1>2. CASE Taking!Bury(w)
  BY <1>2 DEF Taking!Bury, Taking!Takes, Taking!Free
<1>3. CASE Taking!Claim(w)
  BY <1>3 DEF Taking!Claim, Taking!Takes, Taking!Free
<1>4. ASSUME doing[w].at # "idle" PROVE doing[w].intent \in DOMAIN intents
  BY <1>4 DEF IntakeInv, WorkFits
<1>5. CASE Taking!Post(w)
  BY <1>4, <1>5 DEF Taking!Post, Taking!Posts
<1>6. CASE Taking!Unanswered(w)
  BY <1>4, <1>6 DEF Taking!Unanswered, Taking!Posts, Taking!Ends
<1>7. CASE Taking!Record(w) \/ Taking!Decline(w)
  BY <1>4, <1>7 DEF Taking!Record, Taking!Decline, Taking!Ends
<1>8. CASE Taking!Fail(w)
  BY <1>4, <1>8 DEF Taking!Fail, Taking!Ends
<1>9. CASE Taking!Die(w)
  BY <1>4, <1>9 DEF Taking!Die, Taking!Free, Taking!Ends
<1> QED BY <1>1, <1>2, <1>3, <1>5, <1>6, <1>7, <1>8, <1>9 DEF IntakeWork, Taking!Deliver

\* What a worker does keeps the types.
LEMMA WorkTypes ==
  ASSUME Taking!IntakeAssumption, IntakeInv, NEW w \in Tasker, IntakeWork(w)
  PROVE  Taking!TypeOK'
<1> DEFINE Working == {Taking!Idle} \cup [at : {"claimed", "posted"}, intent : Nat]
<1>1. /\ Taking!TypeOK /\ IntakeFaults \in Nat
      /\ intents \in Seq(IntentRecord) /\ Len(intents) \in Nat /\ DOMAIN intents = 1..Len(intents)
      /\ doing \in [Tasker -> Working] /\ posts \in [Taking!Ref -> Nat]
      /\ notice \in [Taking!Ref -> Taking!Body \cup {"none"}]
      /\ \A m \in queued : m[1] \in DOMAIN intents
  BY DEF IntakeInv, Taking!TypeOK, Taking!IntakeAssumption, IntentRecord
<1>2. PICK i \in DOMAIN intents, s \in {"PENDING", "SENT", "FAILED", "DEAD"} :
        /\ Taking!Becomes(i, s) \/ intents' = intents
        /\ again' \in {again, again \cup {intents[i].ref}}
        /\ queued' \in {queued, Taking!With(i), Taking!Without(i)}
        /\ \/ doing' = doing
           \/ doing' = [doing EXCEPT ![w] = Taking!Idle]
           \/ doing' = [doing EXCEPT ![w] = [at |-> "claimed", intent |-> i]]
           \/ doing' = [doing EXCEPT ![w].at = "posted"] /\ doing[w].at = "claimed"
        /\ \/ UNCHANGED <<posts, notice>>
           \/ /\ posts' = [posts EXCEPT ![intents[i].ref] = @ + 1]
              /\ notice' = [notice EXCEPT ![intents[i].ref] = intents[i].body]
        /\ UNCHANGED mishaps \/ Taking!Fault
        /\ UNCHANGED <<recipient, destination, had, taking, asked, heard, viewed, moves>>
  BY WorkMoves
<1>3. intents[i].ref \in Taking!Ref /\ intents[i].body \in Taking!Body
        /\ again' \subseteq Taking!Ref
        /\ again \subseteq again'
  BY <1>1, <1>2, IntentAt DEF Taking!TypeOK
<1>4. intents' \in Seq(IntentRecord) /\ DOMAIN intents' = DOMAIN intents
  <2>1. CASE Taking!Becomes(i, s)
    BY <1>1, <1>3, <2>1, MoveIntent DEF Taking!Severity
  <2> QED BY <1>1, <1>2, <2>1
<1>5. \A m \in queued' : m[1] \in DOMAIN intents'
  BY <1>1, <1>2, <1>4 DEF Taking!With, Taking!Without
<1>6. doing' \in [Tasker -> Working]
  <2>1. CASE doing' = [doing EXCEPT ![w].at = "posted"] /\ doing[w].at = "claimed"
    <3>1. doing[w] \in [at : {"claimed", "posted"}, intent : Nat]
      BY <1>1, <2>1 DEF Taking!Idle
    <3>2. [doing[w] EXCEPT !.at = "posted"] \in Working
      BY <3>1
    <3> QED BY <1>1, <2>1, <3>2
  <2>2. CASE ~(doing' = [doing EXCEPT ![w].at = "posted"] /\ doing[w].at = "claimed")
    <3>1. [at |-> "claimed", intent |-> i] \in Working /\ Taking!Idle \in Working
      BY <1>1
    <3> QED BY <1>1, <1>2, <2>2, <3>1
  <2> QED BY <2>1, <2>2
<1>7. posts' \in [Taking!Ref -> Nat] /\ notice' \in [Taking!Ref -> Taking!Body \cup {"none"}]
  <2>1. CASE UNCHANGED <<posts, notice>>
    BY <1>1, <2>1
  <2>2. CASE /\ posts' = [posts EXCEPT ![intents[i].ref] = @ + 1]
             /\ notice' = [notice EXCEPT ![intents[i].ref] = intents[i].body]
    <3>1. posts' \in [Taking!Ref -> Nat]
      BY <1>1, <1>3, <2>2
    <3>2. notice' \in [Taking!Ref -> Taking!Body \cup {"none"}]
      BY <1>1, <1>3, <2>2
    <3> QED BY <3>1, <3>2
  <2> QED BY <1>2, <2>1, <2>2
<1>8. mishaps' \in 0..IntakeFaults
  BY <1>1, <1>2 DEF Taking!Fault, Taking!TypeOK
<1> QED BY <1>1, <1>2, <1>3, <1>4, <1>5, <1>6, <1>7, <1>8 DEF Taking!TypeOK, IntentRecord

\* A step keeps the types.
LEMMA IntakeTypes ==
  ASSUME Taking!IntakeAssumption, IntakeInv, [Taking!Next]_(Taking!vars)
  PROVE  Taking!TypeOK'
<1> DEFINE Taken == [at : {"insert", "find", "enqueue"}, ref : Taking!Ref, to : Chat,
           body : Taking!Body, intent : Nat]
<1>1. /\ Taking!TypeOK /\ {MaxAsks, MaxMoves, IntakeFaults} \subseteq Nat
      /\ taking \in [Call -> {Taking!Idle} \cup Taken]
      /\ intents \in Seq(IntentRecord) /\ Len(intents) \in Nat /\ DOMAIN intents = 1..Len(intents)
  BY DEF IntakeInv, Taking!TypeOK, Taking!IntakeAssumption, IntentRecord
<1>2. ASSUME NEW c \in Call, Taking!Ask(c) PROVE Taking!TypeOK'
  <2>1. PICK r \in Taking!Ref, b \in Taking!Body :
          /\ asked[r] < MaxAsks /\ asked' = [asked EXCEPT ![r] = @ + 1]
          /\ taking' = [taking EXCEPT ![c] =
                          [at |-> "insert", ref |-> r, to |-> recipient, body |-> b, intent |-> 0]]
    BY <1>2 DEF Taking!Ask
  <2>2. asked' \in [Taking!Ref -> 0..MaxAsks]
    BY <1>1, <2>1 DEF Taking!TypeOK
  <2>3. [at |-> "insert", ref |-> r, to |-> recipient, body |-> b, intent |-> 0] \in Taken
    BY <1>1, <2>1 DEF Taking!TypeOK
  <2>4. taking' \in [Call -> {Taking!Idle} \cup Taken]
    BY <1>1, <2>1, <2>3
  <2> QED BY <1>1, <1>2, <2>2, <2>4 DEF Taking!Ask, Taking!TypeOK
<1>3. ASSUME NEW c \in Call, NEW t \in {Taking!Idle} \cup Taken, taking' = [taking EXCEPT ![c] = t],
             heard' \in [Group -> {"none", "firing", "resolved"}], mishaps' \in 0..IntakeFaults,
             \A m \in queued' : m[1] \in DOMAIN intents', intents' \in Seq(IntentRecord),
             UNCHANGED <<recipient, destination, had, doing, again, asked, notice, posts, viewed,
                         moves>>
      PROVE  Taking!TypeOK'
  <2>1. taking' \in [Call -> {Taking!Idle} \cup Taken]
    BY <1>1, <1>3
  <2> QED BY <1>1, <1>3, <2>1 DEF Taking!TypeOK, IntentRecord
<1>4. ASSUME NEW c \in Call, Taking!Insert(c) PROVE Taking!TypeOK'
  <2>1. taking[c] \in Taken
    BY <1>1, <1>4 DEF Taking!Insert, Taking!At, Taking!Idle
  <2>2. CASE Migrated /\ Taking!SameKey(taking[c]) # {}
    <3>1. /\ taking' = [taking EXCEPT ![c] = [taking[c] EXCEPT !.at = "find"]]
          /\ UNCHANGED <<intents, queued, doing, again, heard, mishaps, recipient, destination, had,
                         asked, notice, posts, viewed, moves>>
      BY <1>4, <2>2 DEF Taking!Insert
    <3>2. [taking[c] EXCEPT !.at = "find"] \in Taken
      BY <2>1
    <3> QED BY <1>1, <1>3, <3>1, <3>2 DEF Taking!TypeOK
  <2>3. CASE ~(Migrated /\ Taking!SameKey(taking[c]) # {})
    <3> DEFINE x == [ref |-> taking[c].ref, to |-> taking[c].to, body |-> taking[c].body,
               status |-> "PENDING"]
    <3>1. /\ intents' = Append(intents, x)
          /\ taking' = [taking EXCEPT ![c] = [taking[c] EXCEPT !.at = "enqueue", !.intent
               = Len(intents')]]
          /\ UNCHANGED <<queued, doing, again, heard, mishaps, recipient, destination, had, asked,
                         notice, posts, viewed, moves>>
      BY <1>4, <2>3 DEF Taking!Insert
    <3>2. x \in IntentRecord
      BY <2>1 DEF IntentRecord, Taking!Severity
    <3>3. intents' \in Seq(IntentRecord) /\ Len(intents') \in Nat
            /\ DOMAIN intents \subseteq DOMAIN intents'
      BY <1>1, <3>1, <3>2, AppendIntent
    <3>4. [taking[c] EXCEPT !.at = "enqueue", !.intent = Len(intents')] \in Taken
      BY <2>1, <3>3
    <3>7. (\A m \in queued' : m[1] \in DOMAIN intents') /\ heard' = heard /\ mishaps' = mishaps
      BY <1>1, <3>1, <3>3 DEF Taking!TypeOK
    <3>8. heard' \in [Group -> {"none", "firing", "resolved"}] /\ mishaps' \in 0..IntakeFaults
      BY <1>1, <3>7 DEF Taking!TypeOK
    <3> QED BY <1>3, <3>1, <3>3, <3>4, <3>7, <3>8
  <2> QED BY <2>2, <2>3
<1>5. ASSUME NEW c \in Call, Taking!Find(c) PROVE Taking!TypeOK'
  <2> DEFINE k == Taking!First(Taking!SameKey(taking[c]))
  <2>1. taking[c] \in Taken /\ taking[c].at = "find"
    BY <1>1, <1>5 DEF Taking!Find, Taking!At, Taking!Idle
  <2>2. k \in Taking!SameKey(taking[c])
    <3>1. Taking!SameKey(taking[c]) # {} /\ Taking!SameKey(taking[c]) \in SUBSET Nat
      BY <1>1, <1>5, <2>1 DEF Taking!SameKey, IntakeInv, IntentsFound
    <3> QED BY <3>1, Least DEF Taking!First
  <2>3. k \in Nat
    BY <1>1, <2>2 DEF Taking!SameKey
  <2> HIDE DEF k
  <2>4. /\ taking' = [taking EXCEPT ![c] = [taking[c] EXCEPT !.at = "enqueue", !.intent = k]]
        /\ UNCHANGED <<intents, queued, doing, again, heard, mishaps, recipient, destination, had,
                       asked, notice, posts, viewed, moves>>
    BY <1>5 DEF Taking!Find, k
  <2>5. [taking[c] EXCEPT !.at = "enqueue", !.intent = k] \in Taken
    BY <2>1, <2>3
  <2> QED BY <1>1, <1>3, <2>4, <2>5 DEF Taking!TypeOK
<1>6. ASSUME NEW c \in Call, Taking!StoreFails(c) PROVE Taking!TypeOK'
  <2>1. mishaps' \in 0..IntakeFaults
    BY <1>1, <1>6 DEF Taking!StoreFails, Taking!Fault, Taking!TypeOK
  <2> QED BY <1>1, <1>3, <1>6, <2>1 DEF Taking!StoreFails, Taking!TypeOK
<1>7. ASSUME NEW c \in Call, Taking!Enqueue(c) \/ Taking!EnqueueFails(c) PROVE Taking!TypeOK'
  <2>1. taking[c] \in Taken /\ taking[c].intent \in DOMAIN intents
    BY <1>1, <1>7 DEF Taking!Enqueue, Taking!EnqueueFails, Taking!At, Taking!Idle, IntakeInv,
                      IntentsFound
  <2>2. /\ mishaps' \in 0..IntakeFaults /\ (\A m \in queued' : m[1] \in DOMAIN intents')
        /\ Taking!Accepted(c)
        /\ UNCHANGED <<intents, recipient, destination, had, doing, again, asked, notice, posts,
                       viewed, moves>>
    <3>1. /\ mishaps \in 0..IntakeFaults /\ (\A m \in queued : m[1] \in DOMAIN intents)
          /\ IntakeFaults \in Nat
      BY <1>1 DEF Taking!TypeOK
    <3>2. CASE Taking!Enqueue(c)
      BY <2>1, <3>1, <3>2 DEF Taking!Enqueue, Taking!With
    <3>3. CASE Taking!EnqueueFails(c)
      <4>1. mishaps' \in 0..IntakeFaults
        BY <3>1, <3>3 DEF Taking!EnqueueFails, Taking!Fault
      <4> QED BY <3>1, <3>3, <4>1 DEF Taking!EnqueueFails
    <3> QED BY <1>7, <3>2, <3>3
  <2>3. heard' \in [Group -> {"none", "firing", "resolved"}]
    <3>1. CASE taking[c].ref \notin Group
      BY <1>1, <2>2, <3>1 DEF Taking!Accepted, Taking!TypeOK
    <3>2. CASE taking[c].ref \in Group
      <4>1. taking[c].body \in {"firing", "resolved"}
        BY <1>1, <2>1, <3>2 DEF IntakeInv, Addressed, Taking!Body
      <4> QED BY <1>1, <2>2, <3>2, <4>1 DEF Taking!Accepted, Taking!TypeOK
    <3> QED BY <3>1, <3>2
  <2> QED BY <1>1, <1>3, <2>2, <2>3 DEF Taking!Accepted
<1>8. ASSUME NEW w \in Tasker, IntakeWork(w) PROVE Taking!TypeOK'
  BY <1>8, WorkTypes
<1>9. ASSUME NEW i \in DOMAIN intents, Taking!Requeue(i) PROVE Taking!TypeOK'
  <2>1. \A m \in queued' : m[1] \in DOMAIN intents'
    BY <1>1, <1>9 DEF Taking!Requeue, Taking!With, Taking!TypeOK
  <2>2. mishaps' \in 0..IntakeFaults
    BY <1>1, <1>9 DEF Taking!Requeue, Taking!Fault, Taking!TypeOK
  <2> QED BY <1>1, <1>9, <2>1, <2>2 DEF Taking!Requeue, Taking!TypeOK
<1>10. ASSUME NEW a \in Alert, Taking!View(a) PROVE Taking!TypeOK'
  <2>1. Taking!Records(a) # {} => Taking!Worst(Taking!Records(a)) \in DOMAIN Taking!Severity
    <3>1. \A i \in Taking!Records(a) : intents[i].status \in DOMAIN Taking!Severity
      BY <1>1, IntentAt DEF Taking!Records
    <3> QED BY <3>1, WorstThere
  <2>2. viewed' \in [Alert -> [state : DOMAIN Taking!Severity \cup {"UNKNOWN"}, of : Nat]]
    BY <1>1, <1>10, <2>1 DEF Taking!View, Taking!TypeOK
  <2> QED BY <1>1, <1>10, <2>2 DEF Taking!View, Taking!TypeOK
<1>11. ASSUME Taking!MoveServer PROVE Taking!TypeOK'
  <2>1. moves' \in 0..MaxMoves
    BY <1>1, <1>11 DEF Taking!MoveServer, Taking!TypeOK
  <2>2. taking' \in [Call -> {Taking!Idle} \cup Taken]
    BY <1>11 DEF Taking!MoveServer
  <2> QED BY <1>1, <1>11, <2>1, <2>2 DEF Taking!MoveServer, Taking!TypeOK
<1>12. ASSUME Taking!MoveWorkers PROVE Taking!TypeOK'
  <2>1. moves' \in 0..MaxMoves
    BY <1>1, <1>12 DEF Taking!MoveWorkers, Taking!TypeOK
  <2> QED BY <1>1, <1>12, <2>1 DEF Taking!MoveWorkers, Taking!TypeOK
<1>13. ASSUME UNCHANGED Taking!vars PROVE Taking!TypeOK'
  BY <1>1, <1>13 DEF Taking!vars, Taking!TypeOK
<1> QED BY <1>2, <1>4, <1>5, <1>6, <1>7, <1>8, <1>9, <1>10, <1>11, <1>12, <1>13 DEF Taking!Next,
     Taking!Serve, IntakeWork

\* Requests that fit go on fitting, and so does one that is taken a step further.
LEMMA FitsStay ==
  ASSUME Taking!IntakeAssumption, IntakeInv, Taking!TypeOK', IntentsGrow, had \subseteq had',
         \A i \in DOMAIN intents' \ DOMAIN intents : intents'[i].to \in had',
         \A c \in Call :
           \/ taking'[c] = taking[c]
           \/ taking'[c].at = "idle"
           \/ /\ taking'[c].at = "insert" /\ taking'[c].to \in had'
              /\ taking'[c].ref \in Group => taking'[c].body # "alert"
           \/ /\ taking[c].at # "idle" /\ taking'[c].ref = taking[c].ref
              /\ taking'[c].to = taking[c].to
              /\ taking'[c].body = taking[c].body
              /\ \/ /\ taking'[c].at = "enqueue" /\ taking'[c].intent \in DOMAIN intents'
                    /\ intents'[taking'[c].intent].ref = taking[c].ref
                    /\ intents'[taking'[c].intent].to = taking[c].to
                 \/ /\ taking'[c].at = "find"
                    /\ \E i \in DOMAIN intents : intents[i].ref = taking[c].ref
                         /\ intents[i].to = taking[c].to
  PROVE  Addressed' /\ IntentsFound'
<1>1. /\ Taking!TypeOK /\ DOMAIN intents = 1..Len(intents) /\ DOMAIN intents' = 1..Len(intents')
      /\ Len(intents) \in Nat /\ Len(intents') \in Nat /\ Len(intents) <= Len(intents')
  BY DEF IntakeInv, Taking!TypeOK, IntentsGrow
<1>2. \A i \in DOMAIN intents : i \in DOMAIN intents' /\ intents'[i].ref = intents[i].ref
        /\ intents'[i].to = intents[i].to
  BY <1>1 DEF IntentsGrow
<1>3. Addressed /\ IntentsFound
  BY DEF IntakeInv
<1>4. \A i \in DOMAIN intents' : intents'[i].to \in had'
  BY <1>2, <1>3 DEF Addressed
<1>5. ASSUME NEW c \in Call
      PROVE  /\ taking'[c].at # "idle" => taking'[c].to \in had'
             /\ taking'[c].at # "idle" /\ taking'[c].ref \in Group => taking'[c].body # "alert"
             /\ taking'[c].at = "enqueue" =>
                  /\ taking'[c].intent \in DOMAIN intents'
                  /\ intents'[taking'[c].intent].ref = taking'[c].ref
                  /\ intents'[taking'[c].intent].to = taking'[c].to
             /\ taking'[c].at = "find" =>
                  \E i \in DOMAIN intents' : intents'[i].ref = taking'[c].ref
                    /\ intents'[i].to = taking'[c].to
  <2>1. CASE taking'[c] = taking[c]
    BY <1>2, <1>3, <2>1 DEF Addressed, IntentsFound
  <2>2. CASE taking'[c].at \in {"idle", "insert"} /\ taking'[c] # taking[c]
    BY <2>2
  <2>3. CASE taking'[c].at \notin {"idle", "insert"} /\ taking'[c] # taking[c]
    BY <1>2, <1>3, <2>3 DEF Addressed
  <2> QED BY <2>1, <2>2, <2>3
<1> QED BY <1>4, <1>5 DEF Addressed, IntentsFound

\* A step that leaves the intents alone.
LEMMA IntentsRest ==
  ASSUME Taking!IntakeAssumption, IntakeInv, Taking!TypeOK', had \subseteq had',
         UNCHANGED <<intents, posts, doing, again>>
  PROVE  /\ IntentsGrow /\ Len(intents') \in Nat
         /\ (Migrated => KeysApart' /\ PostsCounted') /\ WorkFits' /\ WorkAlone'
         /\ \A i \in DOMAIN intents' \ DOMAIN intents : intents'[i].to \in had'
<1>1. Len(intents) \in Nat
  BY DEF IntakeInv, Taking!TypeOK
<1>2. IntentsGrow
  BY <1>1 DEF IntentsGrow
<1>3. \A r \in Taking!Ref : ToldTo(r)' = ToldTo(r)
  BY DEF ToldTo, Told
<1>4. Migrated => KeysApart' /\ PostsCounted'
  BY <1>3 DEF IntakeInv, KeysApart, PostsCounted
<1>5. WorkFits' /\ WorkAlone'
  BY DEF IntakeInv, WorkFits, WorkAlone, Taking!Done
<1> QED BY <1>1, <1>2, <1>4, <1>5

\* A step of the server that leaves the intents alone: it takes a request a step further, or
\* drops it.
LEMMA IntakeServes ==
  ASSUME Taking!IntakeAssumption, IntakeInv, Taking!TypeOK', NEW c \in Call,
         Taking!Ask(c) \/ Taking!Find(c) \/ Taking!StoreFails(c) \/ Taking!Enqueue(c)
           \/ Taking!EnqueueFails(c)
  PROVE  IntakeInv'
<1>1. /\ Taking!TypeOK /\ UNCHANGED <<intents, posts, had, viewed, doing, again>>
      /\ Addressed /\ IntentsFound /\ DOMAIN taking = Call /\ recipient \in had
  BY DEF IntakeInv, Taking!TypeOK, Taking!Ask, Taking!Find, Taking!StoreFails, Taking!Enqueue,
         Taking!EnqueueFails
<1>2. /\ IntentsGrow /\ Len(intents') \in Nat /\ (Migrated => KeysApart' /\ PostsCounted')
      /\ WorkFits' /\ WorkAlone'
  BY <1>1, IntentsRest
<1>3. ViewsBehind' /\ Taking!ShownIsTheWorst'
  BY <1>1, <1>2, ShownStays DEF IntakeInv
<1>4. \A d \in Call \ {c} : taking'[d] = taking[d]
  BY <1>1 DEF Taking!Ask, Taking!Find, Taking!StoreFails, Taking!Enqueue, Taking!EnqueueFails,
              Taking!Accepted
<1>5. \/ taking'[c].at = "idle"
      \/ /\ taking'[c].at = "insert" /\ taking'[c].to \in had'
         /\ taking'[c].ref \in Group => taking'[c].body # "alert"
      \/ /\ taking[c].at # "idle" /\ taking'[c].ref = taking[c].ref /\ taking'[c].to = taking[c].to
         /\ taking'[c].body = taking[c].body
         /\ taking'[c].at = "enqueue" /\ taking'[c].intent \in DOMAIN intents'
         /\ intents'[taking'[c].intent].ref = taking[c].ref
         /\ intents'[taking'[c].intent].to = taking[c].to
  <2>1. CASE Taking!Ask(c)
    <3>1. PICK r \in Taking!Ref, b \in Taking!Body :
            /\ IF r \in Alert THEN b = "alert" ELSE b # "alert"
            /\ taking' = [taking EXCEPT ![c] =
                            [at |-> "insert", ref |-> r, to |-> recipient, body |-> b,
                            intent |-> 0]]
      BY <2>1 DEF Taking!Ask, Taking!Body
    <3>2. r \in Group => b # "alert"
      BY <3>1 DEF Taking!IntakeAssumption
    <3> QED BY <1>1, <3>1, <3>2
  <2>2. CASE Taking!Find(c)
    <3> DEFINE k == Taking!First(Taking!SameKey(taking[c]))
    <3>1. /\ taking[c].at = "find"
          /\ taking' = [taking EXCEPT ![c] = [taking[c] EXCEPT !.at = "enqueue", !.intent = k]]
      BY <2>2 DEF Taking!Find, Taking!At
    <3>2. Taking!SameKey(taking[c]) # {} /\ Taking!SameKey(taking[c]) \in SUBSET Nat
      <4>1. DOMAIN intents = 1 .. Len(intents) /\ Len(intents) \in Nat
        BY <1>1 DEF Taking!TypeOK
      <4> QED BY <1>1, <3>1, <4>1 DEF Taking!SameKey, IntentsFound
    <3>3. k \in Taking!SameKey(taking[c])
      BY <3>2, Least DEF Taking!First
    <3>4. k \in DOMAIN intents /\ intents[k].ref = taking[c].ref /\ intents[k].to = taking[c].to
      BY <3>3 DEF Taking!SameKey
    <3> HIDE DEF k
    <3>5. taking[c] \in [at : {"insert", "find", "enqueue"}, ref : Taking!Ref, to : Chat,
          body : Taking!Body, intent : Nat]
      BY <1>1, <3>1 DEF Taking!TypeOK, Taking!Idle
    <3>6. /\ taking'[c].at = "enqueue" /\ taking'[c].intent = k /\ taking'[c].ref = taking[c].ref
          /\ taking'[c].to = taking[c].to /\ taking'[c].body = taking[c].body
      BY <1>1, <3>1, <3>5
    <3> QED BY <1>1, <3>1, <3>4, <3>6
  <2>3. CASE Taking!StoreFails(c) \/ Taking!Enqueue(c) \/ Taking!EnqueueFails(c)
    BY <1>1, <2>3 DEF Taking!StoreFails, Taking!Enqueue, Taking!EnqueueFails, Taking!Accepted,
                      Taking!Idle
  <2> QED BY <2>1, <2>2, <2>3
<1>6. Addressed' /\ IntentsFound'
  BY <1>1, <1>2, <1>4, <1>5, FitsStay
<1> QED BY <1>2, <1>3, <1>6 DEF IntakeInv

\* The intent of a request is stored, unless there is one with its key.
LEMMA IntakeInserts ==
  ASSUME Taking!IntakeAssumption, IntakeInv, Taking!TypeOK', NEW c \in Call, Taking!Insert(c)
  PROVE  IntakeInv'
<1>1. /\ Taking!TypeOK /\ UNCHANGED <<posts, had, viewed, doing, again>>
      /\ Addressed /\ IntentsFound /\ DOMAIN taking = Call /\ taking[c].at = "insert"
      /\ \A d \in Call \ {c} : taking'[d] = taking[d]
  BY DEF IntakeInv, Taking!TypeOK, Taking!Insert, Taking!At
<1>2. taking[c] \in [at : {"insert", "find", "enqueue"}, ref : Taking!Ref, to : Chat,
      body : Taking!Body, intent : Nat]
  BY <1>1 DEF Taking!TypeOK, Taking!Idle
<1>3. CASE Migrated /\ Taking!SameKey(taking[c]) # {}
  <2>1. /\ intents' = intents
        /\ taking' = [taking EXCEPT ![c] = [taking[c] EXCEPT !.at = "find"]]
    BY <1>3 DEF Taking!Insert
  <2>2. /\ taking'[c].at = "find" /\ taking'[c].ref = taking[c].ref
        /\ taking'[c].to = taking[c].to /\ taking'[c].body = taking[c].body
    BY <1>1, <1>2, <2>1
  <2>3. \E i \in DOMAIN intents : intents[i].ref = taking[c].ref /\ intents[i].to = taking[c].to
    BY <1>3 DEF Taking!SameKey
  <2>4. /\ IntentsGrow /\ Len(intents') \in Nat /\ (Migrated => KeysApart' /\ PostsCounted')
        /\ WorkFits' /\ WorkAlone'
    BY <1>1, <2>1, IntentsRest
  <2>5. ViewsBehind' /\ Taking!ShownIsTheWorst'
    BY <1>1, <2>4, ShownStays DEF IntakeInv
  <2>6. Addressed' /\ IntentsFound'
    BY <1>1, <2>1, <2>2, <2>3, <2>4, FitsStay
  <2> QED BY <2>4, <2>5, <2>6 DEF IntakeInv
<1>4. CASE ~(Migrated /\ Taking!SameKey(taking[c]) # {})
  <2> DEFINE x == [ref |-> taking[c].ref, to |-> taking[c].to, body |-> taking[c].body,
             status |-> "PENDING"]
             n == Len(intents) + 1
  <2>1. /\ intents' = Append(intents, x)
        /\ taking' = [taking EXCEPT ![c] = [taking[c] EXCEPT !.at = "enqueue", !.intent
             = Len(intents')]]
    BY <1>4 DEF Taking!Insert
  <2>2. x \in IntentRecord /\ x.ref = taking[c].ref /\ x.to = taking[c].to /\ x.status = "PENDING"
    BY <1>2 DEF IntentRecord, Taking!Severity
  <2> HIDE DEF x
  <2>3. /\ Len(intents) \in Nat /\ Len(intents') = n /\ IntentsGrow
        /\ DOMAIN intents = 1 .. Len(intents) /\ DOMAIN intents' = 1 .. n
        /\ \A j \in DOMAIN intents : j \in DOMAIN intents' /\ intents'[j] = intents[j]
        /\ intents'[n] = x
    BY <1>1, <2>1, <2>2, AppendIntent
  <2>4. /\ taking'[c].at = "enqueue" /\ taking'[c].ref = taking[c].ref /\ taking'[c].intent = n
        /\ taking'[c].to = taking[c].to /\ taking'[c].body = taking[c].body
    BY <1>1, <1>2, <2>1, <2>3
  <2>5. n \in DOMAIN intents' /\ DOMAIN intents' = DOMAIN intents \cup {n}
          /\ n \notin DOMAIN intents
    BY <2>3
  <2> HIDE DEF n
  <2>6. taking[c].to \in had
    BY <1>1 DEF Addressed
  <2>7. Addressed' /\ IntentsFound'
    BY <1>1, <2>2, <2>3, <2>4, <2>5, <2>6, FitsStay
  <2>8. ViewsBehind' /\ Taking!ShownIsTheWorst'
    BY <1>1, <2>3, ShownStays DEF IntakeInv, n
  <2>9. ASSUME Migrated PROVE KeysApart' /\ PostsCounted'
    <3>1. \A i \in DOMAIN intents : ~(intents[i].ref = x.ref /\ intents[i].to = x.to)
      BY <1>4, <2>2, <2>9 DEF Taking!SameKey
    <3>2. KeysApart'
      BY <2>3, <2>5, <2>9, <3>1 DEF KeysApart, IntakeInv
    <3>3. \A w \in Tasker : doing[w].at = "posted" => doing[w].intent # n
      BY <2>5 DEF IntakeInv, WorkFits
    <3>4. \A i \in DOMAIN intents : intents'[i] = intents[i] /\ (Told(i)' <=> Told(i))
      BY <1>1, <2>3 DEF Told
    <3>5. PICK m : m = n
      OBVIOUS
    <3>6. intents'[m].status = "PENDING"
      BY <2>2, <2>3, <3>5
    <3>7. ~Told(m)'
      BY <1>1, <3>3, <3>5, <3>6 DEF Told
    <3>8. DOMAIN intents' = DOMAIN intents \cup {m}
      BY <2>5, <3>5
    <3>9. \A r \in Taking!Ref : ToldTo(r)' = ToldTo(r)
      BY <3>4, <3>7, <3>8 DEF ToldTo
    <3> QED BY <1>1, <2>9, <3>2, <3>9 DEF PostsCounted, IntakeInv
  <2>10. WorkFits' /\ WorkAlone'
    <3>1. \A w \in Tasker : doing[w].at # "idle" =>
            doing[w].intent \in DOMAIN intents'
              /\ intents'[doing[w].intent] = intents[doing[w].intent]
      BY <2>3 DEF IntakeInv, WorkFits
    <3> QED BY <1>1, <3>1 DEF IntakeInv, WorkFits, WorkAlone, Taking!Done
  <2> QED BY <2>7, <2>8, <2>9, <2>10 DEF IntakeInv
<1> QED BY <1>3, <1>4

\* A worker that claims an intent, posts it, or is through with it leaves the others where they are.
LEMMA WorkStays ==
  ASSUME IntakeInv, Taking!TypeOK, NEW w \in Tasker, NEW i \in DOMAIN intents,
         again \subseteq again', DOMAIN intents \subseteq DOMAIN intents',
         \A j \in DOMAIN intents : intents'[j].ref = intents[j].ref
           /\ intents'[j].to = intents[j].to,
         \A j \in DOMAIN intents \ {i} : intents'[j].status = intents[j].status,
         \A v \in Tasker \ {w} : doing'[v] = doing[v],
         doing[w].at # "idle" => doing[w].intent = i,
         \/ doing'[w].at = "idle" /\ doing[w].at # "idle"
         \/ doing'[w].at = "idle" /\ intents[i].to = Unset
         \/ doing'[w].at = "idle" /\ intents'[i].status = intents[i].status
         \/ /\ doing'[w].at # "idle" /\ doing'[w].intent = i /\ intents[i].to # Unset
            /\ Taking!Done(i)' => intents[i].ref \in again'
            /\ doing[w].at = "idle" /\ Taking!AtWork(i) => intents[i].ref \in again'
  PROVE  WorkFits' /\ WorkAlone'
<1>1. WorkFits /\ WorkAlone
  BY DEF IntakeInv
<1>2. ASSUME NEW v \in Tasker \ {w}, doing[v].at # "idle"
      PROVE  /\ doing[v].intent \in DOMAIN intents'
             /\ intents'[doing[v].intent].to # Unset
             /\ intents'[doing[v].intent].status \in {"SENT", "DEAD"} =>
                  intents'[doing[v].intent].ref \in again'
             /\ intents[doing[v].intent].ref = intents'[doing[v].intent].ref
             /\ doing'[w].at # "idle" /\ doing'[w].intent = doing[v].intent =>
                  intents[doing[v].intent].ref \in again'
  <2>0. PICK k : k = doing[v].intent
    OBVIOUS
  <2>1. /\ k \in DOMAIN intents /\ intents[k].to # Unset /\ k \in DOMAIN intents'
        /\ intents'[k].to = intents[k].to /\ intents'[k].ref = intents[k].ref
        /\ Taking!Done(k) => intents[k].ref \in again
    BY <1>1, <1>2, <2>0 DEF WorkFits
  <2>2. doing[w].at # "idle" /\ k = i => intents[k].ref \in again
    BY <1>1, <1>2, <2>0 DEF WorkAlone
  <2>3. k = i => Taking!AtWork(i)
    BY <1>2, <2>0 DEF Taking!AtWork, Taking!Free
  <2>4. doing'[w].at # "idle" /\ doing'[w].intent = k => intents[k].ref \in again'
    BY <2>2, <2>3
  <2>5. Taking!Done(k)' => intents[k].ref \in again'
    <3>1. CASE k = i
      <4>1. CASE doing'[w].at = "idle" /\ intents'[i].status = intents[i].status
        BY <2>1, <3>1, <4>1 DEF Taking!Done
      <4>2. CASE doing[w].at # "idle"
        BY <2>2, <3>1, <4>2
      <4>3. CASE doing'[w].at # "idle"
        BY <2>4, <3>1, <4>3
      <4> QED BY <2>1, <3>1, <4>1, <4>2, <4>3
    <3>2. CASE k # i
      <4>1. intents'[k].status = intents[k].status
        BY <2>1, <3>2
      <4>2. Taking!Done(k)' => Taking!Done(k)
        BY <4>1 DEF Taking!Done
      <4> QED BY <2>1, <4>2
    <3> QED BY <3>1, <3>2
  <2> QED BY <2>0, <2>1, <2>4, <2>5 DEF Taking!Done
<1>3. doing'[w].at # "idle" =>
        /\ doing'[w].intent = i /\ i \in DOMAIN intents' /\ intents'[i].to # Unset
        /\ intents'[i].ref = intents[i].ref
        /\ intents'[i].status \in {"SENT", "DEAD"} => intents'[i].ref \in again'
  BY DEF Taking!Done
<1>4. WorkFits'
  <2> SUFFICES ASSUME NEW v \in Tasker, doing'[v].at # "idle"
               PROVE  /\ doing'[v].intent \in DOMAIN intents'
                      /\ intents'[doing'[v].intent].to # Unset
                      /\ intents'[doing'[v].intent].status \in {"SENT", "DEAD"} =>
                           intents'[doing'[v].intent].ref \in again'
    BY DEF WorkFits, Taking!Done
  <2>1. CASE v = w
    BY <1>3, <2>1
  <2>2. CASE v # w
    BY <1>2, <2>2
  <2> QED BY <2>1, <2>2
<1>5. WorkAlone'
  <2> SUFFICES ASSUME NEW v \in Tasker, NEW u \in Tasker, v # u, doing'[v].at # "idle",
                      doing'[u].at # "idle", doing'[v].intent = doing'[u].intent
               PROVE  intents'[doing'[u].intent].ref \in again'
    BY DEF WorkAlone
  <2>1. CASE v = w
    BY <1>2, <1>3, <2>1
  <2>2. CASE u = w
    BY <1>2, <1>3, <2>2
  <2>3. CASE v # w /\ u # w
    <3>1. /\ doing[v].at # "idle" /\ doing[u].at # "idle" /\ doing[v].intent = doing[u].intent
          /\ doing'[u] = doing[u]
      BY <2>3
    <3>2. intents[doing[u].intent].ref \in again
      BY <1>1, <3>1 DEF WorkAlone
    <3> QED BY <1>2, <2>3, <3>1, <3>2
  <2> QED BY <2>1, <2>2, <2>3
<1> QED BY <1>4, <1>5

\* Nothing is posted of what is counted, and who was told stays told.
LEMMA ToldStays ==
  ASSUME Taking!IntakeAssumption, Taking!TypeOK, Taking!TypeOK', PostsCounted,
         \A r \in Taking!Ref : r \in again' \/ posts'[r] = posts[r],
         again \subseteq again', DOMAIN intents \subseteq DOMAIN intents',
         \A j \in DOMAIN intents : intents'[j].ref = intents[j].ref
           /\ intents'[j].to = intents[j].to,
         \A j \in DOMAIN intents : Told(j) => Told(j)' \/ intents[j].ref \in again'
  PROVE  PostsCounted'
<1> SUFFICES ASSUME NEW r \in Taking!Ref, r \notin again' PROVE posts'[r] <= Cardinality(ToldTo(r)')
  BY DEF PostsCounted
<1>1. ToldTo(r) \subseteq ToldTo(r)'
  BY DEF ToldTo
<1>2. IsFiniteSet(ToldTo(r)') /\ Cardinality(ToldTo(r)') \in Nat
  <2>1. \A i \in DOMAIN intents' : intents'[i].to \in Chat
    <3>1. intents' \in Seq(IntentRecord)
      BY DEF Taking!TypeOK, IntentRecord
    <3>2. \A i \in DOMAIN intents' : intents'[i] \in IntentRecord
      BY <3>1
    <3> QED BY <3>2 DEF IntentRecord
  <2>2. ToldTo(r)' \subseteq Chat
    BY <2>1 DEF ToldTo
  <2> QED BY <2>2, SameSizes, FS_Subset, FS_CardinalityType DEF Taking!IntakeAssumption
<1>3. Cardinality(ToldTo(r)) <= Cardinality(ToldTo(r)') /\ Cardinality(ToldTo(r)) \in Nat
  BY <1>1, <1>2, FS_Subset, FS_CardinalityType
<1>4. posts[r] \in Nat /\ posts'[r] = posts[r] /\ posts[r] <= Cardinality(ToldTo(r))
  BY DEF PostsCounted, Taking!TypeOK
<1> QED BY <1>2, <1>3, <1>4

\* An intent that is posted is one that nobody has told of.
LEMMA ToldAnew ==
  ASSUME Taking!IntakeAssumption, IntakeInv, Migrated, NEW w \in Tasker, Taking!Post(w)
  PROVE  KeysApart' /\ PostsCounted'
<1>0. PICK i : i = doing[w].intent
  OBVIOUS
<1>1. /\ Taking!TypeOK /\ KeysApart /\ PostsCounted /\ WorkFits /\ WorkAlone
      /\ UNCHANGED <<intents, again>> /\ doing[w].at = "claimed" /\ i \in DOMAIN intents
      /\ posts' = [posts EXCEPT ![intents[i].ref] = @ + 1] /\ posts \in [Taking!Ref -> Nat]
  BY <1>0 DEF IntakeInv, Taking!TypeOK, Taking!Post, Taking!Posts, WorkFits
<1>2. KeysApart'
  BY <1>1 DEF KeysApart
<1>3. doing'[w].at = "posted" /\ doing'[w].intent = i
        /\ \A v \in Tasker \ {w} : doing'[v] = doing[v]
  <2>1. doing[w] \in [at : {"claimed", "posted"}, intent : Nat]
    BY <1>1 DEF Taking!TypeOK, Taking!Idle
  <2>2. doing' = [doing EXCEPT ![w] = [doing[w] EXCEPT !.at = "posted"]] /\ DOMAIN doing = Tasker
    BY <1>1 DEF Taking!Post, Taking!TypeOK
  <2> QED BY <1>0, <2>1, <2>2
<1>4. intents[i].ref \in Taking!Ref
  BY <1>1, IntentAt
<1>5. Told(i)'
  BY <1>3 DEF Told
<1>6. \A j \in DOMAIN intents \ {i} : Told(j)' <=> Told(j)
  BY <1>0, <1>1, <1>3 DEF Told
<1>7. ASSUME NEW r \in Taking!Ref, r \notin again
      PROVE  posts'[r] <= Cardinality(ToldTo(r)')
  <2>1. CASE r = intents[i].ref
    <3>1. ~Told(i)
      <4>1. intents[i].status # "SENT"
        BY <1>0, <1>1, <1>7, <2>1 DEF WorkFits, Taking!Done
      <4>2. \A v \in Tasker : ~(doing[v].at = "posted" /\ doing[v].intent = i)
        BY <1>0, <1>1, <1>7, <2>1 DEF WorkAlone
      <4> QED BY <4>1, <4>2 DEF Told
    <3>2. ToldTo(r)' = ToldTo(r) \cup {intents[i].to}
      BY <1>1, <1>5, <1>6, <2>1 DEF ToldTo
    <3>3. intents[i].to \notin ToldTo(r)
      BY <1>1, <2>1, <3>1 DEF ToldTo, KeysApart
    <3>4. Cardinality(ToldTo(r)') = Cardinality(ToldTo(r)) + 1 /\ Cardinality(ToldTo(r)) \in Nat
      BY <1>1, <3>2, <3>3, ToldFinite, FS_AddElement
    <3>5. posts'[r] = posts[r] + 1 /\ posts[r] \in Nat /\ posts[r] <= Cardinality(ToldTo(r))
      BY <1>1, <1>7, <2>1 DEF PostsCounted
    <3> QED BY <3>4, <3>5
  <2>2. CASE r # intents[i].ref
    <3>1. ToldTo(r)' = ToldTo(r)
      BY <1>1, <1>6, <2>2 DEF ToldTo
    <3>2. posts'[r] = posts[r]
      BY <1>1, <1>4, <2>2
    <3> QED BY <1>1, <1>7, <3>1, <3>2 DEF PostsCounted
  <2> QED BY <2>1, <2>2
<1> QED BY <1>1, <1>2, <1>7 DEF PostsCounted

\* A claim is of an intent that is open, and a post goes on with it.
LEMMA IntakeClaims ==
  ASSUME Taking!IntakeAssumption, IntakeInv, Taking!TypeOK', NEW w \in Tasker,
         Taking!Claim(w) \/ Taking!Post(w)
  PROVE  IntentsGrow /\ WorkFits' /\ WorkAlone' /\ (Migrated => KeysApart' /\ PostsCounted')
<1>1. /\ Taking!TypeOK /\ DOMAIN doing = Tasker
      /\ intents \in Seq(IntentRecord) /\ Len(intents) \in Nat
  BY DEF IntakeInv, Taking!TypeOK, IntentRecord
<1>2. CASE Taking!Claim(w)
  <2>1. PICK i \in DOMAIN intents :
          /\ doing[w].at = "idle" /\ ~Taking!Done(i) /\ intents[i].to # Unset
          /\ Taking!Becomes(i, "PENDING")
          /\ doing' = [doing EXCEPT ![w] = [at |-> "claimed", intent |-> i]]
          /\ again' = IF Taking!AtWork(i) THEN again \cup {intents[i].ref} ELSE again
    BY <1>2 DEF Taking!Claim, Taking!Takes, Taking!Free
  <2>2. /\ DOMAIN intents' = DOMAIN intents /\ IntentsGrow /\ again \subseteq again'
        /\ \A j \in DOMAIN intents :
             /\ intents'[j].ref = intents[j].ref /\ intents'[j].to = intents[j].to
             /\ intents'[j].status = IF j = i THEN "PENDING" ELSE intents[j].status
    BY <1>1, <2>1, MoveIntent DEF Taking!Severity
  <2>3. /\ doing'[w].at = "claimed" /\ doing'[w].intent = i
        /\ \A v \in Tasker \ {w} : doing'[v] = doing[v]
    BY <1>1, <2>1
  <2>4. ~Taking!Done(i)' /\ (Taking!AtWork(i) => intents[i].ref \in again')
    BY <2>1, <2>2 DEF Taking!Done
  <2>5. WorkFits' /\ WorkAlone'
    BY <1>1, <2>1, <2>2, <2>3, <2>4, WorkStays
  <2>6. \A j \in DOMAIN intents : Told(j) => Told(j)'
    BY <2>1, <2>2, <2>3 DEF Told, Taking!Done
  <2>7. Migrated => KeysApart' /\ PostsCounted'
    <3>1. Migrated => KeysApart'
      BY <2>2 DEF KeysApart, IntakeInv
    <3>2. Migrated => PostsCounted'
      BY <1>1, <1>2, <2>2, <2>6, ToldStays DEF IntakeInv, Taking!Claim
    <3> QED BY <3>1, <3>2
  <2> QED BY <2>2, <2>5, <2>7
<1>3. CASE Taking!Post(w)
  <2>1. PICK i : i = doing[w].intent
    OBVIOUS
  <2>2. /\ UNCHANGED <<intents, again>> /\ doing[w].at = "claimed" /\ i \in DOMAIN intents
        /\ intents[i].to # Unset /\ (Taking!Done(i) => intents[i].ref \in again)
    BY <1>3, <2>1 DEF IntakeInv, WorkFits, Taking!Post, Taking!Posts
  <2>3. IntentsGrow
    BY <1>1, <2>2 DEF IntentsGrow
  <2>4. /\ doing'[w].at = "posted" /\ doing'[w].intent = i
        /\ \A v \in Tasker \ {w} : doing'[v] = doing[v]
    <3>1. doing[w] \in [at : {"claimed", "posted"}, intent : Nat]
      BY <1>1, <2>2 DEF Taking!TypeOK, Taking!Idle
    <3>2. doing' = [doing EXCEPT ![w] = [doing[w] EXCEPT !.at = "posted"]]
      BY <1>3 DEF Taking!Post
    <3> QED BY <1>1, <2>1, <3>1, <3>2
  <2>5. Taking!Done(i)' => intents[i].ref \in again'
    BY <2>2 DEF Taking!Done
  <2>6. WorkFits' /\ WorkAlone'
    BY <1>1, <2>1, <2>2, <2>4, <2>5, WorkStays
  <2> QED BY <1>3, <2>3, <2>6, ToldAnew
<1> QED BY <1>2, <1>3

\* A worker passes an intent over, or is through with it.
LEMMA IntakeEnds ==
  ASSUME Taking!IntakeAssumption, IntakeInv, Taking!TypeOK', NEW w \in Tasker, IntakeWork(w),
         ~Taking!Claim(w), ~Taking!Post(w)
  PROVE  IntentsGrow /\ WorkFits' /\ WorkAlone' /\ (Migrated => KeysApart' /\ PostsCounted')
<1>1. /\ Taking!TypeOK /\ DOMAIN doing = Tasker /\ posts \in [Taking!Ref -> Nat]
      /\ intents \in Seq(IntentRecord) /\ Len(intents) \in Nat
  BY DEF IntakeInv, Taking!TypeOK, IntentRecord
<1>2. \E i \in DOMAIN intents :
        /\ again \subseteq again'
        /\ \/ intents' = intents
           \/ /\ ~Taking!Done(i) \/ intents[i].ref \in again'
              /\ \E s \in {"PENDING", "SENT", "FAILED", "DEAD"} : Taking!Becomes(i, s)
        /\ doing'[w].at = "idle" /\ \A v \in Tasker \ {w} : doing'[v] = doing[v]
        /\ doing[w].at # "idle" => doing[w].intent = i
        /\ doing[w].at # "idle" \/ intents[i].to = Unset \/ intents' = intents
        /\ doing[w].at = "posted" => Taking!Becomes(i, "SENT") \/ intents[i].ref \in again'
        /\ posts' = posts \/ (posts' = [posts EXCEPT ![intents[i].ref] = @ + 1]
                             /\ intents[i].ref \in again')
  <2> DEFINE Facts(i) ==
        /\ again \subseteq again'
        /\ \/ intents' = intents
           \/ /\ ~Taking!Done(i) \/ intents[i].ref \in again'
              /\ \E s \in {"PENDING", "SENT", "FAILED", "DEAD"} : Taking!Becomes(i, s)
        /\ doing'[w].at = "idle" /\ \A v \in Tasker \ {w} : doing'[v] = doing[v]
        /\ doing[w].at # "idle" => doing[w].intent = i
        /\ doing[w].at # "idle" \/ intents[i].to = Unset \/ intents' = intents
        /\ doing[w].at = "posted" => Taking!Becomes(i, "SENT") \/ intents[i].ref \in again'
        /\ posts' = posts \/ (posts' = [posts EXCEPT ![intents[i].ref] = @ + 1]
                             /\ intents[i].ref \in again')
  <2>1. ASSUME doing[w].at # "idle"
        PROVE  /\ doing[w].intent \in DOMAIN intents
               /\ ~Taking!Done(doing[w].intent) \/ intents[doing[w].intent].ref \in again
    BY <2>1 DEF IntakeInv, WorkFits
  <2>2. Taking!Ends(w) => doing'[w].at = "idle" /\ \A v \in Tasker \ {w} : doing'[v] = doing[v]
    BY <1>1 DEF Taking!Ends, Taking!Idle
  <2>3. CASE Taking!Skip(w)
    <3>1. PICK i \in DOMAIN intents : doing[w].at = "idle"
      BY <2>3 DEF Taking!Skip, Taking!Takes, Taking!Free
    <3>2. Facts(i)
      BY <2>3, <3>1 DEF Taking!Skip
    <3> QED BY <3>2
  <2>4. CASE Taking!Bury(w)
    <3>1. PICK i \in DOMAIN intents :
            /\ doing[w].at = "idle" /\ ~Taking!Done(i) /\ intents[i].to = Unset
            /\ Taking!Becomes(i, "DEAD")
      BY <2>4 DEF Taking!Bury, Taking!Takes, Taking!Free
    <3>2. Facts(i)
      BY <2>4, <3>1 DEF Taking!Bury
    <3> QED BY <3>2
  <2>5. CASE Taking!Unanswered(w)
    <3>1. Facts(doing[w].intent)
      BY <2>1, <2>2, <2>5 DEF Taking!Unanswered, Taking!Posts
    <3> QED BY <2>1, <2>5, <3>1 DEF Taking!Unanswered, Taking!Posts
  <2>6. CASE Taking!Record(w)
    <3>1. Facts(doing[w].intent)
      BY <2>1, <2>2, <2>6 DEF Taking!Record
    <3> QED BY <2>1, <2>6, <3>1 DEF Taking!Record
  <2>7. CASE Taking!Decline(w)
    <3>1. Facts(doing[w].intent)
      BY <2>1, <2>2, <2>7 DEF Taking!Decline
    <3> QED BY <2>1, <2>7, <3>1 DEF Taking!Decline
  <2>8. CASE Taking!Fail(w)
    <3>1. Facts(doing[w].intent)
      BY <2>1, <2>2, <2>8 DEF Taking!Fail
    <3> QED BY <2>1, <2>8, <3>1 DEF Taking!Fail
  <2>9. CASE Taking!Die(w)
    <3>1. Facts(doing[w].intent)
      BY <2>1, <2>2, <2>9 DEF Taking!Die, Taking!Free
    <3> QED BY <2>1, <2>9, <3>1 DEF Taking!Die, Taking!Free
  <2> QED BY <2>3, <2>4, <2>5, <2>6, <2>7, <2>8, <2>9 DEF IntakeWork, Taking!Deliver
<1>3. PICK i \in DOMAIN intents :
        /\ again \subseteq again'
        /\ \/ intents' = intents
           \/ /\ ~Taking!Done(i) \/ intents[i].ref \in again'
              /\ \E s \in {"PENDING", "SENT", "FAILED", "DEAD"} : Taking!Becomes(i, s)
        /\ doing'[w].at = "idle" /\ \A v \in Tasker \ {w} : doing'[v] = doing[v]
        /\ doing[w].at # "idle" => doing[w].intent = i
        /\ doing[w].at # "idle" \/ intents[i].to = Unset \/ intents' = intents
        /\ doing[w].at = "posted" => Taking!Becomes(i, "SENT") \/ intents[i].ref \in again'
        /\ posts' = posts \/ (posts' = [posts EXCEPT ![intents[i].ref] = @ + 1]
                             /\ intents[i].ref \in again')
  BY <1>2
<1>4. /\ DOMAIN intents' = DOMAIN intents /\ IntentsGrow
      /\ \A j \in DOMAIN intents :
           intents'[j].ref = intents[j].ref /\ intents'[j].to = intents[j].to
      /\ \A j \in DOMAIN intents \ {i} : intents'[j].status = intents[j].status
      /\ Taking!Becomes(i, "SENT") => intents'[i].status = "SENT"
      /\ intents' = intents \/ ~Taking!Done(i) \/ intents[i].ref \in again'
  <2>1. CASE intents' = intents
    <3>1. IntentsGrow
      BY <1>1, <1>3, <2>1 DEF IntentsGrow
    <3>2. Taking!Becomes(i, "SENT") => intents'[i].status = "SENT"
      BY <1>1, <1>3, MoveIntent DEF Taking!Severity
    <3> QED BY <2>1, <3>1, <3>2
  <2>2. CASE intents' # intents
    <3>1. PICK s \in {"PENDING", "SENT", "FAILED", "DEAD"} : Taking!Becomes(i, s)
      BY <1>3, <2>2
    <3>2. /\ DOMAIN intents' = DOMAIN intents /\ IntentsGrow
          /\ \A j \in DOMAIN intents :
               /\ intents'[j].ref = intents[j].ref /\ intents'[j].to = intents[j].to
               /\ intents'[j].status = IF j = i THEN s ELSE intents[j].status
      BY <1>1, <1>3, <2>2, <3>1, MoveIntent DEF Taking!Severity
    <3>3. Taking!Becomes(i, "SENT") => intents'[i].status = "SENT"
      BY <1>1, <1>3, MoveIntent DEF Taking!Severity
    <3> QED BY <1>3, <2>2, <3>2, <3>3
  <2> QED BY <2>1, <2>2
<1>5. WorkFits' /\ WorkAlone'
  BY <1>1, <1>3, <1>4, WorkStays
<1>6. \A j \in DOMAIN intents : Told(j) => Told(j)' \/ intents[j].ref \in again'
  <2> SUFFICES ASSUME NEW j \in DOMAIN intents, Told(j), intents[j].ref \notin again'
               PROVE  Told(j)'
    OBVIOUS
  <2>1. CASE intents[j].status = "SENT"
    BY <1>3, <1>4, <2>1 DEF Told, Taking!Done
  <2>2. CASE intents[j].status # "SENT"
    <3>1. PICK v \in Tasker : doing[v].at = "posted" /\ doing[v].intent = j
      BY <2>2 DEF Told
    <3>2. CASE v = w
      BY <1>3, <1>4, <3>1, <3>2 DEF Told
    <3>3. CASE v # w
      BY <1>3, <3>1, <3>3 DEF Told
    <3> QED BY <3>2, <3>3
  <2> QED BY <2>1, <2>2
<1>7. ASSUME Migrated PROVE KeysApart' /\ PostsCounted'
  <2>1. KeysApart /\ PostsCounted
    BY <1>7 DEF IntakeInv
  <2>2. KeysApart'
    BY <1>4, <2>1 DEF KeysApart
  <2>3. \A r \in Taking!Ref : r \in again' \/ posts'[r] = posts[r]
    BY <1>1, <1>3, IntentAt
  <2> QED BY <1>1, <1>3, <1>4, <1>6, <2>1, <2>2, <2>3, ToldStays
<1> QED BY <1>4, <1>5, <1>7

\* What a worker does keeps the invariant.
LEMMA IntakeDelivers ==
  ASSUME Taking!IntakeAssumption, IntakeInv, Taking!TypeOK', NEW w \in Tasker, IntakeWork(w)
  PROVE  IntakeInv'
<1>1. /\ Taking!TypeOK /\ UNCHANGED <<taking, had, viewed>> /\ Addressed /\ IntentsFound
      /\ DOMAIN intents' = DOMAIN intents /\ Len(intents') \in Nat
  <2>1. Taking!TypeOK /\ Addressed /\ IntentsFound /\ Len(intents') \in Nat
    BY DEF IntakeInv, Taking!TypeOK
  <2>2. PICK i \in DOMAIN intents, s \in {"PENDING", "SENT", "FAILED", "DEAD"} :
          /\ Taking!Becomes(i, s) \/ intents' = intents
          /\ again' \in {again, again \cup {intents[i].ref}}
          /\ UNCHANGED <<taking, had, viewed>>
    BY WorkMoves
  <2>3. CASE Taking!Becomes(i, s)
    BY <2>1, <2>2, <2>3, MoveIntent DEF Taking!Severity
  <2> QED BY <2>1, <2>2, <2>3
<1>2. IntentsGrow /\ WorkFits' /\ WorkAlone' /\ (Migrated => KeysApart' /\ PostsCounted')
  BY IntakeClaims, IntakeEnds
<1>3. ViewsBehind' /\ Taking!ShownIsTheWorst'
  BY <1>1, <1>2, ShownStays DEF IntakeInv
<1>4. Addressed' /\ IntentsFound'
  BY <1>1, <1>2 DEF Addressed, IntentsFound, IntentsGrow
<1> QED BY <1>2, <1>3, <1>4 DEF IntakeInv

\* What is shown of an alert is the worst of its intents.
LEMMA IntakeViews ==
  ASSUME Taking!IntakeAssumption, IntakeInv, Taking!TypeOK', NEW a \in Alert, Taking!View(a)
  PROVE  IntakeInv'
<1>1. /\ Taking!TypeOK /\ UNCHANGED <<taking, intents, posts, had, doing, again>>
      /\ Addressed /\ IntentsFound /\ DOMAIN viewed = Alert /\ Len(intents) \in Nat
      /\ DOMAIN intents = 1..Len(intents)
      /\ ViewsBehind /\ Taking!ShownIsTheWorst
  BY DEF IntakeInv, Taking!View, Taking!TypeOK
<1>2. Addressed' /\ IntentsFound'
  BY <1>1 DEF Addressed, IntentsFound
<1>3. (Migrated => KeysApart' /\ PostsCounted') /\ WorkFits' /\ WorkAlone'
  BY <1>1, IntentsRest
<1>4. /\ viewed'[a].of = Len(intents)
      /\ viewed'[a].state
           = IF Taking!Records(a) = {} THEN "UNKNOWN" ELSE Taking!Worst(Taking!Records(a))
      /\ \A b \in Alert \ {a} : viewed'[b] = viewed[b]
  BY <1>1 DEF Taking!View
<1>5. ViewsBehind'
  BY <1>1, <1>4 DEF ViewsBehind
<1>6. Taking!Records(a) = {j \in 1 .. viewed'[a].of : intents'[j].ref = a}
  BY <1>1, <1>4 DEF Taking!Records
<1> DEFINE of == {intents[i].status : i \in Taking!Records(a)}
<1>7. /\ viewed'[a].state = "SENT" => of = {"SENT"}
      /\ viewed'[a].state = "DEAD" => "DEAD" \in of
      /\ viewed'[a].state = "UNKNOWN" => of = {}
      /\ viewed'[a].state \notin {"SENT", "DEAD", "UNKNOWN"} => of # {}
  <2>1. \A i \in Taking!Records(a) : intents[i].status \in DOMAIN Taking!Severity
    BY <1>1, IntentAt DEF Taking!Records
  <2>2. CASE Taking!Records(a) = {}
    BY <1>4, <2>2
  <2>3. CASE Taking!Records(a) # {}
    <3>1. /\ viewed'[a].state \in of /\ viewed'[a].state \in DOMAIN Taking!Severity
          /\ \A i \in Taking!Records(a) :
               Taking!Severity[intents[i].status] <= Taking!Severity[viewed'[a].state]
      BY <1>4, <2>1, <2>3, WorstThere
    <3>2. /\ Taking!Severity["SENT"] = 0 /\ Taking!Severity["PENDING"] = 1
          /\ Taking!Severity["FAILED"] = 3 /\ Taking!Severity["DEAD"] = 4
          /\ DOMAIN Taking!Severity = {"SENT", "PENDING", "FAILED", "DEAD"}
      BY DEF Taking!Severity
    <3>3. ASSUME viewed'[a].state = "SENT" PROVE of = {"SENT"}
      <4>1. \A i \in Taking!Records(a) : intents[i].status = "SENT"
        BY <2>1, <3>1, <3>2, <3>3
      <4> QED BY <2>3, <4>1
    <3> QED BY <3>1, <3>2, <3>3
  <2> QED BY <2>2, <2>3
<1>8. ASSUME NEW b \in Alert, b \notin again'
      PROVE  LET new == {intents'[i].status : i \in {j \in 1 .. viewed'[b].of :
               intents'[j].ref = b}}
             IN  CASE viewed'[b].state = "SENT"    -> new = {"SENT"}
                   [] viewed'[b].state = "DEAD"    -> "DEAD" \in new
                   [] viewed'[b].state = "UNKNOWN" -> new = {}
                   [] OTHER                       -> new # {}
  <2>1. CASE b = a
    <3> DEFINE new == {intents'[i].status : i \in {j \in 1 .. viewed'[a].of : intents'[j].ref = a}}
    <3>1. new = of
      BY <1>1, <1>6
    <3> HIDE DEF new, of
    <3>2. CASE viewed'[a].state \in {"SENT", "DEAD", "UNKNOWN"}
      BY <1>7, <2>1, <3>1, <3>2 DEF new
    <3>3. CASE viewed'[a].state \notin {"SENT", "DEAD", "UNKNOWN"}
      BY <1>7, <2>1, <3>1, <3>3 DEF new
    <3> QED BY <3>2, <3>3
  <2>2. CASE b # a
    <3>1. viewed'[b] = viewed[b] /\ intents' = intents /\ Taking!ShownIsTheWorst /\ b \notin again
      BY <1>1, <1>4, <1>8, <2>2
    <3> QED BY <3>1, Zenon DEF Taking!ShownIsTheWorst
  <2> QED BY <2>1, <2>2
<1>9. Taking!ShownIsTheWorst'
  BY <1>8 DEF Taking!ShownIsTheWorst
<1> QED BY <1>2, <1>3, <1>5, <1>9 DEF IntakeInv

\* The invariant is kept by every step.
LEMMA IntakeStep ==
  ASSUME Taking!IntakeAssumption, IntakeInv, [Taking!Next]_(Taking!vars)
  PROVE  IntakeInv'
<1>1. Taking!TypeOK'
  BY IntakeTypes
<1>2. ASSUME NEW c \in Call,
             Taking!Ask(c) \/ Taking!Serve(c) \/ Taking!StoreFails(c) \/ Taking!EnqueueFails(c)
      PROVE  IntakeInv'
  BY <1>1, <1>2, IntakeServes, IntakeInserts DEF Taking!Serve
<1>3. ASSUME NEW w \in Tasker, IntakeWork(w) PROVE IntakeInv'
  BY <1>1, <1>3, IntakeDelivers
<1>4. ASSUME NEW a \in Alert, Taking!View(a) PROVE IntakeInv'
  BY <1>1, <1>4, IntakeViews
<1>5. ASSUME UNCHANGED <<intents, posts, viewed, doing, again>>, had \subseteq had',
             \A c \in Call : taking'[c] = taking[c] \/ taking'[c].at = "idle"
      PROVE  IntakeInv'
  <2>1. /\ IntentsGrow /\ Len(intents') \in Nat /\ (Migrated => KeysApart' /\ PostsCounted')
        /\ WorkFits' /\ WorkAlone'
        /\ \A i \in DOMAIN intents' \ DOMAIN intents : intents'[i].to \in had'
    BY <1>1, <1>5, IntentsRest
  <2>2. ViewsBehind' /\ Taking!ShownIsTheWorst'
    BY <1>5, <2>1, ShownStays DEF IntakeInv
  <2>3. Addressed' /\ IntentsFound'
    BY <1>1, <1>5, <2>1, FitsStay
  <2> QED BY <1>1, <2>1, <2>2, <2>3 DEF IntakeInv
<1>6. ASSUME NEW i \in DOMAIN intents, Taking!Requeue(i) PROVE IntakeInv'
  BY <1>5, <1>6 DEF Taking!Requeue
<1>7. CASE Taking!MoveServer
  <2>1. \A c \in Call : taking'[c].at = "idle"
    BY <1>7 DEF Taking!MoveServer, Taking!Idle
  <2> QED BY <1>5, <1>7, <2>1 DEF Taking!MoveServer
<1>8. CASE Taking!MoveWorkers
  BY <1>5, <1>8 DEF Taking!MoveWorkers
<1>9. CASE UNCHANGED Taking!vars
  BY <1>5, <1>9 DEF Taking!vars
<1> QED BY <1>2, <1>3, <1>4, <1>6, <1>7, <1>8, <1>9 DEF Taking!Next, IntakeWork

\* What the invariant says of the properties.
LEMMA IntakeRight ==
  ASSUME Taking!IntakeAssumption, IntakeInv
  PROVE  Taking!TypeOK /\ Taking!AcceptedIsAddressed /\ Taking!ToldOncePerRecipient
           /\ Taking!ShownIsTheWorst
<1>1. Taking!AcceptedIsAddressed
  BY DEF IntakeInv, IntentsFound, Taking!AcceptedIsAddressed, Taking!At
<1>2. Taking!ToldOncePerRecipient
  <2> SUFFICES ASSUME Migrated, NEW r \in Taking!Ref, r \notin again
               PROVE  posts[r] <= Cardinality(had)
    BY SameSizes DEF Taking!ToldOncePerRecipient
  <2>1. posts[r] \in Nat /\ posts[r] <= Cardinality(ToldTo(r)) /\ had \subseteq Chat
    BY DEF IntakeInv, Taking!TypeOK, PostsCounted
  <2>2. ToldTo(r) \subseteq had
    BY DEF IntakeInv, Addressed, ToldTo
  <2>3. IsFiniteSet(had)
    BY <2>1, FS_Subset, SameSizes DEF Taking!IntakeAssumption
  <2>4. Cardinality(ToldTo(r)) <= Cardinality(had) /\ Cardinality(ToldTo(r)) \in Nat
          /\ Cardinality(had) \in Nat
    BY <2>2, <2>3, FS_Subset, FS_CardinalityType
  <2> QED BY <2>1, <2>4
<1> QED BY <1>1, <1>2 DEF IntakeInv
=============================================================================
