---------------------------- MODULE Concealment ----------------------------
(***************************************************************************)
(* The tracker of items of the AI service (services/ai/app/concealment.py) *)
(* and the frame analysis around it (inference.py, servicer.py): what one  *)
(* camera sees of a shelf, of the items on it and of the people before it. *)
(* The plane of the image is a line of places; a box is the place of its   *)
(* centre, a body covers the places around a person, and a hand is at a    *)
(* place. Distances are numbers of places, measured in the units the code  *)
(* scales them by. The detector of objects sees every item that is in      *)
(* view; what it sees of people is arbitrary.                              *)
(***************************************************************************)
EXTENDS Integers, FiniteSets, SequencesExt

CONSTANTS
  Item,         \* the items of the shop
  Kind,         \* the class of each
  Taken,        \* those that may be moved and pocketed, the others stay where they are
  Person,       \* the track ids of people
  Width,        \* the places are 0 .. Width
  Near,         \* MATCH_HEIGHTS: how far a box may be from one of the same item
  Grab,         \* grab_ratio: how far a hand may be from an item it holds
  Move,         \* move_ratio: how far an item is once it has been moved
  Body,         \* how far a body reaches
  Settings,     \* policies: [missing, expiry], in ticks
  Forgotten,    \* bound on ages, past every setting
  MaxGap,       \* the most ticks between two frames
  MaxHands,     \* how many hands of a person are looked at
  MaxRecords,   \* bound on the records of the tracker
  None          \* no person, no verdict

Place == 0 .. Width
Gone  == -1
Class == {Kind[i] : i \in Item}

ConcealmentAssumption ==
  /\ Taken \subseteq Item
  /\ Width \in Nat /\ {Near, Grab, Move, Body} \subseteq Nat
  /\ Settings \subseteq [missing : Nat \ {0}, expiry : Nat \ {0}] /\ Settings # {}
  /\ Forgotten \in Nat /\ \A s \in Settings : s.missing < Forgotten /\ s.expiry < Forgotten
  /\ MaxGap \in Nat \ {0} /\ {MaxHands, MaxRecords} \subseteq Nat

VARIABLES
  where,     \* where each item is, or Gone: in somebody's pocket
  items,     \* _items: the records of the tracker
  fired,     \* _last_fired: how long ago the last alert was
  policy,    \* the settings in force
  verdict    \* what the last frame was found to show

vars == <<where, items, fired, policy, verdict>>

Abs(n)     == IF n < 0 THEN -n ELSE n
Dist(p, q) == Abs(p - q)

\* Ages are kept up to Forgotten.
Older(age, gap) == IF age + gap > Forgotten THEN Forgotten ELSE age + gap

\* What the pose model makes of a person: where the body is, and the hands it is sure of,
\* none where it finds no torso to measure reaches by.
Pose ==
  {q \in [id : Person, at : Place, hands : SUBSET Place] :
     /\ Cardinality(q.hands) =< MaxHands
     /\ \A h \in q.hands : Dist(h, q.at) =< Body}

\* History: of is the item whose box the record was given last, and left is whether a box of
\* that item has been given another record since.
Record == [class : Class, at : Place, rest : Place, age : 0 .. Forgotten,
           held : BOOLEAN, by : Person \cup {None}, fired : BOOLEAN, of : Item, left : BOOLEAN]

TypeOK ==
  /\ where \in [Item -> Place \cup {Gone}]
  /\ items \in Seq(Record) /\ Len(items) =< MaxRecords
  /\ fired \in 0 .. Forgotten
  /\ policy \in Settings
  /\ verdict \in [class : Class, by : Person, of : Item, left : BOOLEAN] \cup {None}

Init ==
  /\ where \in [Item -> Place]
  /\ items = <<>>
  /\ fired = Forgotten
  /\ policy \in Settings
  /\ verdict = None

-----------------------------------------------------------------------------
(* One frame. *)

\* _contains: a place is on the body of a person of the frame.
OnBody(persons, id, place) ==
  \E n \in DOMAIN persons : persons[n].id = id /\ Dist(persons[n].at, place) =< Body

\* Bug: the class of the record is forgotten.
CandidatesOfAnyClass(s, obj, persons) ==
  {n \in s.free : \/ Dist(s.items[n].at, obj.at) =< Near
                  \/ s.items[n].held /\ OnBody(persons, s.items[n].by, obj.at)}

\* _match: the nearest record of the class, the first of those as near, that is near the
\* box or whose holder the box is on.
Candidates(s, obj, persons) ==
  {n \in s.free :
     /\ s.items[n].class = obj.class
     /\ \/ Dist(s.items[n].at, obj.at) =< Near
        \/ s.items[n].held /\ OnBody(persons, s.items[n].by, obj.at)}

Closer(s, obj, m, n) ==
  LET d(k) == Dist(s.items[k].at, obj.at)
  IN  d(m) < d(n) \/ (d(m) = d(n) /\ m =< n)

Match(s, obj, near) == CHOOSE m \in near : \A n \in near : Closer(s, obj, m, n)

\* _closest_wrist: the persons whose hand is on the place, the nearest, the first of them.
Grabbing(persons, place) ==
  {a \in (DOMAIN persons) \X (0 .. Grab) :
     \E h \in persons[a[1]].hands : Dist(h, place) = a[2]}

ClosestWrist(persons, hands) ==
  LET best == CHOOSE a \in hands : \A b \in hands :
                a[2] < b[2] \/ (a[2] = b[2] /\ a[1] =< b[1])
  IN  persons[best[1]].id

\* _update_hold: a hand on it holds it; without one it is still held while it has been
\* moved and is on its holder. Who held it does not matter any more when nobody does.
UpdateHold(rec, persons) ==
  LET hands == Grabbing(persons, rec.at)
  IN  IF hands # {} THEN [rec EXCEPT !.held = TRUE, !.by = ClosestWrist(persons, hands)]
      ELSE IF rec.held /\ Dist(rec.at, rec.rest) >= Move /\ OnBody(persons, rec.by, rec.at) THEN rec
      ELSE [rec EXCEPT !.held = FALSE, !.by = None]

NewRecord(obj) ==
  [class |-> obj.class, at |-> obj.at, rest |-> obj.at, age |-> 0, held |-> FALSE, by |-> None,
   fired |-> FALSE, of |-> obj.of, left |-> FALSE]

\* observe: what becomes of the records with one box of the frame.
Matched(s, n, obj, persons) ==
  LET rec   == [s.items[n] EXCEPT !.at = obj.at, !.age = 0, !.fired = FALSE,
                                  !.of = obj.of, !.left = FALSE]
      other == [k \in DOMAIN s.items |->
                 [s.items[k] EXCEPT !.left = @ \/ s.items[k].of = obj.of]]
  IN  [items |-> [other EXCEPT ![n] = UpdateHold(rec, persons)], free |-> s.free \ {n}]

Added(s, obj, persons) ==
  [s EXCEPT !.items = Append(@, UpdateHold(NewRecord(obj), persons))]

Observed(s, obj, persons) ==
  LET near == Candidates(s, obj, persons)
  IN  IF near = {} THEN Added(s, obj, persons)
      ELSE Matched(s, Match(s, obj, near), obj, persons)

Placed(recs, objects, persons) ==
  FoldLeft(LAMBDA s, obj : Observed(s, obj, persons),
           [items |-> recs, free |-> DOMAIN recs], objects).items

\* _still_visible, _hand_on_spot
StillVisible(rec, objects) ==
  \E n \in DOMAIN objects : objects[n].class = rec.class /\ Dist(objects[n].at, rec.at) =< Near

HandOnSpot(rec, persons) ==
  \A n \in DOMAIN persons : persons[n].id = rec.by =>
    \/ persons[n].hands = {}
    \/ \E h \in persons[n].hands : Dist(h, rec.at) =< Grab

InFrame(rec, persons) == \E n \in DOMAIN persons : persons[n].id = rec.by

\* _ready. _hand_on_spot wants the holder to be in the frame, so that _holder_present, which
\* asks how long ago that was, says nothing more.
Ready(rec, objects, persons) ==
  /\ rec.held /\ ~ rec.fired
  /\ rec.age >= policy.missing
  /\ ~ StillVisible(rec, objects)
  /\ InFrame(rec, persons) /\ ~ HandOnSpot(rec, persons)

\* _collect: records that have not been seen for too long go; the others that are ready are
\* marked as fired, and the first of them is reported unless an alert is recent.
Live(recs) == SelectSeq(recs, LAMBDA rec : rec.age =< policy.expiry)

Collect(recs, objects, persons, quiet) ==
  LET ready(n) == Ready(recs[n], objects, persons)
      hits     == {n \in DOMAIN recs : ready(n)}
      muted    == quiet < policy.expiry
  IN  [items   |-> [n \in DOMAIN recs |-> [recs[n] EXCEPT !.fired = @ \/ ready(n)]],
       verdict |-> IF hits = {} \/ muted THEN None
                   ELSE LET n == CHOOSE m \in hits : \A k \in hits : m =< k
                        IN  [class |-> recs[n].class, by |-> recs[n].by,
                             of |-> recs[n].of, left |-> recs[n].left]]

\* analyze_frame: the objects of the frame in any order, and the people if the pose model
\* runs (run_pose). What was placed and found is bound by \E, for TLC to evaluate it once.
Analyze(objects, persons, gap) ==
  LET aged    == [n \in DOMAIN items |-> [items[n] EXCEPT !.age = Older(@, gap)]]
      quiet   == Older(fired, gap)
  IN  \E recs \in {Live(Placed(aged, objects, persons))} :
      \E found \in {Collect(recs, objects, persons, quiet)} :
        /\ items' = found.items
        /\ verdict' = found.verdict
        /\ fired' = IF found.verdict # None THEN 0 ELSE quiet

-----------------------------------------------------------------------------
(* The shop between two frames: at most one item is moved, by a place, or pocketed. *)

Changed ==
  {where}
  \cup {[where EXCEPT ![i] = q] : i \in {j \in Taken : where[j] # Gone}, q \in Place \cup {Gone}}

Plausible(next) ==
  \A i \in Item : next[i] # where[i] /\ next[i] # Gone => Dist(next[i], where[i]) =< 1

Boxes(next) == SetToSeqs({<<i, next[i]>> : i \in {j \in Item : next[j] # Gone}})

Seen(order) ==
  [n \in DOMAIN order |-> [class |-> Kind[order[n][1]], at |-> order[n][2], of |-> order[n][1]]]

\* Persons of a frame, in the order of their scores: none while the gate spares the pose
\* model or nobody is there.
Persons ==
  UNION {{f \in [1 .. n -> Pose] : Cardinality({f[k].id : k \in 1 .. n}) = n} :
           n \in 0 .. Cardinality(Person)}

Frame ==
  LET scenes == UNION {{[shop |-> w, boxes |-> b] : b \in Boxes(w)} :
                         w \in {v \in Changed : Plausible(v)}}
  IN  \E persons \in Persons, scene \in scenes, gap \in 1 .. MaxGap :
        /\ where' = scene.shop
        /\ Analyze(Seen(scene.boxes), persons, gap)
        /\ Len(items') =< MaxRecords
        /\ UNCHANGED policy

\* apply_policy and retune: between two frames.
Retune ==
  /\ policy' \in Settings \ {policy}
  /\ verdict' = None
  /\ UNCHANGED <<where, items, fired>>

\* The process restarts with an empty tracker.
AiRestarts ==
  /\ items # <<>>
  /\ items' = <<>>
  /\ fired' = Forgotten
  /\ verdict' = None
  /\ UNCHANGED <<where, policy>>

Next == Frame \/ Retune \/ AiRestarts

Spec == Init /\ [][Next]_vars

-----------------------------------------------------------------------------
\* observe and _collect: an alert is raised only when the item it is about is out of sight, or
\* its box was given to a record of another, as happens to items of a class side by side; as
\* long as the detector sees every item that is not, one at a time is moved, and none goes
\* further between two frames than _near allows.
AlertMeansGone ==
  verdict # None => /\ Kind[verdict.of] = verdict.class
                    /\ where[verdict.of] = Gone \/ verdict.left
=============================================================================
