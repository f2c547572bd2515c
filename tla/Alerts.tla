------------------------------- MODULE Alerts -------------------------------
(***************************************************************************)
(* One alert in the API: posted under an idempotency key, stored once,     *)
(* handed to the notification service, acknowledged, decided and deleted,  *)
(* with the caches in Redis and the browsers that hold copies of it.       *)
(*                                                                         *)
(* A request that has changed the document still owes a list of effects,   *)
(* each a call of its own; the effects of requests, the readers that fill  *)
(* the caches and the lapse of keys interleave. How a decision reaches the *)
(* chat is the subject of Decisions.                                       *)
(***************************************************************************)
EXTENDS Naturals, Sequences, SequencesExt

CONSTANTS
  Request,   \* POST requests for the alert, and those that change it
  Keyed,     \* those that carry the Idempotency-Key
  Reader,    \* GET requests for a list, a count or the cameras
  Asked,     \* which of these they ask for
  None,
  Attempts,  \* DISPATCH_ATTEMPTS
  MaxFaults  \* bound: requests that fail or die

AlertsAssumption ==
  /\ Keyed \subseteq Request /\ None \notin Request
  /\ Asked \subseteq {"list", "count", "facet"}
  /\ Attempts \in Nat \ {0} /\ MaxFaults \in Nat

VARIABLES
  doc,      \* the document
  sent,     \* the notification service has accepted the alert
  idem,     \* the idempotency key: None, the claim of a request, or "done"
  pc,       \* where a request is
  todo,     \* the effects it still owes, in order
  copy,     \* the document as it had changed it
  tries,    \* its attempts at dispatching
  cache,    \* what Redis has cached
  screen,   \* the alert as a browser that is connected throughout shows it
  reading,  \* what a reader is about to cache, or None
  lapsed,   \* requests whose claim lapsed while they were at work
  orphan,   \* a request died or failed before it had dispatched the alert
  stale,    \* copies that may be out of date: a call was lost, or came late
  faults

vars == <<doc, sent, idem, pc, todo, copy, tries, cache, screen, reading, lapsed, orphan,
          stale, faults>>

Cached == {"list", "count", "facet"}
Event  == {"created", "updated", "acknowledged", "decided", "deleted"}
Effect == Cached \cup Event \cup {"dispatch", "audit", "notify"}

Absent == [exists |-> FALSE, failed |-> FALSE, acked |-> FALSE, decided |-> FALSE]
Document == [exists : BOOLEAN, failed : BOOLEAN, acked : BOOLEAN, decided : BOOLEAN]

\* What a list, a count and the cameras show of a document.
View(k, d) ==
  CASE k = "list"  -> <<d.exists, d.failed, d.acked, d.decided>>
    [] k = "count" -> <<d.exists, d.acked, d.decided>>
    [] k = "facet" -> <<d.exists>>

NoRead == [key |-> None, value |-> None, late |-> FALSE]

TypeOK ==
  /\ doc \in Document /\ (~doc.exists => doc = Absent)
  /\ sent \in BOOLEAN /\ idem \in Request \cup {None, "done"}
  /\ pc \in [Request -> {"new", "claimed", "work", "store", "done"}]
  /\ todo \in [Request -> Seq(Effect)] /\ copy \in [Request -> Document]
  /\ tries \in [Request -> 0..(Attempts - 1)]
  /\ \A r \in Request : pc[r] # "work" => todo[r] = <<>>
  /\ \A k \in Cached : cache[k] \in {None} \cup {View(k, d) : d \in Document}
  /\ screen \in Document
  /\ \A g \in Reader : reading[g] = NoRead \/ reading[g].key \in Cached
  /\ lapsed \subseteq Request /\ orphan \in BOOLEAN
  /\ stale \subseteq Cached \cup {"screen"} /\ faults \in 0..MaxFaults

Init ==
  /\ doc = Absent /\ sent = FALSE /\ idem = None
  /\ pc = [r \in Request |-> "new"]
  /\ todo = [r \in Request |-> <<>>] /\ copy = [r \in Request |-> Absent]
  /\ tries = [r \in Request |-> 0]
  /\ cache = [k \in Cached |-> None] /\ screen = Absent
  /\ reading = [g \in Reader |-> NoRead]
  /\ lapsed = {} /\ orphan = FALSE /\ stale = {} /\ faults = 0

-----------------------------------------------------------------------------
(* Helpers *)

caches == <<cache, screen, reading, stale>>
others == <<lapsed, orphan, faults>>

Fault == faults < MaxFaults /\ faults' = faults + 1

\* The document becomes d, and the request owes the effects.
Write(r, d, effects) ==
  /\ doc' = d
  /\ copy' = [copy EXCEPT ![r] = IF d.exists THEN d ELSE doc]
  /\ todo' = [todo EXCEPT ![r] = effects]
  /\ pc' = [pc EXCEPT ![r] = "work"]

\* Where a request goes once it owes nothing more.
After(r) == IF r \in Keyed THEN "store" ELSE "done"

\* The first effect is done.
Paid(r) ==
  /\ todo' = [todo EXCEPT ![r] = Tail(@)]
  /\ pc' = [pc EXCEPT ![r] = IF Len(todo[r]) = 1 THEN After(r) ELSE "work"]
  /\ copy' = [copy EXCEPT ![r] = IF Len(todo[r]) = 1 THEN Absent ELSE @]
  /\ tries' = [tries EXCEPT ![r] = 0]

Owes(r, effect) == pc[r] = "work" /\ Head(todo[r]) = effect

\* Bug: the claim that is there is deleted, whoever made it.
ReleasedAny(r) == IF idem = "done" THEN idem ELSE None

\* release: the request's own claim is deleted, no other and no stored answer.
Released(r) == IF idem = r THEN None ELSE idem

-----------------------------------------------------------------------------
(* POST /alerts *)

\* idempotency: the key is free, or the request has none.
Claim(r) ==
  /\ pc[r] = "new"
  /\ r \in Keyed => idem = None
  /\ idem' = IF r \in Keyed THEN r ELSE idem
  /\ pc' = [pc EXCEPT ![r] = "claimed"]
  /\ UNCHANGED <<doc, sent, todo, copy, tries, caches, others>>

\* _replay: the stored answer; a pending claim makes the client ask again.
Replay(r) ==
  /\ pc[r] = "new" /\ r \in Keyed /\ idem = "done"
  /\ pc' = [pc EXCEPT ![r] = "done"]
  /\ UNCHANGED <<doc, sent, idem, todo, copy, tries, caches, others>>

\* Bug: the cached lists are left alone.
CreatedForgetsLists == <<"facet", "count", "created", "dispatch">>

\* What create owes for a document it has inserted.
Created == <<"list", "facet", "count", "created", "dispatch">>

\* insert_once.
Insert(r) ==
  /\ pc[r] = "claimed" /\ ~doc.exists
  /\ Write(r, [Absent EXCEPT !.exists = TRUE], Created)
  /\ sent' = FALSE
  /\ UNCHANGED <<idem, tries, caches, others>>

\* insert_once: the stored copy is the answer.
Duplicate(r) ==
  /\ pc[r] = "claimed" /\ doc.exists
  /\ pc' = [pc EXCEPT ![r] = After(r)]
  /\ UNCHANGED <<doc, sent, idem, todo, copy, tries, caches, others>>

\* _dispatch: the service accepts.
Dispatched(r) ==
  /\ Owes(r, "dispatch")
  /\ sent' = TRUE
  /\ Paid(r)
  /\ UNCHANGED <<doc, idem, caches, others>>

\* It does not answer, or limits the rate; it may have accepted. Another attempt follows.
DispatchAgain(r) ==
  /\ Owes(r, "dispatch")
  /\ tries[r] + 1 < Attempts
  /\ Fault
  /\ tries' = [tries EXCEPT ![r] = @ + 1]
  /\ sent' \in {sent, TRUE}
  /\ UNCHANGED <<doc, idem, pc, todo, copy, caches, lapsed, orphan>>

\* Bug: the update is an upsert.
MarkedUpsert(r) ==
  /\ Write(r, [doc EXCEPT !.failed = TRUE], <<"list", "updated">>)
  /\ tries' = [tries EXCEPT ![r] = 0]

\* Bug: an alert that was refused is not marked.
MarkedNever(r) == UNCHANGED doc /\ Paid(r)

\* dispatch_failed is set if the document is still there.
Marked(r) ==
  IF doc.exists
  THEN /\ Write(r, [doc EXCEPT !.failed = TRUE], <<"list", "updated">>)
       /\ tries' = [tries EXCEPT ![r] = 0]
  ELSE UNCHANGED doc /\ Paid(r)

\* It refuses, or the last attempt fails as well, and the document is marked.
DispatchFails(r) ==
  /\ Owes(r, "dispatch")
  /\ Fault
  /\ sent' \in (IF tries[r] + 1 < Attempts THEN {sent} ELSE {sent, TRUE})
  /\ Marked(r)
  /\ UNCHANGED <<idem, caches, lapsed, orphan>>

\* store.
Store(r) ==
  /\ pc[r] = "store"
  /\ idem' = "done"
  /\ pc' = [pc EXCEPT ![r] = "done"]
  /\ UNCHANGED <<doc, sent, todo, copy, tries, caches, others>>

\* A call of the request fails and it is answered with an error, or its process dies
\* with it: what it still owes is never done, and a dead process releases nothing.
Fail(r) ==
  /\ pc[r] \in {"claimed", "work", "store"}
  /\ Fault
  /\ idem' \in {Released(r), idem}
  /\ orphan' = (orphan \/ "dispatch" \in ToSet(todo[r]))
  /\ stale' = stale \cup (ToSet(todo[r]) \cap Cached)
                    \cup (IF ToSet(todo[r]) \cap Event = {} THEN {} ELSE {"screen"})
  /\ pc' = [pc EXCEPT ![r] = "done"]
  /\ todo' = [todo EXCEPT ![r] = <<>>]
  /\ copy' = [copy EXCEPT ![r] = Absent]
  /\ tries' = [tries EXCEPT ![r] = 0]
  /\ UNCHANGED <<doc, sent, cache, screen, reading, lapsed>>

\* The claim lapses after IDEMPOTENCY_PENDING_SECONDS, at work or not.
ClaimLapses ==
  /\ idem \in Request
  /\ idem' = None
  /\ lapsed' = lapsed \cup {idem}
  /\ UNCHANGED <<doc, sent, pc, todo, copy, tries, caches, orphan, faults>>

-----------------------------------------------------------------------------
(* The requests that change the alert *)

Change(r, d, effects) ==
  /\ pc[r] = "new" /\ r \notin Keyed /\ doc.exists
  /\ Write(r, d, effects)
  /\ UNCHANGED <<sent, idem, tries, caches, others>>

\* acknowledge: only the first one changes anything.
Acknowledge(r) ==
  /\ ~doc.acked
  /\ Change(r, [doc EXCEPT !.acked = TRUE], <<"list", "count", "acknowledged", "audit">>)

\* decide, and a decision that is taken back.
Decide(r) ==
  Change(r, [doc EXCEPT !.decided = ~@], <<"list", "count", "decided", "audit", "notify">>)

Delete(r) ==
  Change(r, Absent, <<"list", "count", "facet", "deleted", "audit">>)

\* invalidate and invalidate_prefix.
Invalidate(r) ==
  \E k \in Cached :
    /\ Owes(r, k)
    /\ cache' = [cache EXCEPT ![k] = None]
    /\ stale' = stale \ {k}
    /\ reading' = [g \in Reader |->
                     IF reading[g].key = k THEN [reading[g] EXCEPT !.late = TRUE] ELSE reading[g]]
    /\ Paid(r)
    /\ UNCHANGED <<doc, sent, idem, screen, others>>

\* _publish, the broadcaster and the browser: the document as the request had changed it.
Publish(r) ==
  \E event \in Event :
    /\ Owes(r, event)
    /\ screen' = IF event = "deleted" THEN Absent ELSE copy[r]
    /\ stale' = IF screen' = doc THEN stale \ {"screen"} ELSE stale \cup {"screen"}
    /\ Paid(r)
    /\ UNCHANGED <<doc, sent, idem, cache, reading, others>>

\* _publish: Redis does not take it, and the request goes on.
PublishFails(r) ==
  /\ \E event \in Event : Owes(r, event)
  /\ Fault
  /\ stale' = IF screen = doc THEN stale ELSE stale \cup {"screen"}
  /\ Paid(r)
  /\ UNCHANGED <<doc, sent, idem, cache, screen, reading, lapsed, orphan>>

\* emit_alert_..., which is the subject of AuditOutbox, and notify_decision.
Report(r) ==
  /\ Owes(r, "audit") \/ Owes(r, "notify")
  /\ Paid(r)
  /\ UNCHANGED <<doc, sent, idem, caches, others>>

-----------------------------------------------------------------------------
(* get_or_set *)

\* Nothing is cached, and the loader reads the documents.
Load(g, k) ==
  /\ reading[g] = NoRead
  /\ cache[k] = None
  /\ reading' = [reading EXCEPT ![g] = [key |-> k, value |-> View(k, doc), late |-> FALSE]]
  /\ UNCHANGED <<doc, sent, idem, pc, todo, copy, tries, cache, screen, stale, others>>

Fill(g) ==
  /\ reading[g] # NoRead
  /\ LET k == reading[g].key IN
       /\ cache' = [cache EXCEPT ![k] = reading[g].value]
       /\ stale' = IF reading[g].late THEN stale \cup {k} ELSE stale
  /\ reading' = [reading EXCEPT ![g] = NoRead]
  /\ UNCHANGED <<doc, sent, idem, pc, todo, copy, tries, screen, others>>

\* TTL and FACET_TTL.
CacheLapses(k) ==
  /\ cache[k] # None
  /\ cache' = [cache EXCEPT ![k] = None]
  /\ stale' = stale \ {k}
  /\ UNCHANGED <<doc, sent, idem, pc, todo, copy, tries, screen, reading, others>>

-----------------------------------------------------------------------------

Serve(r) ==
  \/ Insert(r) \/ Duplicate(r)
  \/ Dispatched(r) \/ DispatchAgain(r) \/ DispatchFails(r)
  \/ Invalidate(r) \/ Publish(r) \/ PublishFails(r) \/ Report(r) \/ Store(r)

Arrive(r) == Claim(r) \/ Replay(r) \/ Acknowledge(r) \/ Decide(r) \/ Delete(r)

Next ==
  \/ \E r \in Request : Arrive(r) \/ Serve(r) \/ Fail(r)
  \/ ClaimLapses
  \/ \E g \in Reader : Fill(g) \/ \E k \in Asked : Load(g, k)
  \/ \E k \in Cached : CacheLapses(k)

Spec == Init /\ [][Next]_vars

-----------------------------------------------------------------------------
(* Properties *)

\* A request that is in the handler.
Working(r) == pc[r] \in {"claimed", "work", "store"}

\* The idempotency key keeps requests apart: of two that are at work under it, the claim
\* of one has lapsed, and a request whose claim was lost to another never frees that one.
KeyExclusive ==
  \A r, q \in Keyed : r # q /\ Working(r) /\ Working(q) => {r, q} \cap lapsed # {}

\* README: "an alert either arrives or leaves an inspectable record of why it didn't", of
\* the API's half: an alert no request works on any more was accepted by the notification
\* service or is marked dispatch_failed, unless a request died on it.
AlertIsAccounted ==
  doc.exists /\ (\A r \in Request : "dispatch" \notin ToSet(todo[r]))
    => sent \/ doc.failed \/ orphan

\* A copy of the alert differs from the document only while the request that changed it
\* has still to say so, and after a call that was lost or came late; a cached copy comes
\* late when an invalidation falls between a reader's load and its set.
CopiesAreTrue ==
  /\ \A k \in Cached :
       cache[k] \notin {None, View(k, doc)}
         => k \in stale \/ \E r \in Request : k \in ToSet(todo[r])
  /\ screen # doc
       => "screen" \in stale \/ \E r \in Request : ToSet(todo[r]) \cap Event # {}
=============================================================================
