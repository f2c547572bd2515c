----------------------------- MODULE MCServices -----------------------------
(***************************************************************************)
(* Small instances of the modules of the services for TLC. Each behaviour  *)
(* is one of an instance, chosen at its start, while the others rest in    *)
(* their initial states. The parts that theorems are about are those of    *)
(* ServiceParts; their constants are in the .cfg.                          *)
(***************************************************************************)
EXTENDS ServiceParts

CONSTANTS r1, r2, r3, g, c1, c2, c3, p1, p2, q1, q2, u1, u2, a1, l1, l2, l3,
          d1, d2, f1, f2, f3, m1, m2, t1, t2, s1, s2

VARIABLES
  part,
  doc, sent, idem, apc, todo, copy, tries, cache, screen, reading, lapsed, orphan, stale,
  afaults,
  call, raised, tried, pool, thread, lock, fed, current, saved, token, login, tokens, expired,
  stored, excused, failed, sfaults,
  clip, annotated, keyed, chat, intent, chatAt, task, tidings, edit, doubled, late, pfaults,
  order, here, decidedAt, moved, changes, owed, cached, loading, walked, total,
  status, requeues, waited, sends, queue, taskAt, delivering, retries, found, doomed, ripe,
  released, gate, telegram, prompts, letters, dropped, outages

\* Three posts of the alert under one idempotency key.
Posts == INSTANCE Alerts
  WITH Request <- {r1, r2, r3}, Keyed <- {r1, r2, r3}, Reader <- {g}, Asked <- {"facet"},
       Attempts <- 2, MaxFaults <- 1, pc <- apc, faults <- afaults

\* A post, and a request without a key, with a reader of the list.
Edits == INSTANCE Alerts
  WITH Request <- {r1, r2}, Keyed <- {r1}, Reader <- {g}, Asked <- {"list"},
       Attempts <- 2, MaxFaults <- 1, pc <- apc, faults <- afaults

\* Three decisions in the console, and no fault.
Races == INSTANCE Decisions
  WITH Console <- {c1, c2, c3}, Press <- {}, Linked <- {}, Poller <- {}, MaxFaults <- 0,
       pc <- dpc, faults <- dfaults

\* Two presses, one of them a stranger's.
Strangers == INSTANCE Decisions
  WITH Console <- {}, Press <- {p1, p2}, Linked <- {p1}, Poller <- {q1, q2}, MaxFaults <- 1,
       pc <- dpc, faults <- dfaults

\* The newest of three alerts is the first by _id; two have one stamp.
BornAt(a) == (<<2, 1, 1>>)[a]

\* Two links are for one operator, and one for another.
ForUser(l) == IF l = l3 THEN u2 ELSE u1

On(f) == IF f = f2 THEN m2 ELSE m1

\* RATE_LIMIT_* and WS_RATE_*, made small.
BurstOf  == [b \in {"http", "ws"} |-> IF b = "http" THEN 2 ELSE 1]
PeriodOf == [b \in {"http", "ws"} |-> IF b = "http" THEN 3 ELSE 2]

\* Two frames that may raise a verdict, with two threads.
Verdicts == INSTANCE Scoring
  WITH Call <- {f1, f2}, Camera <- {m1, m2}, Of <- On, Thread <- {t1, t2}, MaxVerdicts <- 1,
       MaxTokens <- 3, MaxFaults <- 1, sent <- tried, issued <- tokens, faults <- sfaults

\* Three frames of two cameras, whose verdicts do not matter.
Tracks == INSTANCE Scoring
  WITH Call <- {f1, f2, f3}, Camera <- {m1, m2}, Of <- On, Thread <- {t1, t2},
       MaxVerdicts <- 0, MaxTokens <- 0, MaxFaults <- 1, sent <- tried, issued <- tokens,
       faults <- sfaults

\* One task, that is retried once, and two decisions.
Posted == INSTANCE AlertPost
  WITH Task <- {s1}, MaxRetries <- 1, Pictured <- TRUE, Filmed <- TRUE, MaxDecisions <- 2,
       MaxFaults <- 1, shownAt <- chatAt, notices <- tidings, faults <- pfaults

\* Two tasks, and one decision.
Requeued == INSTANCE AlertPost
  WITH Task <- {s1, s2}, MaxRetries <- 1, Pictured <- TRUE, Filmed <- TRUE, MaxDecisions <- 1,
       MaxFaults <- 0, shownAt <- chatAt, notices <- tidings, faults <- pfaults

\* Three alerts that change twice, walked two rows at a time.
Pages == INSTANCE AlertPages
  WITH Alerts <- {1, 2, 3}, Born <- BornAt, Counted <- FALSE, Limit <- 2, MaxChanges <- 2,
       decided <- decidedAt, pages <- walked

\* The same with their number, a row at a time, and one change.
Counts == INSTANCE AlertPages
  WITH Alerts <- {1, 2, 3}, Born <- BornAt, Counted <- TRUE, Limit <- 1, MaxChanges <- 1,
       decided <- decidedAt, pages <- walked

\* One worker, as in development, and two alerts, one of them for no chat.
Single == INSTANCE DeliveryProofs
  WITH Intent <- {p1, p2}, Unconfigured <- {p2}, Worker <- {q1}, MaxRetries <- 1, MaxRequeues <- 1,
       DrainBatch <- 1, MaxSends <- 2, MaxCopies <- 2, MaxPosts <- 2, MaxFaults <- 0,
       MaxOutages <- 1, aged <- waited, pc <- taskAt, job <- delivering, tries <- retries,
       posts <- prompts, faults <- dropped

alerts    == <<doc, sent, idem, apc, todo, copy, tries, cache, screen, reading, lapsed, orphan,
               stale, afaults>>
scoring   == <<call, raised, tried, pool, thread, lock, fed, current, saved, token, login, tokens,
               expired, stored, excused, failed, sfaults>>
posting   == <<clip, annotated, keyed, chat, intent, chatAt, task, tidings, edit, doubled, late,
               pfaults>>
pages     == <<order, here, decidedAt, moved, changes, owed, cached, loading, walked, total>>
pipeline  == <<status, requeues, waited, sends, queue, taskAt, delivering, retries, found, doomed,
               ripe, released, gate, telegram, prompts, letters, dropped, outages>>
vars      == <<part, alerts, decisions, links, outbox, scoring, posting, processes, versions, pki,
               containers, pages, requests, throttle, signing, readings, erasing, intake,
               pipeline>>

Init ==
  /\ part \in {"posts", "edits", "races", "presses", "strangers", "links", "outbox", "verdicts",
               "tracks", "posted", "requeued", "servers", "runs", "certs", "cluster", "pages",
               "counts", "requests", "throttle", "signing", "readings", "erasing", "intake",
               "single"}
  /\ IF part = "posts" THEN Posts!Init ELSE Edits!Init
  /\ CASE part = "presses" -> Presses!Init
       [] part = "strangers" -> Strangers!Init
       [] OTHER -> Races!Init
  /\ IF part = "tracks" THEN Tracks!Init ELSE Verdicts!Init
  /\ Links!Init /\ Outbox!Init
  /\ IF part = "requeued" THEN Requeued!Init ELSE Posted!Init
  /\ Servers!Init /\ (part # "servers" => service = "audit")
  /\ Runs!Init
  /\ Certified!Init /\ (part # "certs" => script = "edge")
  /\ Kind!Init /\ (part # "cluster" => addr[Control] = 2 /\ file[Control] = 0)
  /\ Pages!Init /\ (part \notin {"pages", "counts"} => order = "created_at" /\ here = {1, 2, 3})
  /\ Requests!Init /\ sockets \in {{}, Client} /\ (part # "requests" => sockets = {})
  /\ Throttle!Init /\ Signing!Init /\ Erasing!Init
  /\ Readings!Init /\ (part # "readings" => \A r \in Reader : filter[r])
  /\ Taking!Init /\ (IF part = "intake" THEN recipient # t2 ELSE recipient = t1)
  /\ Single!Init

Next ==
  /\ UNCHANGED part
  /\ CASE part = "posts" -> Posts!Next
       [] part = "edits" -> Edits!Next
       [] OTHER -> UNCHANGED alerts
  /\ CASE part = "races" -> Races!Next
       [] part = "presses" -> Presses!Next
       [] part = "strangers" -> Strangers!Next
       [] OTHER -> UNCHANGED decisions
  /\ IF part = "links" THEN Links!Next ELSE UNCHANGED links
  /\ IF part = "outbox" THEN Outbox!Next ELSE UNCHANGED outbox
  /\ CASE part = "verdicts" -> Verdicts!Next
       [] part = "tracks" -> Tracks!Next
       [] OTHER -> UNCHANGED scoring
  /\ CASE part = "posted" -> Posted!Next
       [] part = "requeued" -> Requeued!Next
       [] OTHER -> UNCHANGED posting
  /\ IF part = "servers" THEN Servers!Next ELSE UNCHANGED processes
  /\ IF part = "runs" THEN Runs!Next ELSE UNCHANGED versions
  /\ IF part = "certs" THEN Certified!Next ELSE UNCHANGED pki
  /\ IF part = "cluster" THEN Kind!Next ELSE UNCHANGED containers
  /\ CASE part = "pages" -> Pages!Next
       [] part = "counts" -> Counts!Next
       [] OTHER -> UNCHANGED pages
  /\ IF part = "requests" THEN Requests!Next ELSE UNCHANGED requests
  /\ IF part = "throttle" THEN Throttle!Next ELSE UNCHANGED throttle
  /\ IF part = "signing" THEN Signing!Next ELSE UNCHANGED signing
  /\ IF part = "readings" THEN Readings!Next ELSE UNCHANGED readings
  /\ IF part = "erasing" THEN Erasing!Next ELSE UNCHANGED erasing
  /\ IF part = "intake" THEN Taking!Next ELSE UNCHANGED intake
  /\ IF part = "single" THEN Single!Next ELSE UNCHANGED pipeline

\* The fairness of the instance that runs.
Fairness ==
  /\ \A q \in Poller : /\ WF_decisions(part = "presses" /\ Presses!Work(q))
                       /\ WF_decisions(part = "presses" /\ Presses!Acquire(q))
  /\ \A p \in Press : WF_decisions(part = "presses" /\ Presses!Decide(p))
  /\ WF_decisions(part = "presses" /\ Presses!LeaseLapses)

FairSpec == Init /\ [][Next]_vars /\ Fairness

ASSUME Pages!AlertPagesAssumption /\ Counts!AlertPagesAssumption
ASSUME Posted!AlertPostAssumption /\ Requeued!AlertPostAssumption
ASSUME Verdicts!ScoringAssumption /\ Tracks!ScoringAssumption
ASSUME Posts!AlertsAssumption /\ Edits!AlertsAssumption
ASSUME Races!DecisionsAssumption /\ Strangers!DecisionsAssumption
ASSUME SingleAssumption == Single!DeliveryAssumption

\* send, Analyze and track: a verdict that was tried is stored as an alert, a call that ends
\* has tried all of its verdicts, and trackers are kept apart; create and _dispatch: an alert
\* is accepted or marked dispatch_failed, unless a request died on it; idempotency: of two
\* requests at work under one key, the claim of one has lapsed.
AlertIsAccounted ==
  /\ part = "verdicts" => Verdicts!TypeOK /\ Verdicts!TriedIsStored /\ Verdicts!DoneIsTried
  /\ part = "tracks" => Tracks!TypeOK /\ Tracks!TrackersStayApart
  /\ part = "posts" => Posts!TypeOK /\ Posts!AlertIsAccounted /\ Posts!KeyExclusive
  /\ part = "edits" => Edits!TypeOK /\ Edits!AlertIsAccounted

\* invalidate, get_or_set and _publish: copies of an alert are out of date only while a
\* call is owed, lost or late. list_page, encode_cursor and count: who walks the pages, from the
\* cache or not, sees what has been left alone, once and in order. _dispatch and
\* _show_decision: a sent alert stays told in the chat, is told once and is asked about
\* once, and its clip is waited for. decide: the message shows the last of three decisions in the
\* console. _first_time: a stranger's press is forwarded once, as any other.
CopiesAreTrue ==
  /\ part = "posts" => Posts!CopiesAreTrue
  /\ part = "edits" => Edits!CopiesAreTrue
  /\ part \in {"pages", "counts"} =>
       Pages!TypeOK /\ Pages!WalkIsComplete /\ Pages!WalkIsInOrder /\ Pages!CountAgrees
  /\ part = "posted" =>
       Posted!TypeOK /\ Posted!StaysTold /\ Posted!ToldOnce /\ Posted!ClipIsAwaited
  /\ part = "requeued" =>
       Requeued!TypeOK /\ Requeued!StaysTold /\ Requeued!ToldOnce /\ Requeued!ClipIsAwaited
  /\ part = "races" => Races!TypeOK /\ Races!MessageShowsDecision
  /\ part = "strangers" => Strangers!TypeOK /\ Strangers!PressedOnce

\* decide, claim_display and edit_message: at rest the message shows the decision.
MessageShowsDecision ==
  part = "presses" => Presses!TypeOK /\ Presses!MessageShowsDecision

\* _first_time and the poller's lease: no press is forwarded twice.
PressedOnce == part = "presses" => Presses!PressedOnce

\* _poll and handle_update: every press is answered, whichever poller dies.
PressIsAnswered == part = "presses" => Presses!PressIsAnswered

\* store_telegram_link: one link of an operator is good at a time. check_login and
\* record_failure: a lock holds, for its time.
EntryIsGuarded ==
  /\ part = "links" => Links!TypeOK /\ Links!OneLinkIsGood
  /\ part = "throttle" =>
       Throttle!TypeOK /\ Throttle!TriesAreBounded /\ Throttle!LocksHold /\ Throttle!CountsPass

\* enqueue, claim and bury of the auth service: what was committed has its event somewhere,
\* no event is drained twice at once, and what is in the log is not a dead letter as well.
\* LocalFileSigner and PublicKeyring: every checkpoint verifies. _record_access and query: what
\* is read is recorded, and nothing is passed over. delete_user, ErasePayloads and their tools:
\* of a deleted account only what was late is left, and it is counted once.
AuditIsTrue ==
  /\ part = "outbox" => Outbox!TypeOK /\ Outbox!ChangesAreRecorded /\ Outbox!RowsAreHeldOnce
                       /\ Outbox!BuriedIsNotLogged
  /\ part = "signing" =>
       Signing!TypeOK /\ Signing!EveryCheckpointVerifies /\ Signing!SignsWhatItVerifies
  /\ part = "readings" =>
       Readings!TypeOK /\ Readings!AnswersAreRecorded /\ Readings!WalksMissNothing
  /\ part = "erasing" =>
       Erasing!TypeOK /\ Erasing!OnlyTheLateIsLeft /\ Erasing!ErasedIsCountedOnce
         /\ Erasing!BackfillReachesAll

\* _services, _serve and _run: no request works with what is closed, and a process is ready only
\* while what it probes of itself is up and before its server stops. rate_limit and
\* get_current_user: the rate is kept, who waits as told is let in, and only an ended session
\* leads to a login.
ServersKeepOrder ==
  /\ part = "servers" =>
       Servers!TypeOK /\ Servers!NothingOutlivesItsParts /\ Servers!ReadyIsEarned
         /\ Servers!TellsBeforeItStops
  /\ part = "requests" =>
       Requests!TypeOK /\ Requests!RateIsKept /\ Requests!WaitIsEnough
         /\ Requests!OnlyTheEndedLogIn

\* _run and _record: what is recorded of the migrations is what the database has, without a gap.
\* ensure_ca, ensure_leaf and ensure_intermediate: certificates have their keys, and a thorough
\* run leaves all of them good. release_moved, pin_ip and start: containers keep their addresses,
\* and workloads come where the network is up. Commands may have died before.
RerunsConverge ==
  /\ part = "runs" => Runs!TypeOK /\ Runs!MigratedInOrder
  /\ part = "certs" =>
       Certified!TypeOK /\ Certified!PairsMatch /\ Certified!ThoroughRunHeals
         /\ Certified!ChainHolds /\ Certified!RootIsKept
  /\ part = "cluster" =>
       Kind!TypeOK /\ Kind!AddressesAreKept /\ Kind!NothingIsLost /\ Kind!WorkIsOnReadyNodes

\* acquire and resolve_recipient: what is accepted is told once for each recipient there was, unless
\* two tasks meet over it or the record of a post is lost, and what is shown of it is the worst of
\* them. _deliver: with one worker, and without a fault, an alert is posted once.
NoticesArriveOnce ==
  /\ part = "intake" =>
       Taking!TypeOK /\ Taking!AcceptedIsAddressed /\ Taking!ToldOncePerRecipient
         /\ Taking!ShownIsTheWorst
  /\ part = "single" => Single!TypeOK /\ Single!PostedOnce
=============================================================================
