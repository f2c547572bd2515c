------------------------------- MODULE MCEdge -------------------------------
(***************************************************************************)
(* Small instances of the modules of the gate, the cameras and the console *)
(* for TLC. Each behaviour is one of an instance, chosen at its start,     *)
(* while the others rest in their initial states. The instances that       *)
(* theorems are about have any constants; those of TLC are in the .cfg.    *)
(***************************************************************************)
EXTENDS EdgeLemmas

CONSTANTS
  a1, k1,
  Debounce, Depth, MaxSeq,           \* of the gate
  Admin, Replica,                    \* administrators; replicas of the API
  MaxClock,                          \* of the health
  MaxDepth, QueueDepth, MaxFrames,   \* of the queues of frames
  Tab, Nav, MaxHops,                 \* of the console
  MaxTokens, MaxLosses

VARIABLES
  part,
  gate, streak, seq, queue, stream, wire, heard, fresh, settled, seen, missed, gfaults,
  top, ppc, expected, syncing, stored, mail, watcher, running, reported, pfaults,
  clock, actual, tick, key, newest, announced, hfaults,
  where, items, fired, setting, verdict,
  buffer, aged, forwarding, analyzed, counted, frames, publishing, added, tallied, pace,
  dwelling,
  session, newestToken, grace, jar, tab, tablock, nav, behind, failed, cfaults,
  turn, instant, raisedAt, decidedAt, asked, loads, answer

Room == INSTANCE Presence WITH faults <- gfaults

Policy == INSTANCE PolicySync WITH pc <- ppc, applied <- running, faults <- pfaults

Health == INSTANCE CameraHealth WITH faults <- hfaults

Frames == INSTANCE FrameFlow WITH queue <- frames

\* One person, two items of different classes; a policy that waits a tick and forgets after two.
Shelf == INSTANCE Concealment
  WITH Item <- {1, 2}, Kind <- <<"b", "p">>, Taken <- {1, 2}, Person <- {1}, Width <- 2,
       Near <- 1, Grab <- 0, Move <- 1, Body <- 0, Settings <- {[missing |-> 1, expiry |-> 2]},
       Forgotten <- 3, MaxGap <- 1, MaxHands <- 1, MaxRecords <- 3,
       policy <- setting

\* Two items of one class, of which one is taken.
Pair == INSTANCE Concealment
  WITH Item <- {1, 2}, Kind <- <<"b", "b">>, Taken <- {1}, Person <- {1}, Width <- 2,
       Near <- 1, Grab <- 0, Move <- 1, Body <- 0, Settings <- {[missing |-> 1, expiry |-> 2]},
       Forgotten <- 3, MaxGap <- 1, MaxHands <- 1, MaxRecords <- 3,
       policy <- setting

Console == INSTANCE ConsoleAuth WITH MaxFaults <- MaxLosses, newest <- newestToken,
             aged <- grace, lock <- tablock, faults <- cfaults

\* One alert and two days, of which the second changes its offset.
Clock == INSTANCE StoreClock
  WITH Alert <- {a1}, Hour <- 2, Day <- 8, Change <- 10, Days <- 2, MaxBuckets <- 5,
       now <- instant, raised <- raisedAt, decided <- decidedAt, ask <- asked

room     == <<gate, streak, seq, queue, stream, wire, heard, fresh, settled, seen, missed,
              gfaults>>
policy   == <<top, ppc, expected, syncing, stored, mail, watcher, running, reported, pfaults>>
health   == <<clock, actual, tick, key, newest, announced, hfaults>>
flow     == <<buffer, aged, forwarding, analyzed, counted, frames, publishing, added, tallied,
              pace, dwelling>>
shelf    == <<where, items, fired, setting, verdict>>
console  == <<session, newestToken, grace, jar, tab, tablock, nav, behind, failed, cfaults>>
clocks   == <<turn, instant, raisedAt, decidedAt, asked, loads, answer>>
vars     == <<part, room, policy, health, flow, shelf, feed, view, console, clocks, capture, stats>>

\* The items of the shelf lie anywhere at the start, if it is the shelf that runs.
Init ==
  /\ part \in {"room", "policy", "health", "frames", "shelf", "pair", "feed", "view", "console",
               "clock", "lens", "stats"}
  /\ Room!Init /\ Policy!Init /\ Health!Init /\ Frames!Init /\ Feed!Init
  /\ View!Init /\ Console!Init
  /\ Shelf!Init /\ (part \notin {"shelf", "pair"} => where = <<0, 1>>)
  /\ Clock!Init /\ (part # "clock" => turn = "back")
  /\ Lens!Init /\ (part # "lens" => plugged)
  /\ Stats!Init

Next ==
  /\ UNCHANGED part
  /\ IF part = "room" THEN Room!Next ELSE UNCHANGED room
  /\ IF part = "policy" THEN Policy!Next ELSE UNCHANGED policy
  /\ IF part = "health" THEN Health!Next ELSE UNCHANGED health
  /\ IF part = "frames" THEN Frames!Next ELSE UNCHANGED flow
  /\ CASE part = "shelf" -> Shelf!Next
       [] part = "pair"  -> Pair!Next
       [] OTHER          -> UNCHANGED shelf
  /\ IF part = "feed" THEN Feed!Next ELSE UNCHANGED feed
  /\ IF part = "view" THEN View!Next ELSE UNCHANGED view
  /\ IF part = "console" THEN Console!Next ELSE UNCHANGED console
  /\ IF part = "clock" THEN Clock!Next ELSE UNCHANGED clocks
  /\ IF part = "lens" THEN Lens!Next ELSE UNCHANGED capture
  /\ IF part = "stats" THEN Stats!Next ELSE UNCHANGED stats

\* The sync loop of one replica goes on, and so does the watcher.
Fairness ==
  /\ WF_policy(part = "policy" /\ Policy!Sync(k1))
  /\ WF_policy(part = "policy" /\ Policy!Watch)

FairSpec == Init /\ [][Next]_vars /\ Fairness

ASSUME EdgeAssumption ==
  /\ Room!PresenceAssumption /\ Policy!PolicyAssumption /\ Health!HealthAssumption
  /\ Frames!FrameAssumption /\ Console!ConsoleAuthAssumption
ASSUME Shelf!ConcealmentAssumption /\ Pair!ConcealmentAssumption /\ Clock!StoreClockAssumption

\* submit, _handle and is_absent: no frame goes without the pose model while the gate sees
\* somebody and the AI service could know.
AbsentIsTrue == part = "room" => Room!TypeOK /\ Room!AbsentIsTrue

\* PUBLISH_NEWER_LUA and _apply: neither Redis nor the detector goes back to an older policy.
NeverGoesBack == Policy!NeverGoesBack

\* run_policy_sync and the watcher: the detector gets the newest policy in the end.
PolicyIsApplied == part = "policy" => Policy!PolicyIsApplied

\* TRANSITION_LUA: what was announced last is the newest observation.
NewestIsAnnounced == part = "health" => Health!TypeOK /\ Health!NewestIsAnnounced

\* push, pop_fresh and _pop: every frame is accounted for, and none is sent late.
FramesAreAccounted == part = "frames" => Frames!TypeOK /\ Frames!FramesAreAccounted

\* observe and _collect, which work with a policy: an alert is raised only when the item it is
\* about is out of sight, or when another item was taken for it.
\* _resolve_window, _walk and the ranges of the console: it is then counted once, in the days
\* that were asked for.
AlertsAreTrue ==
  /\ part = "policy" => Policy!TypeOK
  /\ part = "shelf" => Shelf!TypeOK /\ Shelf!AlertMeansGone
  /\ part = "pair" => Pair!TypeOK /\ Pair!AlertMeansGone
  /\ part = "clock" =>
       Clock!TypeOK /\ Clock!CountedOnce /\ Clock!ShortenedIsTold /\ Clock!BreakdownAgrees
         /\ Clock!SummaryCoversList /\ Clock!ListIsByStoreDay

\* manager.ts and frame-socket.ts: a channel somebody listens to, or the picture of a camera,
\* is connected, stopped, or going to be connected, or was closed in order or parked by diagnose.
\* CaptureLoop: frames are numbered without a gap, keep to their pace, are followed by the
\* heartbeat, and end with the loop.
FeedIsDriven ==
  /\ part = "feed" => Feed!TypeOK /\ Feed!FeedIsDriven
  /\ part = "view" => View!ViewIsDriven
  /\ part = "lens" => Lens!TypeOK /\ Lens!PaceIsKept /\ Lens!NumbersFollow /\ Lens!BeatIsAFrame
                       /\ Lens!OneFrameLate

\* run_frame_pump, ViewerLimit and useFrameBitmap: a page shows the state the pump found, the
\* viewers keep to their limit, and a picture goes with its page. StatsPublisher: a frame is
\* measured once, and a dead camera is forgotten.
ViewIsTrue ==
  /\ part = "view" => View!TypeOK /\ View!HealthIsTrue /\ View!ViewersAreBounded
                       /\ View!PicturesAreReleased
  /\ part = "stats" =>
       Stats!TypeOK /\ Stats!FramesAreMeasuredOnce /\ Stats!DeadIsForgotten
         /\ Stats!LatencyIsOfTheLast

\* refresh.ts, proxy.ts and refresh: the console's own renewals are not taken for a theft, and
\* nobody has to log in again while the session is live, unless something failed.
ConsoleStaysIn ==
  part = "console" => Console!TypeOK /\ Console!OwnRenewalsAreNoReuse /\ Console!LoginIsNeeded
=============================================================================
