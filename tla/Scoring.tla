------------------------------ MODULE Scoring ------------------------------
(***************************************************************************)
(* The AI service at work on frames. Calls of Analyze share an executor of *)
(* a few threads, which score frames one at a time under a lock, with one  *)
(* tracker of persons for each camera, and post the verdicts to the API    *)
(* with a token they share. Which verdicts a frame raises is Concealment's *)
(* matter.                                                                 *)
(***************************************************************************)
EXTENDS Naturals, Sequences, FiniteSets

CONSTANTS
  Call,         \* calls of Analyze
  Camera,
  Of(_),        \* the camera of a call
  Thread,       \* the threads of the executor
  None,
  MaxVerdicts,  \* bound on the verdicts of one frame
  MaxTokens,    \* bound on the logins of the alert client
  MaxFaults     \* bound on what goes wrong

ScoringAssumption ==
  /\ \A c \in Call : Of(c) \in Camera
  /\ None \notin Call \cup Thread
  /\ {MaxVerdicts, MaxTokens, MaxFaults} \subseteq Nat

VARIABLES
  call,     \* where each call is
  raised,   \* how many verdicts its frame has raised
  sent,     \* how many of them it has tried to post
  pool,     \* the jobs that wait for a thread
  thread,   \* what each thread is doing
  lock,     \* the holder of _analyze_lock
  fed,      \* the cameras whose frames each tracker has seen, in the order they were made
  current,  \* the tracker that the model has now, 0 if none
  saved,    \* _by_camera, 0 if none
  token,    \* the token of the alert client, 0 if none
  login,    \* the holder of the client's lock
  issued,   \* how many tokens were issued
  expired,  \* those up to this one are refused
  stored,   \* the verdicts that the API has stored
  excused,  \* history: verdicts that met what no retry can mend
  failed,   \* history: a frame could not be scored
  faults

client == <<token, login, issued, expired>>
models == <<lock, fed, current, saved, failed>>
vars   == <<call, raised, sent, pool, thread, lock, fed, current, saved, token, login, issued,
            expired, stored, excused, failed, faults>>

Verdict == Call \X (1 .. MaxVerdicts)

Tracker == 1 .. Cardinality(Call)

\* A job scores the frame of a call, or posts its next verdict.
Job == [call : Call, kind : {"score", "send"}]

Idle == [at |-> "idle", call |-> None, attempt |-> 0, token |-> 0]

TypeOK ==
  /\ call \in [Call -> {"new", "scores", "sends", "done", "failed", "cancelled"}]
  /\ raised \in [Call -> 0 .. MaxVerdicts] /\ sent \in [Call -> 0 .. MaxVerdicts]
  /\ \A c \in Call : sent[c] =< raised[c]
  /\ \A k \in DOMAIN pool : pool[k] \in Job /\ call[pool[k].call] \in {"scores", "sends"}
  /\ thread \in [Thread -> [at : {"idle", "waits", "tracks", "looks", "connects", "logsIn",
                                  "posts", "resets"},
                            call : Call \cup {None}, attempt : 0 .. 2, token : 0 .. MaxTokens]]
  /\ lock \in Thread \cup {None} /\ login \in Thread \cup {None}
  /\ \A t \in Thread : /\ lock = t <=> thread[t].at \in {"tracks", "looks"}
                       /\ login = t <=> thread[t].at = "logsIn"
  /\ DOMAIN fed \subseteq Tracker /\ \A k \in DOMAIN fed : fed[k] \subseteq Camera
  /\ current \in 0 .. Len(fed) /\ saved \in [Camera -> 0 .. Len(fed)]
  /\ issued \in 0 .. MaxTokens /\ token \in 0 .. issued /\ expired \in 0 .. issued
  /\ stored \subseteq Verdict /\ excused \subseteq Verdict
  /\ failed \in BOOLEAN /\ faults \in 0 .. MaxFaults

Init ==
  /\ call = [c \in Call |-> "new"]
  /\ raised = [c \in Call |-> 0] /\ sent = [c \in Call |-> 0]
  /\ pool = <<>> /\ thread = [t \in Thread |-> Idle]
  /\ lock = None /\ fed = <<>> /\ current = 0 /\ saved = [m \in Camera |-> 0]
  /\ token = 0 /\ login = None /\ issued = 0 /\ expired = 0
  /\ stored = {} /\ excused = {} /\ failed = FALSE /\ faults = 0

Fault == faults < MaxFaults /\ faults' = faults + 1

-----------------------------------------------------------------------------
(* Analyze *)

Submit(c, kind) == pool' = Append(pool, [call |-> c, kind |-> kind])

Arrives(c) ==
  /\ call[c] = "new"
  /\ call' = [call EXCEPT ![c] = "scores"]
  /\ Submit(c, "score")
  /\ UNCHANGED <<raised, sent, thread, models, client, stored, excused, faults>>

\* The deadline of a call passes: a job that waits is not run, one that runs goes on alone.
Cancelled(c) ==
  /\ call[c] \in {"scores", "sends"} /\ Fault
  /\ call' = [call EXCEPT ![c] = "cancelled"]
  /\ pool' = SelectSeq(pool, LAMBDA job : job.call # c)
  /\ UNCHANGED <<raised, sent, thread, models, client, stored, excused>>

Goes(t, at) == thread' = [thread EXCEPT ![t].at = at]

\* A thread takes the next job.
Takes(t) ==
  /\ thread[t].at = "idle" /\ pool # <<>>
  /\ thread' = [thread EXCEPT ![t] =
       IF Head(pool).kind = "score"
       THEN [Idle EXCEPT !.at = "waits", !.call = Head(pool).call]
       ELSE [Idle EXCEPT !.at = "connects", !.call = Head(pool).call, !.attempt = 1]]
  /\ pool' = Tail(pool)
  /\ UNCHANGED <<call, raised, sent, models, client, stored, excused, faults>>

-----------------------------------------------------------------------------
(* analyze_frame and CameraTrackers.track *)

\* Bug: a camera that is known goes on with the tracker of the last frame.
SwitchedOnce(m) ==
  IF current = 0 \/ saved[m] = 0
  THEN fed' = Append(fed, {}) /\ current' = Len(fed) + 1
  ELSE UNCHANGED <<fed, current>>

\* The tracker of the camera is put in place: one that is new, or the one that was saved.
Switched(m) ==
  IF current = 0 \/ saved[m] = 0
  THEN fed' = Append(fed, {}) /\ current' = Len(fed) + 1
  ELSE current' = saved[m] /\ UNCHANGED fed

\* The lock is taken. The tracker of the camera is put in place, unless the frame cannot be
\* decoded or the room is known to be empty.
Locks(t) ==
  /\ thread[t].at = "waits" /\ lock = None
  /\ lock' = t
  /\ \/ Goes(t, "tracks") /\ Switched(Of(thread[t].call))
     \/ Goes(t, "looks") /\ UNCHANGED <<fed, current>>
  /\ UNCHANGED <<call, raised, sent, pool, saved, failed, client, stored, excused, faults>>

\* The next step of a call whose job is done, unless the call was cancelled.
Continues(c, verdicts, tried) ==
  IF call[c] = "cancelled" THEN UNCHANGED <<call, pool>>
  ELSE IF tried < verdicts
  THEN call' = [call EXCEPT ![c] = "sends"] /\ Submit(c, "send")
  ELSE call' = [call EXCEPT ![c] = "done"] /\ UNCHANGED pool

\* The tracker sees the frame.
Fed(t) == fed' = [fed EXCEPT ![current] = @ \cup {Of(thread[t].call)}]

\* A frame that was tracked, or not, is scored, and raises verdicts.
Scores(t) ==
  /\ thread[t].at \in {"tracks", "looks"}
  /\ IF thread[t].at = "tracks"
     THEN Fed(t) /\ saved' = [saved EXCEPT ![Of(thread[t].call)] = current]
     ELSE UNCHANGED <<fed, saved>>
  /\ \E verdicts \in 0 .. MaxVerdicts :
       /\ raised' = [raised EXCEPT ![thread[t].call] = verdicts]
       /\ Continues(thread[t].call, verdicts, 0)
  /\ lock' = None
  /\ thread' = [thread EXCEPT ![t] = Idle]
  /\ UNCHANGED <<sent, current, failed, client, stored, excused, faults>>

\* A model fails on a frame: the call fails, and the tracker is not saved.
Fails(t) ==
  /\ thread[t].at = "tracks" /\ Fault
  /\ Fed(t) \/ UNCHANGED fed
  /\ failed' = TRUE
  /\ call' = [call EXCEPT ![thread[t].call] = IF @ = "cancelled" THEN @ ELSE "failed"]
  /\ lock' = None
  /\ thread' = [thread EXCEPT ![t] = Idle]
  /\ UNCHANGED <<raised, sent, pool, current, saved, client, stored, excused>>

-----------------------------------------------------------------------------
(* AlertClient.send *)

Posting(t) == <<thread[t].call, sent[thread[t].call] + 1>>

\* The verdict is done with, and the call goes on to the next.
Tried(t) ==
  LET c == thread[t].call
  IN  /\ sent' = [sent EXCEPT ![c] = @ + 1]
      /\ Continues(c, raised[c], sent[c] + 1)
      /\ thread' = [thread EXCEPT ![t] = Idle]

\* _connect: the token there is, or a login with the lock held.
Connects(t) ==
  /\ thread[t].at = "connects" /\ login = None
  /\ IF token = 0
     THEN Goes(t, "logsIn") /\ login' = t
     ELSE thread' = [thread EXCEPT ![t].at = "posts", ![t].token = token] /\ UNCHANGED login
  /\ UNCHANGED <<call, raised, sent, pool, models, token, issued, expired, stored, excused,
                 faults>>

LogsIn(t) ==
  /\ thread[t].at = "logsIn" /\ issued < MaxTokens
  /\ issued' = issued + 1 /\ token' = issued + 1
  /\ login' = None
  /\ thread' = [thread EXCEPT ![t].at = "posts", ![t].token = issued + 1]
  /\ UNCHANGED <<call, raised, sent, pool, models, expired, stored, excused, faults>>

\* Without a token there is no post.
LoginFails(t) ==
  /\ thread[t].at = "logsIn" /\ Fault
  /\ login' = None
  /\ excused' = excused \cup {Posting(t)}
  /\ Tried(t)
  /\ UNCHANGED <<raised, models, token, issued, expired, stored>>

\* The API stores the alert, or finds it stored.
Posts(t) ==
  /\ thread[t].at = "posts" /\ thread[t].token > expired
  /\ stored' = stored \cup {Posting(t)}
  /\ Tried(t)
  /\ UNCHANGED <<raised, models, client, excused, faults>>

\* 401: a second one is final.
Unauthorized(t) ==
  /\ thread[t].at = "posts" /\ thread[t].token =< expired
  /\ IF thread[t].attempt = 1 THEN Goes(t, "resets") /\ UNCHANGED <<call, sent, pool>> ELSE Tried(t)
  /\ UNCHANGED <<raised, models, client, stored, excused, faults>>

\* There is no answer, whether the alert was stored or not.
Unanswered(t) ==
  /\ thread[t].at = "posts" /\ Fault
  /\ \/ UNCHANGED stored
     \/ thread[t].token > expired /\ stored' = stored \cup {Posting(t)}
  /\ excused' = IF thread[t].attempt = 2 THEN excused \cup {Posting(t)} ELSE excused
  /\ Goes(t, "resets")
  /\ UNCHANGED <<call, raised, sent, pool, models, client>>

\* The API answers with another error.
Refused(t) ==
  /\ thread[t].at = "posts" /\ thread[t].token > expired /\ Fault
  /\ excused' = excused \cup {Posting(t)}
  /\ Tried(t)
  /\ UNCHANGED <<raised, models, client, stored>>

\* Bug: the second attempt is made with the token of the first.
ResetsNothing(t) ==
  /\ thread[t].at = "resets" /\ login = None
  /\ IF thread[t].attempt = 1
     THEN thread' = [thread EXCEPT ![t].at = "connects", ![t].attempt = 2]
           /\ UNCHANGED <<call, sent, pool>>
     ELSE Tried(t)
  /\ UNCHANGED <<raised, models, client, stored, excused, faults>>

\* _reset, whosever the token is; then there is a second attempt, and no third.
Resets(t) ==
  /\ thread[t].at = "resets" /\ login = None
  /\ token' = 0
  /\ IF thread[t].attempt = 1
     THEN thread' = [thread EXCEPT ![t].at = "connects", ![t].attempt = 2]
           /\ UNCHANGED <<call, sent, pool>>
     ELSE Tried(t)
  /\ UNCHANGED <<raised, models, login, issued, expired, stored, excused, faults>>

\* The tokens issued so far expire, or are revoked: a second attempt under way has met that.
Expires ==
  /\ expired < issued
  /\ expired' = issued
  /\ excused' = excused \cup {Posting(t) : t \in {u \in Thread : thread[u].attempt = 2}}
  /\ UNCHANGED <<call, raised, sent, pool, thread, models, token, login, issued, stored, faults>>

-----------------------------------------------------------------------------

Score(t) == Takes(t) \/ Locks(t) \/ Scores(t) \/ Fails(t)

Send(t) == \/ Connects(t) \/ LogsIn(t) \/ LoginFails(t) \/ Posts(t) \/ Unauthorized(t)
           \/ Unanswered(t) \/ Refused(t) \/ Resets(t)

Next ==
  \/ \E c \in Call : Arrives(c) \/ Cancelled(c)
  \/ \E t \in Thread : Score(t) \/ Send(t)
  \/ Expires

Spec == Init /\ [][Next]_vars

-----------------------------------------------------------------------------
(* Properties. *)

\* send: a verdict that was tried is stored, whatever became of the token meanwhile and
\* whichever thread reset it, unless the login failed, the API refused it or did not answer
\* twice, or the token of the second attempt expired.
TriedIsStored == \A c \in Call : \A v \in 1 .. sent[c] : <<c, v>> \in stored \cup excused

\* Analyze: a call that ends in time has tried all its verdicts.
DoneIsTried == \A c \in Call : call[c] = "done" => sent[c] = raised[c]

\* CameraTrackers.track under the lock: no tracker sees frames of two cameras, and no camera
\* has two unless a frame of it failed.
TrackersStayApart ==
  /\ \A k \in DOMAIN fed : Cardinality(fed[k]) =< 1
  /\ failed \/ \A j, k \in DOMAIN fed : j # k => fed[j] \cap fed[k] = {}
=============================================================================
