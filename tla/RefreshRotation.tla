-------------------------- MODULE RefreshRotation --------------------------
(***************************************************************************)
(* The refresh tokens of one login session of the auth service: requests   *)
(* to /auth/refresh rotate the token they present, forgive a replay within *)
(* the grace period, and take any other replay for theft, which ends the   *)
(* whole family and the session.  Logout, RevokeSession, the idle sweep    *)
(* and the admin routes end the session from outside.                      *)
(*                                                                         *)
(* Every SQL statement is one step under READ COMMITTED: it sees what is   *)
(* committed, waits for the rows other transactions have locked, and locks *)
(* the rows it updates until the end of its transaction; the updates of a  *)
(* transaction take effect when it commits.  A replay comes from a tab, a  *)
(* retry after a lost reply, or a copy of the cookie: any token that was   *)
(* ever issued may be presented at any time.                               *)
(*                                                                         *)
(* A token lives for 14 days and a session that is not used for 12 hours   *)
(* is revoked, so a token of a live session has not expired.               *)
(***************************************************************************)
EXTENDS Naturals, Sequences, FiniteSets

CONSTANTS
  Request,    \* requests to /auth/refresh that may be under way at once
  MaxHops,    \* _MAX_SUCCESSOR_HOPS
  MaxTokens,  \* bound: tokens issued in the session
  MaxFaults   \* bound: requests that die and pushes to Redis that fail

RotationAssumption ==
  /\ MaxHops \in Nat \ {0}
  /\ MaxTokens \in Nat \ {0}
  /\ MaxFaults \in Nat

VARIABLES
  tokens,      \* refresh_tokens of the family, in the order they were committed
  revoked,     \* sessions.revoked
  active,      \* users.is_active
  push,        \* revoke_sid, owed by the caller whose update revoked the session
  pc,          \* where each request is
  req,         \* what it remembers
  held,        \* the rows its transaction has locked
  unpunished,  \* history: a request that had detected a reuse did not get to the end
  faults

vars == <<tokens, revoked, active, push, pc, req, held, unpunished, faults>>

NoJti == 0

\* Tokens are numbered in the order they are committed.
Jti == Nat \ {NoJti}

\* The lockable rows: the tokens, and the session.
SessionRow == 0
Row == Jti \cup {SessionRow}

\* rotated_at: null, within the grace period, or before it.
Rotated == {"never", "lately", "longAgo"}

Token == [revoked : BOOLEAN, rotated : Rotated, replaced : Jti \cup {NoJti}]

Issued == [revoked |-> FALSE, rotated |-> "never", replaced |-> NoJti]

Known == DOMAIN tokens

\* presented: the jti in the cookie; stored: the token that is rotated in the end; next: its
\* replaced_by, as it was read; hops: successors looked at; late: the replay came after the
\* grace period; began: the session was live when the request began; upto: the tokens
\* revoke_family found.
Memory == [presented : Jti \cup {NoJti}, stored : Jti \cup {NoJti}, next : Jti \cup {NoJti},
           hops : 0..MaxHops, late : BOOLEAN, began : BOOLEAN, upto : Nat]

Blank == [presented |-> NoJti, stored |-> NoJti, next |-> NoJti, hops |-> 0, late |-> FALSE,
          began |-> FALSE, upto |-> 0]

Killing == {"kill", "lock"}

TypeOK ==
  /\ tokens \in Seq(Token)
  /\ revoked \in BOOLEAN
  /\ active \in BOOLEAN
  /\ push \in {"none", "due", "done", "lost"}
  /\ pc \in [Request -> {"idle", "hop", "session", "touch", "user", "rotate", "commit"}
                          \cup Killing]
  /\ req \in [Request -> Memory]
  /\ held \in [Request -> SUBSET Row]
  /\ \A q, r \in Request : q # r => held[q] \cap held[r] = {}
  /\ \A r \in Request : pc[r] = "idle" => held[r] = {}
  /\ unpunished \in BOOLEAN
  /\ faults \in 0..MaxFaults

\* After login: one token, one session.
Init ==
  /\ tokens = <<Issued>>
  /\ revoked = FALSE
  /\ active = TRUE
  /\ push = "none"
  /\ pc = [r \in Request |-> "idle"]
  /\ req = [r \in Request |-> Blank]
  /\ held = [r \in Request |-> {}]
  /\ unpunished = FALSE
  /\ faults = 0

Fault == faults < MaxFaults /\ faults' = faults + 1

GoTo(r, label) == pc' = [pc EXCEPT ![r] = label]

\* The end of a request and of its transaction.
Leave(r) ==
  /\ GoTo(r, "idle")
  /\ req' = [req EXCEPT ![r] = Blank]
  /\ held' = [held EXCEPT ![r] = {}]

Free(r, row) == \A q \in Request \ {r} : row \notin held[q]

Lock(r, row) ==
  /\ Free(r, row)
  /\ held' = [held EXCEPT ![r] = @ \cup {row}]

\* Bound: there is room for what the requests under way may still issue.
Room == Len(tokens) + Cardinality({r \in Request : pc[r] # "idle"}) < MaxTokens

-----------------------------------------------------------------------------
(* _resolve_presented_refresh *)

Present(r, t, label) ==
  /\ pc[r] = "idle"
  /\ GoTo(r, label)
  /\ req' = [req EXCEPT ![r] = [presented |-> t, stored |-> t,
                                next |-> tokens[t].replaced, hops |-> 0,
                                late |-> label = "kill", began |-> ~revoked, upto |-> 0]]
  /\ UNCHANGED <<tokens, revoked, active, push, held, unpunished, faults>>

\* get_by_jti_and_hash finds a token that is not revoked.
PresentLive(r) ==
  \E t \in Known : Room /\ ~tokens[t].revoked /\ Present(r, t, "session")

\* It was rotated within the grace period.  (A token that was revoked with its family and
\* never rotated is refused at once, which changes nothing.)
PresentReplay(r) ==
  /\ Room
  /\ \E t \in Known :
       tokens[t].revoked /\ tokens[t].rotated = "lately" /\ Present(r, t, "hop")

\* It was rotated before that.
PresentStale(r) ==
  \E t \in Known : tokens[t].revoked /\ tokens[t].rotated = "longAgo" /\ Present(r, t, "kill")

\* Bug: one successor less is looked at.
HopsShort(r) == req[r].hops + 1 < MaxHops /\ req[r].next # NoJti

\* The loop goes on.
Hops(r) == req[r].hops < MaxHops /\ req[r].next # NoJti

\* get_by_jti of the successor.
Hop(r) ==
  /\ pc[r] = "hop"
  /\ Hops(r)
  /\ LET candidate == tokens[req[r].next]
     IN  /\ req' = [req EXCEPT ![r].stored = req[r].next, ![r].next = candidate.replaced,
                               ![r].hops = @ + 1]
         /\ IF candidate.revoked THEN UNCHANGED pc ELSE GoTo(r, "session")
  /\ UNCHANGED <<tokens, revoked, active, push, held, unpunished, faults>>

\* No usable token: the replay is taken for a reuse.
DetectReuse(r) ==
  /\ pc[r] = "hop"
  /\ ~Hops(r)
  /\ GoTo(r, "kill")
  /\ UNCHANGED <<tokens, revoked, active, push, req, held, unpunished, faults>>

-----------------------------------------------------------------------------
(* refresh, of a usable token *)

\* Bug: the session is not looked at.
RefusedNever(r) == FALSE

\* The session was found revoked.
Refused(r) == revoked

CheckSession(r) ==
  /\ pc[r] = "session"
  /\ IF Refused(r) THEN Leave(r) ELSE GoTo(r, "touch") /\ UNCHANGED <<req, held>>
  /\ UNCHANGED <<tokens, revoked, active, push, unpunished, faults>>

\* touch: locks the session unless it has been revoked meanwhile, which nobody notices.
Touch(r) ==
  /\ pc[r] = "touch"
  /\ IF revoked THEN UNCHANGED held ELSE Lock(r, SessionRow)
  /\ GoTo(r, "user")
  /\ UNCHANGED <<tokens, revoked, active, push, req, unpunished, faults>>

CheckUser(r) ==
  /\ pc[r] = "user"
  /\ IF active THEN GoTo(r, "rotate") /\ UNCHANGED <<req, held>> ELSE Leave(r)
  /\ UNCHANGED <<tokens, revoked, active, push, unpunished, faults>>

\* mark_rotated: whatever the row holds by now.
MarkRotated(r) ==
  /\ pc[r] = "rotate"
  /\ Lock(r, req[r].stored)
  /\ GoTo(r, "commit")
  /\ UNCHANGED <<tokens, revoked, active, push, req, unpunished, faults>>

\* Bug: the row does not say what replaced it.
RotatedForgetful(t) == [revoked |-> TRUE, rotated |-> "lately", replaced |-> NoJti]

\* The row of a rotated token, whose successor is the next token to be committed.
RotatedAway(t) == [revoked |-> TRUE, rotated |-> "lately", replaced |-> Len(tokens) + 1]

\* The insert of the new token, and the commit.
Commit(r) ==
  /\ pc[r] = "commit"
  /\ tokens' = Append([tokens EXCEPT ![req[r].stored] = RotatedAway(req[r].stored)], Issued)
  /\ Leave(r)
  /\ UNCHANGED <<revoked, active, push, unpunished, faults>>

-----------------------------------------------------------------------------
(* _kill_family_on_reuse *)

\* revoke_family: the tokens that are committed when the statement begins.
BeginKill(r) ==
  /\ pc[r] = "kill"
  /\ GoTo(r, "lock")
  /\ req' = [req EXCEPT ![r].upto = Len(tokens)]
  /\ UNCHANGED <<tokens, revoked, active, push, held, unpunished, faults>>

Unlocked(r) == 1..req[r].upto \ held[r]

\* Row after row, in whatever order they are found.
LockToken(r) ==
  /\ pc[r] = "lock"
  /\ \E t \in Unlocked(r) : Lock(r, t)
  /\ UNCHANGED <<tokens, revoked, active, push, pc, req, unpunished, faults>>

\* Bug: the caller does not learn whether the session was live.
RevokeForgetsPush(r) ==
  /\ revoked' = TRUE
  /\ UNCHANGED push

\* sessions.revoke: waits for the session only if it is not revoked; only the caller whose
\* update revokes it has the revocation to push.
Revoke(r) ==
  /\ revoked \/ Free(r, SessionRow)
  /\ revoked' = TRUE
  /\ push' = IF revoked THEN push ELSE "due"

\* sessions.revoke, and the commit.
KillFamily(r) ==
  /\ pc[r] = "lock"
  /\ Unlocked(r) = {}
  /\ Revoke(r)
  /\ tokens' = [t \in Known |->
                  IF t <= req[r].upto THEN [tokens[t] EXCEPT !.revoked = TRUE] ELSE tokens[t]]
  /\ Leave(r)
  /\ UNCHANGED <<active, unpunished, faults>>

-----------------------------------------------------------------------------
(* The other ends of a session, and what goes wrong *)

\* logout, RevokeSession, the idle sweep, an admin's reset or revocation.
EndSession ==
  /\ ~revoked
  /\ \A r \in Request : SessionRow \notin held[r]
  /\ revoked' = TRUE
  /\ push' = "due"
  /\ UNCHANGED <<tokens, active, pc, req, held, unpunished, faults>>

\* set_active: the account and its sessions in one transaction.
Disable ==
  /\ active
  /\ \A r \in Request : SessionRow \notin held[r]
  /\ active' = FALSE
  /\ revoked' = TRUE
  /\ push' = IF revoked THEN push ELSE "due"
  /\ UNCHANGED <<tokens, pc, req, held, unpunished, faults>>

Enable ==
  /\ ~active
  /\ active' = TRUE
  /\ UNCHANGED <<tokens, revoked, push, pc, req, held, unpunished, faults>>

\* revoke_sid.
Push ==
  /\ push = "due"
  /\ push' = "done"
  /\ UNCHANGED <<tokens, revoked, active, pc, req, held, unpunished, faults>>

\* Redis is away, or the caller dies: nobody pushes again.
PushFails ==
  /\ push = "due"
  /\ Fault
  /\ push' = "lost"
  /\ UNCHANGED <<tokens, revoked, active, pc, req, held, unpunished>>

GraceEnds(t) ==
  /\ tokens[t].rotated = "lately"
  /\ tokens' = [tokens EXCEPT ![t].rotated = "longAgo"]
  /\ UNCHANGED <<revoked, active, push, pc, req, held, unpunished, faults>>

\* r may be waiting for a row that q has locked.
Waits(r, q) ==
  /\ q # r
  /\ \/ pc[r] = "touch" /\ ~revoked /\ SessionRow \in held[q]
     \/ pc[r] = "rotate" /\ req[r].stored \in held[q]
     \/ pc[r] = "lock" /\ Unlocked(r) \cap held[q] # {}
     \/ pc[r] = "lock" /\ Unlocked(r) = {} /\ ~revoked /\ SessionRow \in held[q]

Deadlocked(r) ==
  \E S \in SUBSET Request :
    r \in S /\ \A q \in S : (\E p \in S : Waits(q, p)) /\ (\E p \in S : Waits(p, q))

\* The transaction is rolled back and the request fails.
Rollback(r) ==
  /\ Leave(r)
  /\ unpunished' = (unpunished \/ pc[r] \in Killing)
  /\ UNCHANGED <<tokens, revoked, active, push>>

\* PostgreSQL breaks the deadlock at the cost of one of those in it.
AbortVictim(r) ==
  /\ Deadlocked(r)
  /\ Rollback(r)
  /\ UNCHANGED faults

Crash(r) ==
  /\ pc[r] # "idle"
  /\ Fault
  /\ Rollback(r)

-----------------------------------------------------------------------------

Refresh(r) ==
  \/ Hop(r) \/ DetectReuse(r)
  \/ CheckSession(r) \/ Touch(r) \/ CheckUser(r) \/ MarkRotated(r) \/ Commit(r)
  \/ BeginKill(r) \/ LockToken(r) \/ KillFamily(r)

Next ==
  \/ \E r \in Request :
       \/ PresentLive(r) \/ PresentReplay(r) \/ PresentStale(r)
       \/ Refresh(r) \/ AbortVictim(r) \/ Crash(r)
  \/ EndSession \/ Disable \/ Enable \/ Push \/ PushFails
  \/ \E t \in Known : GraceEnds(t)

Spec == Init /\ [][Next]_vars

-----------------------------------------------------------------------------
(* Properties *)

\* A new token is only issued to a request that began while the session was live: once a
\* reuse, a logout or an administrator has ended the session, no token gets its bearer a
\* new one, although a logout leaves the tokens of the session as they are and a racing
\* refresh may commit a token after revoke_family has looked for them.
GrantedWhileLive ==
  \A r \in Request : pc[r] \in {"touch", "user", "rotate", "commit"} => req[r].began

\* While the session is live, every token is usable or has been replaced by a younger one:
\* whatever races, following replaced_by ends at a usable token.
ChainReachesLiveToken ==
  ~revoked => \A t \in Known :
                tokens[t].revoked => tokens[t].replaced \in Known /\ tokens[t].replaced > t

\* A replay within the grace period is only taken for a reuse if the token has more than
\* _MAX_SUCCESSOR_HOPS successors or the session has ended anyway.
NoFalseReuse ==
  \A r \in Request :
    pc[r] \in Killing /\ ~req[r].late => revoked \/ Len(tokens) > req[r].presented + MaxHops

\* However many callers end the session at once, its revocation is pushed to Redis, where
\* VerifyToken looks, or the failure of the push is on record.
RevokedIsPushed == revoked <=> push # "none"

\* A reuse that was detected ends the session (test_reuse_revokes_the_session), unless
\* another request is just doing that.
ReuseEndsTheSession ==
  faults = 0 /\ unpunished => revoked \/ \E r \in Request : pc[r] \in Killing
=============================================================================
