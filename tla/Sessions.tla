------------------------------ MODULE Sessions ------------------------------
(***************************************************************************)
(* Accounts and login sessions: the auth service over PostgreSQL and       *)
(* Redis, and the API, which asks the auth service about every access      *)
(* token and keeps browser sockets open on sessions.                       *)
(*                                                                         *)
(* A request is served in steps: every SQL statement or Redis call whose   *)
(* effect others can see is one of them, and requests, the sweep of idle   *)
(* sessions, the expiry of keys and the sockets interleave between them.   *)
(* Rotation within a session's token family is the subject of              *)
(* RefreshRotation; here a session has one newest access token.            *)
(***************************************************************************)
EXTENDS Naturals, FiniteSets

CONSTANTS
  User,
  Admin,        \* those with the admin role at first
  Session,      \* session ids, with the access token that names each
  None,
  Opened,       \* who has which session open at first
  MaxRequests,  \* bound: requests to the auth service
  MaxFaults     \* bound: calls that fail and processes that die

ASSUME SessionsAssumption ==
  /\ Admin \subseteq User /\ Admin # {} /\ None \notin User /\ None \notin Session
  /\ Opened \in [Session -> User \cup {None}]
  /\ MaxRequests \in Nat /\ MaxFaults \in Nat

\* Requests are numbered as they arrive.
Request == 1..MaxRequests

VARIABLES
  account,     \* users: is_active, or that the row is gone
  admin,       \* the users whose roles include admin
  owner,       \* sessions: user_id
  stored,      \* sessions: revoked
  idle,        \* sessions whose last_used_at is behind the idle timeout
  tokens,      \* sessions whose newest access token has not expired
  barred,      \* keys revoked:jti, by the session of that token
  cut,         \* keys revoked:sid
  mail,        \* session ids published on session:revoked, not yet received
  sock,        \* the browser socket the API serves on a session
  pc,          \* where a request is
  job,         \* what it does, for whom, and on which session
  listed,      \* the session ids it has read and will push
  sweep,       \* where the sweep is
  batch,       \* its session ids
  lost,        \* sessions whose revocation was not pushed because of a fault
  overlooked,  \* sessions ended by a request that had listed the live ones before
  late,        \* sessions with a token a refresh issued after they had ended
  raced,       \* a guard's count was used after another request's change
  faults

rows   == <<account, admin, owner, stored, idle>>
redis  == <<cut, mail>>
access == <<tokens, barred>>
sweeps == <<sweep, batch>>
ghosts == <<lost, overlooked, late>>
vars   == <<account, admin, owner, stored, idle, tokens, barred, cut, mail, sock, pc, job,
            listed, sweep, batch, lost, overlooked, late, raced, faults>>

TakesAdmin == {"disable", "demote", "delete"}
DropsAll   == {"disable", "delete", "drop"}
Managing   == TakesAdmin \cup DropsAll \cup {"enable", "grant"}
Op         == Managing \cup {"login", "refresh", "logout"}

NoJob == [op |-> "none", user |-> None, session |-> None]

TypeOK ==
  /\ account \in [User -> {"active", "disabled", "gone"}]
  /\ admin \subseteq User
  /\ owner \in [Session -> User \cup {None}]
  /\ stored \in [Session -> {"none", "live", "revoked", "deleted"}]
  /\ \A s \in Session : (owner[s] = None) <=> (stored[s] = "none")
  /\ idle \subseteq Session /\ idle \cap tokens = {}
  /\ tokens \subseteq Session /\ barred \subseteq Session
  /\ cut \subseteq Session /\ mail \subseteq Session
  /\ sock \in [Session -> {"none", "accepted", "open"}]
  /\ pc \in [Request -> {"new", "begun", "guarded", "listed", "logout", "push", "done"}]
  /\ job \in [Request -> [op : Op \cup {"none"}, user : User \cup {None},
                          session : Session \cup {None}]]
  /\ listed \in [Request -> SUBSET Session]
  /\ sweep \in {"idle", "revoke", "push"} /\ batch \subseteq Session
  /\ lost \subseteq Session /\ overlooked \subseteq Session /\ late \subseteq Session
  /\ raced \in BOOLEAN /\ faults \in 0..MaxFaults

Init ==
  /\ account = [u \in User |-> "active"]
  /\ admin = Admin
  /\ owner = Opened
  /\ stored = [s \in Session |-> IF owner[s] = None THEN "none" ELSE "live"]
  /\ tokens = {s \in Session : owner[s] # None}
  /\ idle = {} /\ barred = {} /\ cut = {} /\ mail = {}
  /\ sock = [s \in Session |-> "none"]
  /\ pc = [r \in Request |-> "new"]
  /\ job = [r \in Request |-> NoJob]
  /\ listed = [r \in Request |-> {}]
  /\ sweep = "idle" /\ batch = {}
  /\ lost = {} /\ overlooked = {} /\ late = {}
  /\ raced = FALSE /\ faults = 0

-----------------------------------------------------------------------------
(* Helpers *)

Fault == faults < MaxFaults /\ faults' = faults + 1

\* Bug: the key of the session is not looked at.
AcceptedByJti(s) == s \in tokens \ barred

\* VerifyToken: the signature, the expiry and the two keys; not the account.
Accepted(s) == s \in tokens \ (barred \cup cut)

\* live_ids_for_user.
LiveOf(u) == {s \in Session : owner[s] = u /\ stored[s] = "live"}

ActiveAdmins == {u \in admin : account[u] = "active"}

InTurn(r) == pc[r] = "new" /\ (r > 1 => pc[r - 1] # "new")

Begin(r, op, u, s) ==
  /\ InTurn(r)
  /\ job' = [job EXCEPT ![r] = [op |-> op, user |-> u, session |-> s]]

GoTo(r, step) == pc' = [pc EXCEPT ![r] = step]

\* What is left of a request that has committed: the sessions it has to push.
Push(r, S) ==
  /\ listed' = [listed EXCEPT ![r] = S]
  /\ job' = [job EXCEPT ![r] = NoJob]
  /\ GoTo(r, IF S = {} THEN "done" ELSE "push")

Done(r) == Push(r, {})

-----------------------------------------------------------------------------
(* login, refresh, logout, RevokeSession *)

\* The account is read, the password is right; a disabled account is refused.
BeginLogin(r, u) ==
  /\ account[u] = "active"
  /\ Begin(r, "login", u, None)
  /\ GoTo(r, "begun")
  /\ UNCHANGED <<rows, access, redis, sock, listed, sweeps, ghosts, raced, faults>>

\* The session is committed and its tokens are handed out.
FinishLogin(r) ==
  /\ pc[r] = "begun" /\ job[r].op = "login"
  /\ \E s \in Session :
       /\ stored[s] = "none"
       /\ owner' = [owner EXCEPT ![s] = job[r].user]
       /\ stored' = [stored EXCEPT ![s] = "live"]
       /\ tokens' = tokens \cup {s}
  /\ Done(r)
  /\ UNCHANGED <<account, admin, idle, barred, redis, sock, sweeps, ghosts, raced, faults>>

\* The refresh token is good and its session is not revoked.
BeginRefresh(r, s) ==
  /\ stored[s] = "live"
  /\ Begin(r, "refresh", None, s)
  /\ GoTo(r, "begun")
  /\ UNCHANGED <<rows, access, redis, sock, listed, sweeps, ghosts, raced, faults>>

\* The account is active; a session that is gone takes its refresh tokens with it.
Renews(s) == stored[s] # "deleted" /\ account[owner[s]] = "active"

\* touch, the account, the new tokens and the commit; touch locks the session's row and
\* does nothing to a revoked one.
FinishRefresh(r) ==
  /\ pc[r] = "begun" /\ job[r].op = "refresh"
  /\ LET s == job[r].session IN
       IF Renews(s)
       THEN /\ tokens' = tokens \cup {s}
            /\ barred' = barred \ {s}
            /\ idle' = idle \ {s}
            /\ late' = IF stored[s] = "live" THEN late ELSE late \cup {s}
       ELSE UNCHANGED <<access, idle, late>>
  /\ Done(r)
  /\ UNCHANGED <<account, admin, owner, stored, redis, sock, sweeps, lost, overlooked,
                 raced, faults>>

\* revoke_jti of the token that came with the request.
BeginLogout(r, s) ==
  /\ s \in tokens
  /\ Begin(r, "logout", None, s)
  /\ barred' = barred \cup {s}
  /\ GoTo(r, "logout")
  /\ UNCHANGED <<rows, tokens, redis, sock, listed, sweeps, ghosts, raced, faults>>

\* sessions.revoke and the commit: only the caller that ended the session pushes it.
End(r, s) ==
  /\ IF stored[s] = "live"
     THEN stored' = [stored EXCEPT ![s] = "revoked"] /\ Push(r, {s})
     ELSE stored' = stored /\ Push(r, {})
  /\ UNCHANGED <<account, admin, owner, idle, access, redis, sock, sweeps, ghosts, raced,
                 faults>>

FinishLogout(r) ==
  /\ pc[r] = "logout"
  /\ End(r, job[r].session)

RevokeSession(r, s) ==
  /\ InTurn(r)
  /\ End(r, s)

-----------------------------------------------------------------------------
(* The administrators' requests *)

\* require_admin, and the checks on the actor's own account; the session the actor works
\* in is not followed.
Authorise(r, op, u) ==
  /\ \E actor \in ActiveAdmins : op \in TakesAdmin => u # actor
  /\ Begin(r, op, u, None)
  /\ GoTo(r, "begun")
  /\ UNCHANGED <<rows, access, redis, sock, listed, sweeps, ghosts, raced, faults>>

\* The row as it is when it is loaded calls for a change.
Calls(op, u) ==
  /\ account[u] # "gone"
  /\ op = "disable" => account[u] = "active"
  /\ op = "enable" => account[u] = "disabled"
  /\ op = "demote" => u \in admin
  /\ op = "grant" => u \notin admin

\* Bug: the target counts as one of those that remain.
GuardCountsTarget(u) == u \in ActiveAdmins => Cardinality(ActiveAdmins) >= 1

\* _guard_last_admin.
Guard(u) == u \in ActiveAdmins => Cardinality(ActiveAdmins) > 1

\* _load and the guard; delete_user lists the live sessions at once, ends its
\* transaction and waits for the audit service to erase the subject.
Load(r) ==
  /\ pc[r] = "begun" /\ job[r].op \in Managing
  /\ LET op == job[r].op
         u  == job[r].user
     IN  IF ~Calls(op, u) \/ (op \in TakesAdmin /\ ~Guard(u))
         THEN Done(r)
         ELSE IF op = "delete"
              THEN listed' = [listed EXCEPT ![r] = LiveOf(u)] /\ GoTo(r, "listed") /\ UNCHANGED job
              ELSE GoTo(r, "guarded") /\ UNCHANGED <<job, listed>>
  /\ UNCHANGED <<rows, access, redis, sock, sweeps, ghosts, raced, faults>>

\* The account's row is not locked by the update of another request.
RowIsFree(r) ==
  \A q \in Request \ {r} :
    ~ (pc[q] = "listed" /\ job[q].op = "disable" /\ job[q].user = job[r].user)

\* The account is updated, which locks its row, and live_ids_for_user is read.
List(r) ==
  /\ pc[r] = "guarded" /\ job[r].op \in DropsAll
  /\ job[r].op = "disable" => RowIsFree(r)
  /\ listed' = [listed EXCEPT ![r] = LiveOf(job[r].user)]
  /\ GoTo(r, "listed")
  /\ UNCHANGED <<rows, access, redis, sock, job, sweeps, ghosts, raced, faults>>

\* What the statements of a request do to the account.
Change(op, u) ==
  /\ account' = CASE op = "disable" -> [account EXCEPT ![u] = "disabled"]
                   [] op = "enable"  -> [account EXCEPT ![u] = "active"]
                   [] op = "delete"  -> [account EXCEPT ![u] = "gone"]
                   [] OTHER          -> account
  /\ admin' = CASE op = "grant" -> admin \cup {u}
                 [] op \in {"demote", "delete"} -> admin \ {u}
                 [] OTHER -> admin

\* revoke_all_for_user, unless no session was listed, or delete_for_user.
Ended(r) ==
  CASE job[r].op = "delete" -> {s \in Session : owner[s] = job[r].user /\ stored[s] # "none"}
    [] job[r].op \in {"disable", "drop"} /\ listed[r] # {} -> LiveOf(job[r].user)
    [] OTHER -> {}

\* dropped, or live, as read before the update.
Pushed(r) == listed[r]

Commit(r) ==
  /\ \/ pc[r] = "listed"
     \/ pc[r] = "guarded" /\ job[r].op \notin DropsAll
  /\ job[r].op # "drop" => RowIsFree(r)
  /\ account[job[r].user] # "gone"
  /\ Change(job[r].op, job[r].user)
  /\ stored' = [s \in Session |->
                  IF s \in Ended(r)
                  THEN IF job[r].op = "delete" THEN "deleted" ELSE "revoked"
                  ELSE stored[s]]
  /\ overlooked' = overlooked \cup ((Ended(r) \cap LiveOf(job[r].user)) \ listed[r])
  /\ raced' = (raced \/ (/\ job[r].op \in TakesAdmin
                         /\ \E q \in Request \ {r} : /\ job[q].op \in TakesAdmin
                                                     /\ pc[q] \in {"guarded", "listed"}))
  /\ Push(r, Pushed(r))
  /\ UNCHANGED <<owner, idle, access, redis, sock, sweeps, lost, late, faults>>

\* The account is gone, or the audit service cannot erase: nothing is changed.
Abandon(r) ==
  /\ pc[r] \in {"guarded", "listed"}
  /\ \/ account[job[r].user] = "gone" /\ UNCHANGED faults
     \/ job[r].op = "delete" /\ Fault
  /\ Done(r)
  /\ UNCHANGED <<rows, access, redis, sock, sweeps, ghosts, raced>>

-----------------------------------------------------------------------------
(* revoke_sid: the key, then the message; the key is what counts *)

Cut(s) ==
  /\ cut' = cut \cup {s}
  /\ \/ mail' = mail \cup {s} /\ UNCHANGED faults
     \/ mail' = mail /\ Fault

\* _push_revocations, one session after the other.
PushOne(r) ==
  /\ pc[r] = "push"
  /\ \E s \in listed[r] : Cut(s) /\ Push(r, listed[r] \ {s})
  /\ UNCHANGED <<rows, access, sock, sweeps, ghosts, raced>>

\* Redis fails or the process dies: those that remain are never pushed.
PushFails(r) ==
  /\ pc[r] = "push"
  /\ Fault
  /\ lost' = lost \cup listed[r]
  /\ Done(r)
  /\ UNCHANGED <<rows, access, redis, sock, sweeps, overlooked, late, raced>>

-----------------------------------------------------------------------------
(* _sweep_once *)

SweepFind ==
  /\ sweep = "idle"
  /\ batch' = {s \in idle : stored[s] = "live"}
  /\ batch' # {}
  /\ sweep' = "revoke"
  /\ UNCHANGED <<rows, access, redis, sock, pc, job, listed, ghosts, raced, faults>>

\* Those still unrevoked, whether or not they were used since.
SweepRevoke ==
  /\ sweep = "revoke"
  /\ stored' = [s \in Session |->
                  IF s \in batch /\ stored[s] = "live" THEN "revoked" ELSE stored[s]]
  /\ sweep' = "push"
  /\ UNCHANGED <<account, admin, owner, idle, access, redis, sock, pc, job, listed, batch,
                 ghosts, raced, faults>>

Swept(s) ==
  /\ batch' = batch \ {s}
  /\ sweep' = IF batch = {s} THEN "idle" ELSE "push"
  /\ UNCHANGED <<rows, access, sock, pc, job, listed, overlooked, late, raced>>

SweepPush ==
  /\ sweep = "push"
  /\ \E s \in batch : Cut(s) /\ Swept(s) /\ UNCHANGED lost

\* "idle session revoked in store but not in cache".
SweepPushFails ==
  /\ sweep = "push"
  /\ Fault
  /\ \E s \in batch : Swept(s) /\ lost' = lost \cup {s}
  /\ UNCHANGED redis

-----------------------------------------------------------------------------
(* Time *)

TokenExpires(s) ==
  /\ s \in tokens
  /\ tokens' = tokens \ {s}
  /\ barred' = barred \ {s}
  /\ lost' = lost \ {s} /\ overlooked' = overlooked \ {s} /\ late' = late \ {s}
  /\ UNCHANGED <<rows, redis, sock, pc, job, listed, sweeps, raced, faults>>

\* The key is set for the whole life of an access token, so that it outlives every
\* token issued before it.
KeyMayLapse(s) == s \in cut /\ (s \notin tokens \/ s \in late)

KeyLapses(s) ==
  /\ KeyMayLapse(s)
  /\ cut' = cut \ {s}
  /\ UNCHANGED <<rows, access, mail, sock, pc, job, listed, sweeps, ghosts, raced, faults>>

\* Bug: the idle timeout is shorter than the life of a token.
IdleSoon(s) == stored[s] = "live" /\ s \notin idle

\* The idle timeout of hours is longer than the life of a token.
MayBeIdle(s) == stored[s] = "live" /\ s \notin tokens \cup idle

GrowsIdle(s) ==
  /\ MayBeIdle(s)
  /\ idle' = idle \cup {s}
  /\ UNCHANGED <<account, admin, owner, stored, access, redis, sock, pc, job, listed,
                 sweeps, ghosts, raced, faults>>

-----------------------------------------------------------------------------
(* The API's sockets *)

Socket(s, from, to) ==
  /\ sock[s] \in from
  /\ sock' = [sock EXCEPT ![s] = to]
  /\ UNCHANGED <<rows, access, cut, pc, job, listed, sweeps, ghosts, raced>>

\* authenticate: the token alone is verified.
Upgrade(s) == Accepted(s) /\ Socket(s, {"none"}, "accepted") /\ UNCHANGED <<mail, faults>>

\* accept, and the registration with the revocation service.
Register(s) == Socket(s, {"accepted"}, "open") /\ UNCHANGED <<mail, faults>>

Leave(s) == Socket(s, {"accepted", "open"}, "none") /\ UNCHANGED <<mail, faults>>

\* _trip: only registered sockets are closed.
Receive(s) ==
  /\ s \in mail
  /\ mail' = mail \ {s}
  /\ sock' = [sock EXCEPT ![s] = IF @ = "open" THEN "none" ELSE @]
  /\ UNCHANGED <<rows, access, cut, pc, job, listed, sweeps, ghosts, raced, faults>>

\* A message that is published while the listener is not connected is not kept.
MissMessage(s) ==
  /\ s \in mail
  /\ Fault
  /\ mail' = mail \ {s}
  /\ UNCHANGED <<rows, access, cut, sock, pc, job, listed, sweeps, ghosts, raced>>

\* Bug: the roles the auth service answers with are not looked at.
IntrospectedBySession(s) == stored[s] = "live"

\* IntrospectSession: the session is active and its user, if active, has the permission.
Introspected(s) == stored[s] = "live" /\ account[owner[s]] = "active"

\* reverify_loop; a call that fails leaves the socket as it is until
\* WS_REAUTH_GRACE_SECONDS have passed without an answer.
Reverify(s) ==
  /\ \/ ~Introspected(s)
     \/ faults < MaxFaults
  /\ Socket(s, {"open"}, "none")
  /\ IF Introspected(s) THEN Fault ELSE UNCHANGED faults
  /\ UNCHANGED mail

-----------------------------------------------------------------------------

Arrive(r) ==
  \/ \E u \in User : BeginLogin(r, u) \/ \E op \in Managing : Authorise(r, op, u)
  \/ \E s \in Session : BeginRefresh(r, s) \/ BeginLogout(r, s) \/ RevokeSession(r, s)

Serve(r) ==
  \/ FinishLogin(r) \/ FinishRefresh(r) \/ FinishLogout(r)
  \/ Load(r) \/ List(r) \/ Commit(r) \/ Abandon(r) \/ PushOne(r) \/ PushFails(r)

Sweep == SweepFind \/ SweepRevoke \/ SweepPush \/ SweepPushFails

Tick(s) == TokenExpires(s) \/ KeyLapses(s) \/ GrowsIdle(s)

Browse(s) == Upgrade(s) \/ Register(s) \/ Leave(s) \/ Receive(s) \/ MissMessage(s) \/ Reverify(s)

Next ==
  \/ \E r \in Request : Arrive(r) \/ Serve(r)
  \/ Sweep
  \/ \E s \in Session : Tick(s) \/ Browse(s)

Spec == Init /\ [][Next]_vars

\* Tokens expire, and reverify_loop never stops asking.
Fairness ==
  \A s \in Session : WF_vars(TokenExpires(s)) /\ WF_vars(Register(s)) /\ WF_vars(Reverify(s))

FairSpec == Spec /\ Fairness

-----------------------------------------------------------------------------
(* Properties *)

\* The push of a session's revocation is still to come.
Owed(s) ==
  \/ \E r \in Request : pc[r] = "push" /\ s \in listed[r]
  \/ sweep = "push" /\ s \in batch

\* VerifyToken, which never looks into PostgreSQL, refuses the tokens of a session that
\* was ended there, whoever ended it, from the push on and as long as they live; what
\* escapes is a session that began while its user's were being dropped, a token of a
\* refresh under way at that moment, or a push that a fault prevented.
EndedIsRefused ==
  \A s \in Session : stored[s] \in {"revoked", "deleted"} /\ Accepted(s)
                        => Owed(s) \/ s \in lost \cup overlooked \cup late

\* Unless two requests that take an administrator away overlap, an active one remains.
AdminRemains == ~raced => ActiveAdmins # {}

\* Whatever is lost, missed or raced: an account that is disabled or deleted, and stays
\* so, ends up without an accepted token and without a socket.
DisabledLosesAccess ==
  \A u \in User : account[u] # "active"
     ~> (account[u] = "active"
         \/ \A s \in Session : owner[s] = u => ~Accepted(s) /\ sock[s] = "none")
=============================================================================
