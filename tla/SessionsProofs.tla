--------------------------- MODULE SessionsProofs ---------------------------
(***************************************************************************)
(* Theorems about Sessions, for any accounts, sessions and requests and    *)
(* any bounds, and about the rotation of the refresh tokens of a session,  *)
(* which is an instance of RefreshRotation.                                *)
(***************************************************************************)
EXTENDS MCSessions, TLAPS, FiniteSetTheorems

-----------------------------------------------------------------------------
(* The inductive invariant *)

\* What a request is for is known at each of its steps: the account of a login or of an
\* administrator's request, the session of a refresh or a logout; and only an
\* administrator's request passes the guard.
JobsInv ==
  \A r \in Request :
    /\ job[r].op \in Managing \cup {"login"} => job[r].user \in User
    /\ job[r].op \in {"refresh", "logout"} => job[r].session \in Session
    /\ pc[r] \in {"guarded", "listed"} => job[r].op \in Managing
    /\ pc[r] = "logout" => job[r].op = "logout"

\* Only a session that was opened can grow idle.
IdleInv == \A s \in idle : stored[s] # "none"

\* The request r has passed the last-administrator guard and has not committed.
PastGuard(r) == job[r].op \in TakesAdmin /\ pc[r] \in {"guarded", "listed"}

\* What the guard found still holds at the commit: without its target an active
\* administrator remains.
GuardInv ==
  ~raced => /\ ActiveAdmins # {}
            /\ \A r \in Request : PastGuard(r) => ActiveAdmins \ {job[r].user} # {}

IInv == TypeOK /\ JobsInv /\ IdleInv /\ EndedIsRefused /\ GuardInv

-----------------------------------------------------------------------------
(* Types *)

\* A request stays a request with a legal job, wherever a handler sends it.
LEMMA PushTypes ==
  ASSUME TypeOK, NEW r \in Request, NEW S \in SUBSET Session, Push(r, S)
  PROVE  /\ pc' \in [Request -> {"new", "begun", "guarded", "listed", "logout", "push", "done"}]
         /\ job' \in [Request -> [op : Op \cup {"none"}, user : User \cup {None},
                                  session : Session \cup {None}]]
         /\ listed' \in [Request -> SUBSET Session]
BY DEF Push, GoTo, NoJob, TypeOK

\* A request that arrives is for an operation, and for an account or a session.
LEMMA BeginTypes ==
  ASSUME TypeOK, NEW r \in Request, NEW op \in Op, NEW u \in User \cup {None},
         NEW s \in Session \cup {None}, NEW dest \in {"begun", "logout"},
         Begin(r, op, u, s), GoTo(r, dest)
  PROVE  /\ pc' \in [Request -> {"new", "begun", "guarded", "listed", "logout", "push", "done"}]
         /\ job' \in [Request -> [op : Op \cup {"none"}, user : User \cup {None},
                                  session : Session \cup {None}]]
BY DEF Begin, GoTo, TypeOK

\* A fault is counted and stays within its bound.
LEMMA FaultTypes ==
  ASSUME TypeOK, Fault
  PROVE  faults' \in 0..MaxFaults
BY SessionsAssumption DEF Fault, TypeOK

\* The push of a session sets its key, with or without its message.
LEMMA CutTypes ==
  ASSUME TypeOK, NEW s \in Session, Cut(s)
  PROVE  cut' \subseteq Session /\ mail' \subseteq Session /\ faults' \in 0..MaxFaults
BY FaultTypes DEF Cut, TypeOK

\* The end of a session leaves every other session as it is.
LEMMA EndTypes ==
  ASSUME TypeOK, NEW r \in Request, NEW s \in Session, End(r, s)
  PROVE  TypeOK'
<1>1. PICK S \in SUBSET Session : Push(r, S)
  BY DEF End
<1>2. stored' \in [Session -> {"none", "live", "revoked", "deleted"}]
  BY DEF End, TypeOK
<1>3. \A t \in Session : (stored'[t] = "none") <=> (stored[t] = "none")
  BY DEF End, TypeOK
<1>4. UNCHANGED <<account, admin, owner, idle, access, redis, sock, sweeps, ghosts, raced,
                  faults>>
  BY DEF End
<1>5. pc' \in [Request -> {"new", "begun", "guarded", "listed", "logout", "push", "done"}]
      /\ job' \in [Request -> [op : Op \cup {"none"}, user : User \cup {None},
                               session : Session \cup {None}]]
      /\ listed' \in [Request -> SUBSET Session]
  BY <1>1, PushTypes
<1> QED BY <1>2, <1>3, <1>4, <1>5 DEF TypeOK, access, redis, sweeps, ghosts

\* A socket only opens, or closes.
LEMMA SocketTypes ==
  ASSUME TypeOK, NEW s \in Session, NEW to \in {"none", "accepted", "open"},
         NEW from, Socket(s, from, to), mail' \subseteq Session, faults' \in 0..MaxFaults
  PROVE  TypeOK'
BY DEF Socket, TypeOK, rows, access, sweeps, ghosts

-----------------------------------------------------------------------------
(* The steps of a request *)

\* A request that arrives keeps the types.
LEMMA ArriveTypes ==
  ASSUME TypeOK, NEW r \in Request, Arrive(r)
  PROVE  TypeOK'
<1> USE DEF rows, access, redis, sweeps, ghosts
<1>1. ASSUME NEW u \in User, BeginLogin(r, u) PROVE TypeOK'
  <2>1. "login" \in Op /\ "begun" \in {"begun", "logout"}
    BY DEF Op
  <2> QED BY <1>1, <2>1, BeginTypes DEF BeginLogin, TypeOK
<1>2. ASSUME NEW u \in User, NEW op \in Managing, Authorise(r, op, u) PROVE TypeOK'
  <2>1. op \in Op /\ "begun" \in {"begun", "logout"}
    BY DEF Op
  <2> QED BY <1>2, <2>1, BeginTypes DEF Authorise, TypeOK
<1>3. ASSUME NEW s \in Session, BeginRefresh(r, s) PROVE TypeOK'
  <2>1. "refresh" \in Op /\ "begun" \in {"begun", "logout"}
    BY DEF Op
  <2> QED BY <1>3, <2>1, BeginTypes DEF BeginRefresh, TypeOK
<1>4. ASSUME NEW s \in Session, BeginLogout(r, s) PROVE TypeOK'
  <2>1. "logout" \in Op /\ "logout" \in {"begun", "logout"}
    BY DEF Op
  <2> QED BY <1>4, <2>1, BeginTypes DEF BeginLogout, TypeOK
<1>5. ASSUME NEW s \in Session, RevokeSession(r, s) PROVE TypeOK'
  BY <1>5, EndTypes DEF RevokeSession
<1> QED BY <1>1, <1>2, <1>3, <1>4, <1>5 DEF Arrive

\* What an operation does to an account and to the administrators.
LEMMA ChangeTypes ==
  ASSUME TypeOK, NEW op, NEW u \in User, Change(op, u)
  PROVE  account' \in [User -> {"active", "disabled", "gone"}] /\ admin' \subseteq User
<1>1. account' \in [User -> {"active", "disabled", "gone"}]
  BY DEF Change, TypeOK
<1>2. admin' \subseteq User
  BY DEF Change, TypeOK
<1> QED BY <1>1, <1>2

\* A request ends only sessions that were opened.
LEMMA EndedWereOpen ==
  ASSUME NEW r \in Request
  PROVE  Ended(r) \subseteq {s \in Session : stored[s] # "none"}
BY DEF Ended, LiveOf

\* So does its commit.
LEMMA CommitTypes ==
  ASSUME TypeOK, JobsInv, NEW r \in Request, Commit(r)
  PROVE  TypeOK'
<1> DEFINE op == job[r].op
<1>1. job[r].user \in User
  BY DEF JobsInv, Commit, DropsAll, TakesAdmin, Managing
<1>2. account' \in [User -> {"active", "disabled", "gone"}] /\ admin' \subseteq User
  BY <1>1, ChangeTypes DEF Commit
<1>3. stored' \in [Session -> {"none", "live", "revoked", "deleted"}]
      /\ \A s \in Session : (stored'[s] = "none") <=> (stored[s] = "none")
  BY EndedWereOpen DEF Commit, TypeOK
<1>4. listed[r] \in SUBSET Session
  BY DEF TypeOK
<1>5. pc' \in [Request -> {"new", "begun", "guarded", "listed", "logout", "push", "done"}]
      /\ job' \in [Request -> [op : Op \cup {"none"}, user : User \cup {None},
                               session : Session \cup {None}]]
      /\ listed' \in [Request -> SUBSET Session]
  BY <1>4, PushTypes DEF Commit, Pushed
<1>6. overlooked' \subseteq Session
  BY EndedWereOpen DEF Commit, TypeOK
<1>7. raced' \in BOOLEAN
  BY DEF Commit, TypeOK
<1>8. UNCHANGED <<owner, idle, access, redis, sock, sweeps, lost, late, faults>>
  BY DEF Commit
<1> QED BY <1>2, <1>3, <1>5, <1>6, <1>7, <1>8 DEF TypeOK, access, redis, sweeps

\* So does every step of a request.
LEMMA ServeTypes ==
  ASSUME TypeOK, JobsInv, IdleInv, NEW r \in Request, Serve(r)
  PROVE  TypeOK'
<1> USE DEF rows, access, redis, sweeps, ghosts, Done
<1>0. /\ {} \in SUBSET Session
      /\ listed[r] \in SUBSET Session
      /\ \A u : LiveOf(u) \in SUBSET Session
  BY DEF TypeOK, LiveOf
<1>1. CASE FinishLogin(r)
  <2>1. PICK s \in Session :
          /\ stored[s] = "none"
          /\ owner' = [owner EXCEPT ![s] = job[r].user]
          /\ stored' = [stored EXCEPT ![s] = "live"]
          /\ tokens' = tokens \cup {s}
    BY <1>1 DEF FinishLogin
  <2>2. job[r].user \in User
    BY <1>1 DEF FinishLogin, JobsInv
  <2>3. /\ owner' \in [Session -> User \cup {None}]
        /\ stored' \in [Session -> {"none", "live", "revoked", "deleted"}]
        /\ \A t \in Session : (owner'[t] = None) <=> (stored'[t] = "none")
    BY <2>1, <2>2, SessionsAssumption DEF TypeOK
  <2>4. idle \cap tokens' = {}
    BY <2>1 DEF TypeOK, IdleInv
  <2>5. tokens' \subseteq Session
    BY <2>1 DEF TypeOK
  <2> QED BY <1>0, <1>1, <2>3, <2>4, <2>5, PushTypes DEF FinishLogin, TypeOK
<1>2. CASE FinishRefresh(r)
  <2>1. job[r].session \in Session
    BY <1>2 DEF FinishRefresh, JobsInv
  <2>2. /\ tokens' \subseteq Session /\ barred' \subseteq Session /\ idle' \subseteq Session
        /\ late' \subseteq Session /\ idle' \cap tokens' = {}
    BY <1>2, <2>1 DEF FinishRefresh, TypeOK
  <2> QED BY <1>0, <1>2, <2>2, PushTypes DEF FinishRefresh, TypeOK
<1>3. CASE FinishLogout(r)
  <2>1. job[r].session \in Session
    BY <1>3 DEF FinishLogout, JobsInv
  <2> QED BY <1>3, <2>1, EndTypes DEF FinishLogout
<1>4. CASE Load(r)
  <2>1. CASE Push(r, {})
    BY <1>0, <1>4, <2>1, PushTypes DEF Load, TypeOK
  <2>2. CASE ~Push(r, {})
    <3>1. /\ job' = job
          /\ pc' \in [Request -> {"new", "begun", "guarded", "listed", "logout", "push", "done"}]
          /\ listed' \in [Request -> SUBSET Session]
      BY <1>0, <1>4, <2>2 DEF Load, GoTo, TypeOK
    <3> QED BY <1>4, <3>1 DEF Load, TypeOK
  <2> QED BY <2>1, <2>2
<1>5. CASE List(r)
  <2>1. /\ pc' \in [Request -> {"new", "begun", "guarded", "listed", "logout", "push", "done"}]
        /\ listed' \in [Request -> SUBSET Session]
    BY <1>0, <1>5 DEF List, GoTo, TypeOK
  <2> QED BY <1>5, <2>1 DEF List, TypeOK
<1>6. CASE Commit(r)
  BY <1>6, CommitTypes
<1>7. CASE Abandon(r)
  <2>1. faults' \in 0..MaxFaults
    BY <1>7, FaultTypes DEF Abandon, TypeOK
  <2> QED BY <1>0, <1>7, <2>1, PushTypes DEF Abandon, TypeOK
<1>8. CASE PushOne(r)
  <2>1. PICK s \in listed[r] : Cut(s) /\ Push(r, listed[r] \ {s})
    BY <1>8 DEF PushOne
  <2>2. s \in Session /\ listed[r] \ {s} \in SUBSET Session
    BY <1>0, <2>1
  <2>3. cut' \subseteq Session /\ mail' \subseteq Session /\ faults' \in 0..MaxFaults
    BY <2>1, <2>2, CutTypes
  <2> QED BY <1>8, <2>1, <2>2, <2>3, PushTypes DEF PushOne, TypeOK
<1>9. CASE PushFails(r)
  <2>1. faults' \in 0..MaxFaults /\ lost' \subseteq Session
    BY <1>0, <1>9, FaultTypes DEF PushFails, TypeOK
  <2> QED BY <1>0, <1>9, <2>1, PushTypes DEF PushFails, TypeOK
<1> QED BY <1>1, <1>2, <1>3, <1>4, <1>5, <1>6, <1>7, <1>8, <1>9 DEF Serve

-----------------------------------------------------------------------------
(* The sweep, time and the sockets *)

\* So does the sweep.
LEMMA SweepTypes ==
  ASSUME TypeOK, Sweep
  PROVE  TypeOK'
<1> USE DEF rows, access, redis, sweeps, ghosts
<1>1. CASE SweepFind
  BY <1>1 DEF SweepFind, TypeOK
<1>2. CASE SweepRevoke
  <2>1. stored' \in [Session -> {"none", "live", "revoked", "deleted"}]
        /\ \A s \in Session : (stored'[s] = "none") <=> (stored[s] = "none")
    BY <1>2 DEF SweepRevoke, TypeOK
  <2> QED BY <1>2, <2>1 DEF SweepRevoke, TypeOK
<1>3. CASE SweepPush
  <2>1. PICK s \in batch : Cut(s) /\ Swept(s) /\ UNCHANGED lost
    BY <1>3 DEF SweepPush
  <2>2. s \in Session
    BY <2>1 DEF TypeOK
  <2>3. cut' \subseteq Session /\ mail' \subseteq Session /\ faults' \in 0..MaxFaults
    BY <2>1, <2>2, CutTypes
  <2> QED BY <2>1, <2>3 DEF Swept, TypeOK
<1>4. CASE SweepPushFails
  <2>1. PICK s \in batch : Swept(s) /\ lost' = lost \cup {s}
    BY <1>4 DEF SweepPushFails
  <2>2. faults' \in 0..MaxFaults /\ UNCHANGED redis
    BY <1>4, FaultTypes DEF SweepPushFails
  <2> QED BY <2>1, <2>2 DEF Swept, TypeOK
<1> QED BY <1>1, <1>2, <1>3, <1>4 DEF Sweep

\* So does the time that passes for a session.
LEMMA TickTypes ==
  ASSUME TypeOK, NEW s \in Session, Tick(s)
  PROVE  TypeOK'
<1> USE DEF rows, access, redis, sweeps, ghosts
<1>1. CASE TokenExpires(s)
  BY <1>1 DEF TokenExpires, TypeOK
<1>2. CASE KeyLapses(s)
  BY <1>2 DEF KeyLapses, TypeOK
<1>3. CASE GrowsIdle(s)
  BY <1>3 DEF GrowsIdle, MayBeIdle, TypeOK
<1> QED BY <1>1, <1>2, <1>3 DEF Tick

\* So does what the socket of a browser goes through.
LEMMA BrowseTypes ==
  ASSUME TypeOK, NEW s \in Session, Browse(s)
  PROVE  TypeOK'
<1> USE DEF rows, access, redis, sweeps, ghosts
<1>1. CASE Upgrade(s)
  BY <1>1, SocketTypes DEF Upgrade, TypeOK
<1>2. CASE Register(s)
  BY <1>2, SocketTypes DEF Register, TypeOK
<1>3. CASE Leave(s)
  BY <1>3, SocketTypes DEF Leave, TypeOK
<1>4. CASE Receive(s)
  BY <1>4 DEF Receive, TypeOK
<1>5. CASE MissMessage(s)
  <2>1. faults' \in 0..MaxFaults
    BY <1>5, FaultTypes DEF MissMessage
  <2> QED BY <1>5, <2>1 DEF MissMessage, TypeOK
<1>6. CASE Reverify(s)
  <2>1. faults' \in 0..MaxFaults /\ mail' \subseteq Session
    BY <1>6, FaultTypes DEF Reverify, TypeOK
  <2> QED BY <1>6, <2>1, SocketTypes DEF Reverify
<1> QED BY <1>1, <1>2, <1>3, <1>4, <1>5, <1>6 DEF Browse

\* So does every step.
LEMMA StepTypes ==
  ASSUME TypeOK, JobsInv, IdleInv, [Next]_vars
  PROVE  TypeOK'
<1>1. CASE UNCHANGED vars
  BY <1>1 DEF vars, TypeOK
<1> QED BY <1>1, ArriveTypes, ServeTypes, SweepTypes, TickTypes, BrowseTypes DEF Next

-----------------------------------------------------------------------------
(* What requests are for, and which sessions are idle *)

\* The end of a transaction clears the job of its request and no other.
LEMMA PushJobs ==
  ASSUME TypeOK, JobsInv, NEW r \in Request, NEW S, Push(r, S)
  PROVE  JobsInv'
<1>1. /\ pc' = [pc EXCEPT ![r] = IF S = {} THEN "done" ELSE "push"]
      /\ job' = [job EXCEPT ![r] = NoJob]
  BY DEF Push, GoTo
<1> SUFFICES ASSUME NEW q \in Request
             PROVE  /\ job'[q].op \in Managing \cup {"login"} => job'[q].user \in User
                    /\ job'[q].op \in {"refresh", "logout"} => job'[q].session \in Session
                    /\ pc'[q] \in {"guarded", "listed"} => job'[q].op \in Managing
                    /\ pc'[q] = "logout" => job'[q].op = "logout"
  BY DEF JobsInv
<1>2. CASE q = r
  BY <1>1, <1>2 DEF NoJob, TypeOK, Managing, TakesAdmin, DropsAll
<1>3. CASE q # r
  BY <1>1, <1>3 DEF TypeOK, JobsInv
<1> QED BY <1>2, <1>3

\* A request that arrives brings what its operation needs.
LEMMA BeginJobs ==
  ASSUME TypeOK, JobsInv, NEW r \in Request, NEW op \in Op, NEW u, NEW s,
         NEW dest \in {"begun", "logout"}, Begin(r, op, u, s), GoTo(r, dest),
         op \in Managing \cup {"login"} => u \in User,
         op \in {"refresh", "logout"} => s \in Session,
         dest = "logout" => op = "logout"
  PROVE  JobsInv'
<1>1. /\ pc' = [pc EXCEPT ![r] = dest]
      /\ job' = [job EXCEPT ![r] = [op |-> op, user |-> u, session |-> s]]
  BY DEF Begin, GoTo
<1> SUFFICES ASSUME NEW q \in Request
             PROVE  /\ job'[q].op \in Managing \cup {"login"} => job'[q].user \in User
                    /\ job'[q].op \in {"refresh", "logout"} => job'[q].session \in Session
                    /\ pc'[q] \in {"guarded", "listed"} => job'[q].op \in Managing
                    /\ pc'[q] = "logout" => job'[q].op = "logout"
  BY DEF JobsInv
<1>2. CASE q = r
  BY <1>1, <1>2 DEF TypeOK
<1>3. CASE q # r
  BY <1>1, <1>3 DEF TypeOK, JobsInv
<1> QED BY <1>2, <1>3

\* A step that keeps the jobs sends an administrator's request, at most, past the guard.
LEMMA GoToJobs ==
  ASSUME TypeOK, JobsInv, NEW r \in Request, NEW dest \in {"guarded", "listed"},
         GoTo(r, dest), UNCHANGED job, job[r].op \in Managing
  PROVE  JobsInv'
<1>1. pc' = [pc EXCEPT ![r] = dest] /\ job' = job
  BY DEF GoTo
<1> QED BY <1>1 DEF TypeOK, JobsInv

\* A request that arrives knows what it is for.
LEMMA ArriveJobs ==
  ASSUME TypeOK, JobsInv, NEW r \in Request, Arrive(r)
  PROVE  JobsInv'
<1> USE DEF Op, Managing, TakesAdmin, DropsAll
<1>1. ASSUME NEW u \in User, BeginLogin(r, u) PROVE JobsInv'
  BY <1>1, BeginJobs DEF BeginLogin
<1>2. ASSUME NEW u \in User, NEW op \in Managing, Authorise(r, op, u) PROVE JobsInv'
  BY <1>2, BeginJobs DEF Authorise
<1>3. ASSUME NEW s \in Session, BeginRefresh(r, s) PROVE JobsInv'
  BY <1>3, BeginJobs DEF BeginRefresh
<1>4. ASSUME NEW s \in Session, BeginLogout(r, s) PROVE JobsInv'
  BY <1>4, BeginJobs DEF BeginLogout
<1>5. ASSUME NEW s \in Session, RevokeSession(r, s) PROVE JobsInv'
  BY <1>5, PushJobs DEF RevokeSession, End
<1> QED BY <1>1, <1>2, <1>3, <1>4, <1>5 DEF Arrive

\* It knows so at each of its steps.
LEMMA ServeJobs ==
  ASSUME TypeOK, JobsInv, NEW r \in Request, Serve(r)
  PROVE  JobsInv'
<1>1. CASE FinishLogin(r) \/ FinishRefresh(r) \/ FinishLogout(r)
  BY <1>1, PushJobs DEF FinishLogin, FinishRefresh, FinishLogout, End, Done
<1>2. CASE Load(r)
  <2>1. CASE Push(r, {})
    BY <2>1, PushJobs
  <2>2. CASE ~Push(r, {})
    <3>1. PICK dest \in {"guarded", "listed"} : GoTo(r, dest)
      BY <1>2, <2>2 DEF Load, Done
    <3>2. UNCHANGED job /\ job[r].op \in Managing
      BY <1>2, <2>2 DEF Load, Done
    <3> QED BY <3>1, <3>2, GoToJobs
  <2> QED BY <2>1, <2>2
<1>3. CASE List(r)
  <2>1. job[r].op \in Managing
    BY <1>3 DEF List, Managing
  <2> QED BY <1>3, <2>1, GoToJobs DEF List
<1>4. CASE Commit(r) \/ Abandon(r) \/ PushOne(r) \/ PushFails(r)
  BY <1>4, PushJobs DEF Commit, Abandon, PushOne, PushFails, Done
<1> QED BY <1>1, <1>2, <1>3, <1>4 DEF Serve

\* The sweep, the passing of time and the sockets are no request's doing.
LEMMA RequestsRest ==
  ASSUME Sweep \/ (\E s \in Session : Tick(s) \/ Browse(s)) \/ UNCHANGED vars
  PROVE  UNCHANGED <<pc, job, listed, account, admin, raced>>
<1> USE DEF rows
<1>1. CASE Sweep
  BY <1>1 DEF Sweep, SweepFind, SweepRevoke, SweepPush, SweepPushFails, Swept
<1>2. ASSUME NEW s \in Session, Tick(s) PROVE UNCHANGED <<pc, job, listed, account, admin, raced>>
  BY <1>2 DEF Tick, TokenExpires, KeyLapses, GrowsIdle
<1>3. ASSUME NEW s \in Session, Browse(s) PROVE UNCHANGED <<pc, job, listed, account, admin, raced>>
  BY <1>3 DEF Browse, Upgrade, Register, Leave, Receive, MissMessage, Reverify, Socket
<1> QED BY <1>1, <1>2, <1>3 DEF vars

\* No other step touches it.
LEMMA StepJobs ==
  ASSUME TypeOK, JobsInv, [Next]_vars
  PROVE  JobsInv'
<1>1. CASE UNCHANGED <<pc, job>>
  BY <1>1 DEF JobsInv
<1> QED BY <1>1, ArriveJobs, ServeJobs, RequestsRest DEF Next

\* No step makes a session's row vanish, and only a session with a live row grows idle.
LEMMA StepIdle ==
  ASSUME TypeOK, JobsInv, IdleInv, [Next]_vars
  PROVE  IdleInv'
<1> USE DEF rows, Done
<1>1. CASE UNCHANGED <<stored, idle>>
  BY <1>1 DEF IdleInv
<1>2. ASSUME \A s \in Session : stored[s] # "none" => stored'[s] # "none", idle' \subseteq idle
      PROVE  IdleInv'
  BY <1>2 DEF IdleInv, TypeOK
<1>3. ASSUME NEW r \in Request, Arrive(r) PROVE IdleInv'
  <2>1. CASE \E s \in Session : RevokeSession(r, s)
    BY <1>2, <2>1 DEF RevokeSession, End, TypeOK
  <2> QED BY <1>1, <1>3, <2>1 DEF Arrive, BeginLogin, Authorise, BeginRefresh, BeginLogout
<1>4. ASSUME NEW r \in Request, Serve(r) PROVE IdleInv'
  <2>1. CASE FinishLogin(r)
    BY <1>2, <2>1 DEF FinishLogin, TypeOK
  <2>2. CASE FinishRefresh(r)
    BY <1>2, <2>2 DEF FinishRefresh
  <2>3. CASE FinishLogout(r)
    BY <1>2, <2>3 DEF FinishLogout, End, TypeOK
  <2>4. CASE Commit(r)
    BY <1>2, <2>4 DEF Commit, TypeOK
  <2>5. CASE Load(r) \/ List(r) \/ Abandon(r) \/ PushOne(r) \/ PushFails(r)
    BY <1>1, <2>5 DEF Load, List, Abandon, PushOne, PushFails
  <2> QED BY <1>4, <2>1, <2>2, <2>3, <2>4, <2>5 DEF Serve
<1>5. CASE Sweep
  <2>1. CASE SweepRevoke
    BY <1>2, <2>1 DEF SweepRevoke, TypeOK
  <2> QED BY <1>1, <1>5, <2>1 DEF Sweep, SweepFind, SweepPush, SweepPushFails, Swept
<1>6. ASSUME NEW s \in Session, Tick(s) PROVE IdleInv'
  <2>1. CASE GrowsIdle(s)
    BY <2>1 DEF GrowsIdle, MayBeIdle, IdleInv
  <2> QED BY <1>1, <1>6, <2>1 DEF Tick, TokenExpires, KeyLapses
<1>7. ASSUME NEW s \in Session, Browse(s) PROVE IdleInv'
  BY <1>1, <1>7 DEF Browse, Upgrade, Register, Leave, Receive, MissMessage, Reverify, Socket
<1>8. CASE UNCHANGED vars
  BY <1>1, <1>8 DEF vars
<1> QED BY <1>3, <1>4, <1>5, <1>6, <1>7, <1>8 DEF Next

-----------------------------------------------------------------------------
(* The tokens of an ended session are refused *)

Ghosts == lost \cup overlooked \cup late

\* EndedIsRefused, of one session.
Refused(t) ==
  stored[t] \in {"revoked", "deleted"} /\ Accepted(t) => Owed(t) \/ t \in Ghosts

\* EndedIsRefused is what Refused says of each session.
LEMMA RefusedAll == EndedIsRefused <=> \A t \in Session : Refused(t)
BY DEF EndedIsRefused, Refused, Ghosts

\* A request that has nothing to push owes nothing, whatever it does next.
LEMMA OwedStays ==
  ASSUME TypeOK, NEW r \in Request, NEW t \in Session, pc[r] # "push",
         \A q \in Request \ {r} : pc'[q] = pc[q] /\ listed'[q] = listed[q],
         UNCHANGED sweeps
  PROVE  Owed(t) => Owed(t)'
BY DEF Owed, sweeps

\* A step that neither ends a session nor gives it a token, and loses no push, keeps it
\* refused.
LEMMA RefusalStands ==
  ASSUME NEW t \in Session, Refused(t),
         stored'[t] \in {"revoked", "deleted"} => stored[t] \in {"revoked", "deleted"},
         Accepted(t)' => Accepted(t),
         Owed(t) => Owed(t)',
         Ghosts \subseteq Ghosts'
  PROVE  Refused(t)'
BY DEF Refused

\* A push touches the request that makes it, and no other.
LEMMA PushOthers ==
  ASSUME TypeOK, NEW r \in Request, NEW S, Push(r, S)
  PROVE  /\ \A q \in Request \ {r} : pc'[q] = pc[q] /\ listed'[q] = listed[q]
         /\ S # {} => pc'[r] = "push"
         /\ listed'[r] = S
BY DEF Push, GoTo, TypeOK

\* Ending a session leaves every ended one refused.
LEMMA EndRefused ==
  ASSUME TypeOK, NEW r \in Request, NEW s \in Session, NEW t \in Session, Refused(t),
         pc[r] # "push", End(r, s)
  PROVE  Refused(t)'
<1>1. PICK S \in {{s}, {}} : Push(r, S)
  BY DEF End
<1>2. \A q \in Request \ {r} : pc'[q] = pc[q] /\ listed'[q] = listed[q]
  BY <1>1, PushOthers
<1>3. UNCHANGED <<sweeps, access, redis, ghosts>>
  BY DEF End
<1>4. Owed(t) => Owed(t)'
  BY <1>2, <1>3, OwedStays
<1>5. Accepted(t)' => Accepted(t)
  BY <1>3 DEF Accepted, access, redis
<1>6. Ghosts' = Ghosts
  BY <1>3 DEF Ghosts, ghosts
<1>7. CASE t = s /\ stored[s] = "live"
  <2>1. Push(r, {s})
    BY <1>7 DEF End
  <2>2. pc'[r] = "push" /\ s \in listed'[r]
    BY <2>1, PushOthers
  <2>3. Owed(t)'
    BY <1>7, <2>2 DEF Owed
  <2> QED BY <2>3 DEF Refused
<1>8. CASE ~(t = s /\ stored[s] = "live")
  <2>1. stored'[t] = stored[t]
    BY <1>8 DEF End, TypeOK
  <2> QED BY <1>4, <1>5, <1>6, <2>1, RefusalStands
<1> QED BY <1>7, <1>8

\* A request that arrives keeps the ended sessions refused.
LEMMA ArriveRefused ==
  ASSUME TypeOK, NEW r \in Request, NEW t \in Session, Refused(t), Arrive(r)
  PROVE  Refused(t)'
<1>1. CASE \E s \in Session : RevokeSession(r, s)
  BY <1>1, EndRefused DEF RevokeSession, InTurn
<1>2. CASE ~\E s \in Session : RevokeSession(r, s)
  <2> USE DEF Arrive, BeginLogin, Authorise, BeginRefresh, BeginLogout
  <2>1. UNCHANGED <<stored, tokens, cut, sweeps, ghosts, listed>> /\ barred \subseteq barred'
    BY <1>2 DEF rows, access, redis
  <2>2. pc[r] # "push" /\ \E dest : pc' = [pc EXCEPT ![r] = dest]
    BY <1>2 DEF Begin, InTurn, GoTo
  <2>3. \A q \in Request \ {r} : pc'[q] = pc[q] /\ listed'[q] = listed[q]
    BY <2>1, <2>2 DEF TypeOK
  <2>4. Owed(t) => Owed(t)'
    BY <2>1, <2>2, <2>3, OwedStays
  <2>5. (Accepted(t)' => Accepted(t)) /\ Ghosts' = Ghosts
    BY <2>1 DEF Accepted, Ghosts, ghosts
  <2> QED BY <2>1, <2>4, <2>5, RefusalStands
<1> QED BY <1>1, <1>2

\* A request that drops sessions has listed those it ends, and pushes them; those it had
\* not seen are the overlooked ones.
LEMMA CommitRefused ==
  ASSUME TypeOK, NEW r \in Request, NEW t \in Session, Refused(t), Commit(r)
  PROVE  Refused(t)'
<1>1. Push(r, listed[r]) /\ pc[r] # "push"
  BY DEF Commit, Pushed
<1>2. /\ \A q \in Request \ {r} : pc'[q] = pc[q] /\ listed'[q] = listed[q]
      /\ listed[r] # {} => pc'[r] = "push"
      /\ listed'[r] = listed[r]
  BY <1>1, PushOthers
<1>3. UNCHANGED <<access, redis, sweeps, lost, late>>
  BY DEF Commit
<1>4. Owed(t) => Owed(t)'
  BY <1>1, <1>2, <1>3, OwedStays
<1>5. Accepted(t)' => Accepted(t)
  BY <1>3 DEF Accepted, access, redis
<1>6. Ghosts \subseteq Ghosts' /\ overlooked' \subseteq Ghosts'
  BY <1>3 DEF Commit, Ghosts
<1>7. CASE t \in Ended(r) /\ stored[t] = "live"
  <2>1. t \in LiveOf(job[r].user)
    BY <1>7 DEF Ended, LiveOf
  <2>2. CASE t \in listed[r]
    <3>1. Owed(t)'
      BY <1>2, <2>2 DEF Owed
    <3> QED BY <3>1 DEF Refused
  <2>3. CASE t \notin listed[r]
    <3>1. t \in overlooked'
      BY <1>7, <2>1, <2>3 DEF Commit
    <3> QED BY <1>6, <3>1 DEF Refused
  <2> QED BY <2>2, <2>3
<1>8. CASE t \in Ended(r) /\ stored[t] # "live"
  <2>1. stored[t] \in {"revoked", "deleted"}
    BY <1>8, EndedWereOpen DEF TypeOK
  <2> QED BY <1>4, <1>5, <1>6, <2>1, RefusalStands
<1>9. CASE t \notin Ended(r)
  <2>1. stored'[t] = stored[t]
    BY <1>9 DEF Commit
  <2> QED BY <1>4, <1>5, <1>6, <2>1, RefusalStands
<1> QED BY <1>7, <1>8, <1>9

\* So does every step of a request.
LEMMA ServeRefused ==
  ASSUME TypeOK, JobsInv, NEW r \in Request, NEW t \in Session, Refused(t), Serve(r)
  PROVE  Refused(t)'
<1> USE DEF rows, access, redis, ghosts, Done
<1>1. CASE FinishLogin(r)
  <2>1. /\ \A q \in Request \ {r} : pc'[q] = pc[q] /\ listed'[q] = listed[q]
        /\ pc[r] # "push"
    BY <1>1, PushOthers DEF FinishLogin
  <2>2. Owed(t) => Owed(t)'
    BY <1>1, <2>1, OwedStays DEF FinishLogin
  <2>3. PICK s \in Session : /\ stored' = [stored EXCEPT ![s] = "live"]
                             /\ tokens' = tokens \cup {s}
    BY <1>1 DEF FinishLogin
  <2>4. CASE t = s
    BY <2>3, <2>4 DEF Refused, TypeOK
  <2>5. CASE t # s
    <3>1. stored'[t] = stored[t] /\ (Accepted(t)' => Accepted(t)) /\ Ghosts' = Ghosts
      BY <1>1, <2>3, <2>5 DEF FinishLogin, TypeOK, Accepted, Ghosts
    <3> QED BY <2>2, <3>1, RefusalStands
  <2> QED BY <2>4, <2>5
<1>2. CASE FinishRefresh(r)
  <2> DEFINE s == job[r].session
  <2>1. /\ \A q \in Request \ {r} : pc'[q] = pc[q] /\ listed'[q] = listed[q]
        /\ pc[r] # "push"
    BY <1>2, PushOthers DEF FinishRefresh
  <2>2. Owed(t) => Owed(t)'
    BY <1>2, <2>1, OwedStays DEF FinishRefresh
  <2>3. stored' = stored /\ Ghosts \subseteq Ghosts'
    BY <1>2 DEF FinishRefresh, Ghosts
  <2>4. CASE t = s /\ Renews(s)
    <3>1. stored[t] # "live" => t \in Ghosts'
      BY <1>2, <2>4 DEF FinishRefresh, Ghosts
    <3> QED BY <2>3, <3>1 DEF Refused
  <2>5. CASE ~(t = s /\ Renews(s))
    <3>1. Accepted(t)' => Accepted(t)
      BY <1>2, <2>5 DEF FinishRefresh, Accepted
    <3> QED BY <2>2, <2>3, <3>1, RefusalStands
  <2> QED BY <2>4, <2>5
<1>3. CASE FinishLogout(r)
  <2>1. job[r].session \in Session
    BY <1>3 DEF FinishLogout, JobsInv
  <2> QED BY <1>3, <2>1, EndRefused DEF FinishLogout
<1>4. CASE Load(r) \/ List(r) \/ Abandon(r)
  <2>1. /\ \A q \in Request \ {r} : pc'[q] = pc[q] /\ listed'[q] = listed[q]
        /\ pc[r] # "push"
    BY <1>4 DEF Load, List, Abandon, Push, GoTo, TypeOK
  <2>2. UNCHANGED <<stored, tokens, barred, cut, sweeps, lost, overlooked, late>>
    BY <1>4 DEF Load, List, Abandon
  <2>3. Owed(t) => Owed(t)'
    BY <2>1, <2>2, OwedStays
  <2>4. (Accepted(t)' => Accepted(t)) /\ Ghosts' = Ghosts
    BY <2>2 DEF Accepted, Ghosts
  <2> QED BY <2>2, <2>3, <2>4, RefusalStands
<1>5. CASE Commit(r)
  BY <1>5, CommitRefused
<1>6. CASE PushOne(r)
  <2>1. PICK s \in listed[r] : Cut(s) /\ Push(r, listed[r] \ {s})
    BY <1>6 DEF PushOne
  <2>2. UNCHANGED <<stored, tokens, barred, sweeps, lost, overlooked, late>>
        /\ cut' = cut \cup {s}
    BY <1>6, <2>1 DEF PushOne, Cut
  <2>3. CASE t = s
    <3>1. ~Accepted(t)'
      BY <2>2, <2>3 DEF Accepted
    <3> QED BY <3>1 DEF Refused
  <2>4. CASE t # s
    <3>1. /\ \A q \in Request \ {r} : pc'[q] = pc[q] /\ listed'[q] = listed[q]
          /\ listed[r] \ {s} # {} => pc'[r] = "push"
          /\ listed'[r] = listed[r] \ {s}
      BY <2>1, PushOthers
    <3>2. Owed(t) => Owed(t)'
      BY <2>2, <2>4, <3>1 DEF Owed, sweeps
    <3>3. (Accepted(t)' => Accepted(t)) /\ Ghosts' = Ghosts
      BY <2>2 DEF Accepted, Ghosts
    <3> QED BY <2>2, <3>2, <3>3, RefusalStands
  <2> QED BY <2>3, <2>4
<1>7. CASE PushFails(r)
  <2>1. UNCHANGED <<stored, tokens, barred, cut, sweeps, overlooked, late>>
        /\ lost' = lost \cup listed[r]
    BY <1>7 DEF PushFails
  <2>2. CASE t \in listed[r]
    BY <2>1, <2>2 DEF Refused, Ghosts
  <2>3. CASE t \notin listed[r]
    <3>1. \A q \in Request \ {r} : pc'[q] = pc[q] /\ listed'[q] = listed[q]
      BY <1>7, PushOthers DEF PushFails
    <3>2. Owed(t) => Owed(t)'
      BY <2>1, <2>3, <3>1 DEF Owed, sweeps
    <3>3. (Accepted(t)' => Accepted(t)) /\ Ghosts \subseteq Ghosts'
      BY <2>1 DEF Accepted, Ghosts
    <3> QED BY <2>1, <3>2, <3>3, RefusalStands
  <2> QED BY <2>2, <2>3
<1> QED BY <1>1, <1>2, <1>3, <1>4, <1>5, <1>6, <1>7 DEF Serve

\* So does the sweep.
LEMMA SweepRefused ==
  ASSUME TypeOK, NEW t \in Session, Refused(t), Sweep
  PROVE  Refused(t)'
<1> USE DEF rows, access, redis, sweeps, ghosts
<1>1. CASE SweepFind
  <2>1. Owed(t) => Owed(t)'
    BY <1>1 DEF SweepFind, Owed
  <2> QED BY <1>1, <2>1, RefusalStands DEF SweepFind, Accepted, Ghosts
<1>2. CASE SweepRevoke
  <2>1. /\ UNCHANGED <<access, redis, pc, listed, batch, ghosts>>
        /\ sweep = "revoke" /\ sweep' = "push"
    BY <1>2 DEF SweepRevoke
  <2>2. CASE t \in batch
    BY <2>1, <2>2 DEF Owed, Refused
  <2>3. CASE t \notin batch
    <3>1. stored'[t] = stored[t]
      BY <1>2, <2>3 DEF SweepRevoke
    <3>2. Owed(t) => Owed(t)'
      BY <2>1 DEF Owed
    <3> QED BY <2>1, <3>1, <3>2, RefusalStands DEF Accepted, Ghosts
  <2> QED BY <2>2, <2>3
<1>3. CASE SweepPush
  <2>1. PICK s \in batch : Cut(s) /\ Swept(s) /\ UNCHANGED lost
    BY <1>3 DEF SweepPush
  <2>2. UNCHANGED <<stored, access, pc, listed, ghosts>> /\ cut' = cut \cup {s}
    BY <2>1 DEF Swept, Cut
  <2>3. CASE t = s
    <3>1. ~Accepted(t)'
      BY <2>2, <2>3 DEF Accepted
    <3> QED BY <3>1 DEF Refused
  <2>4. CASE t # s
    <3>1. Owed(t) => Owed(t)'
      BY <2>1, <2>2, <2>4 DEF Swept, Owed
    <3>2. (Accepted(t)' => Accepted(t)) /\ Ghosts' = Ghosts
      BY <2>2 DEF Accepted, Ghosts
    <3> QED BY <2>2, <3>1, <3>2, RefusalStands
  <2> QED BY <2>3, <2>4
<1>4. CASE SweepPushFails
  <2>1. PICK s \in batch : Swept(s) /\ lost' = lost \cup {s}
    BY <1>4 DEF SweepPushFails
  <2>2. UNCHANGED <<stored, access, redis, pc, listed, overlooked, late>>
    BY <1>4, <2>1 DEF SweepPushFails, Swept
  <2>3. CASE t = s
    BY <2>1, <2>3 DEF Refused, Ghosts
  <2>4. CASE t # s
    <3>1. Owed(t) => Owed(t)'
      BY <2>1, <2>2, <2>4 DEF Swept, Owed
    <3>2. (Accepted(t)' => Accepted(t)) /\ Ghosts \subseteq Ghosts'
      BY <2>1, <2>2 DEF Accepted, Ghosts
    <3> QED BY <2>2, <3>1, <3>2, RefusalStands
  <2> QED BY <2>3, <2>4
<1> QED BY <1>1, <1>2, <1>3, <1>4 DEF Sweep

\* The key of a session outlives every token of it but the late ones.
LEMMA TickRefused ==
  ASSUME TypeOK, NEW t \in Session, Refused(t), NEW s \in Session, Tick(s)
  PROVE  Refused(t)'
<1> USE DEF rows, access, redis, sweeps, ghosts
<1>0. UNCHANGED <<stored, pc, listed, sweeps>>
  BY DEF Tick, TokenExpires, KeyLapses, GrowsIdle
<1>1. Owed(t) <=> Owed(t)'
  BY <1>0 DEF Owed
<1>2. CASE TokenExpires(s)
  <2>1. (Accepted(t)' => Accepted(t)) /\ (t # s => (t \in Ghosts => t \in Ghosts'))
    BY <1>2 DEF TokenExpires, Accepted, Ghosts
  <2>2. t = s => ~Accepted(t)'
    BY <1>2 DEF TokenExpires, Accepted
  <2> QED BY <1>0, <1>1, <2>1, <2>2 DEF Refused
<1>3. CASE KeyLapses(s)
  <2>1. Ghosts' = Ghosts /\ cut' = cut \ {s} /\ UNCHANGED access
    BY <1>3 DEF KeyLapses, Ghosts
  <2>2. CASE t = s
    <3>1. t \notin tokens' \/ t \in Ghosts'
      BY <1>3, <2>1, <2>2 DEF KeyLapses, KeyMayLapse, Ghosts
    <3> QED BY <3>1 DEF Refused, Accepted
  <2>3. CASE t # s
    <3>1. Accepted(t)' => Accepted(t)
      BY <2>1, <2>3 DEF Accepted
    <3> QED BY <1>0, <1>1, <2>1, <3>1, RefusalStands
  <2> QED BY <2>2, <2>3
<1>4. CASE GrowsIdle(s)
  BY <1>0, <1>1, <1>4, RefusalStands DEF GrowsIdle, Accepted, Ghosts
<1> QED BY <1>2, <1>3, <1>4 DEF Tick

\* So does every step.
LEMMA StepRefused ==
  ASSUME TypeOK, JobsInv, EndedIsRefused, [Next]_vars
  PROVE  EndedIsRefused'
<1> SUFFICES ASSUME NEW t \in Session PROVE Refused(t)'
  BY RefusedAll DEF EndedIsRefused, Refused, Ghosts
<1>0. Refused(t)
  BY RefusedAll
<1>1. CASE UNCHANGED <<stored, access, cut, pc, listed, sweeps, ghosts>>
  BY <1>0, <1>1 DEF access, sweeps, ghosts, Refused, Accepted, Owed, Ghosts
<1>2. ASSUME NEW s \in Session, Browse(s)
      PROVE  UNCHANGED <<stored, access, cut, pc, listed, sweeps, ghosts>>
  BY <1>2 DEF Browse, Upgrade, Register, Leave, Receive, MissMessage, Reverify, Socket, rows
<1>3. CASE UNCHANGED vars
  BY <1>1, <1>3 DEF vars, access, sweeps, ghosts
<1> QED BY <1>0, <1>1, <1>2, <1>3, ArriveRefused, ServeRefused, SweepRefused, TickRefused DEF Next

-----------------------------------------------------------------------------
(* An administrator remains *)

\* Past the guard somebody else remains.
LEMMA GuardLeavesOne ==
  ASSUME NEW u, Guard(u), ActiveAdmins # {}
  PROVE  ActiveAdmins \ {u} # {}
<1>1. CASE u \notin ActiveAdmins
  BY <1>1
<1>2. CASE u \in ActiveAdmins
  <2>1. Cardinality(ActiveAdmins) > 1
    BY <1>2 DEF Guard
  <2>2. SUFFICES ASSUME ActiveAdmins \ {u} = {} PROVE FALSE
    OBVIOUS
  <2>3. ActiveAdmins = {u}
    BY <1>2, <2>2
  <2>4. Cardinality({u}) = 1
    BY FS_Singleton
  <2> QED BY <2>1, <2>3, <2>4
<1> QED BY <1>1, <1>2

\* A step that takes no administrator away and sends no request past the guard.
LEMMA GuardStands ==
  ASSUME GuardInv, ActiveAdmins \subseteq ActiveAdmins', raced' = raced,
         \A q \in Request : PastGuard(q)' => PastGuard(q) /\ job'[q] = job[q]
  PROVE  GuardInv'
BY DEF GuardInv

\* A committed change to the account of u takes no other administrator away, and an
\* operation that does not take administrators away takes nobody.
LEMMA ChangeKeepsOthers ==
  ASSUME TypeOK, NEW op, NEW u \in User, Change(op, u)
  PROVE  /\ ActiveAdmins \ {u} \subseteq ActiveAdmins'
         /\ op \notin TakesAdmin => ActiveAdmins \subseteq ActiveAdmins'
<1>1. \A v \in User \ {u} : account'[v] = account[v] /\ (v \in admin' <=> v \in admin)
  BY DEF Change, TypeOK
<1>2. op \notin TakesAdmin =>
        \A v \in User : /\ account[v] = "active" => account'[v] = "active"
                        /\ v \in admin => v \in admin'
  BY DEF Change, TakesAdmin, TypeOK
<1>3. admin \subseteq User
  BY DEF TypeOK
<1> QED BY <1>1, <1>2, <1>3 DEF ActiveAdmins

\* Requests whose work is another than q's leave q where it is.
LEMMA OneRequestMoves ==
  ASSUME TypeOK, NEW r \in Request, Arrive(r) \/ Serve(r)
  PROVE  \A q \in Request \ {r} : pc'[q] = pc[q] /\ job'[q] = job[q]
<1>1. \/ UNCHANGED job
      \/ \E j : job' = [job EXCEPT ![r] = j]
  BY DEF Arrive, Serve, BeginLogin, Authorise, BeginRefresh, BeginLogout, RevokeSession, End, Begin,
         FinishLogin, FinishRefresh, FinishLogout, Load, List, Commit, Abandon, PushOne, PushFails,
         Done, Push
<1>2. \E dest : pc' = [pc EXCEPT ![r] = dest]
  BY DEF Arrive, Serve, BeginLogin, Authorise, BeginRefresh, BeginLogout, RevokeSession, End, Begin,
         FinishLogin, FinishRefresh, FinishLogout, Load, List, Commit, Abandon, PushOne, PushFails,
         Done, Push, GoTo
<1> QED BY <1>1, <1>2 DEF TypeOK

\* A commit keeps what the guard promises.
LEMMA CommitGuards ==
  ASSUME TypeOK, JobsInv, GuardInv, NEW r \in Request, Commit(r)
  PROVE  GuardInv'
<1>1. job[r].user \in User /\ Change(job[r].op, job[r].user)
  BY DEF JobsInv, Commit, DropsAll, TakesAdmin, Managing
<1>2. /\ ActiveAdmins \ {job[r].user} \subseteq ActiveAdmins'
      /\ job[r].op \notin TakesAdmin => ActiveAdmins \subseteq ActiveAdmins'
  BY <1>1, ChangeKeepsOthers
<1>3. \A q \in Request \ {r} : pc'[q] = pc[q] /\ job'[q] = job[q]
  BY OneRequestMoves DEF Serve
<1>4. ~PastGuard(r)'
  BY DEF Commit, Push, NoJob, PastGuard, TakesAdmin, TypeOK
<1>5. CASE job[r].op \notin TakesAdmin
  <2>1. raced' = raced
    BY <1>5 DEF Commit, TypeOK
  <2>2. \A q \in Request : PastGuard(q)' => PastGuard(q) /\ job'[q] = job[q]
    BY <1>3, <1>4 DEF PastGuard
  <2> QED BY <1>2, <1>5, <2>1, <2>2, GuardStands
<1>6. CASE job[r].op \in TakesAdmin
  <2> SUFFICES ASSUME ~raced'
               PROVE  /\ (ActiveAdmins # {})'
                      /\ \A q \in Request : ~PastGuard(q)'
    BY DEF GuardInv
  <2>1. ~raced /\ \A q \in Request \ {r} : ~PastGuard(q)
    BY <1>6 DEF Commit, PastGuard
  <2>2. PastGuard(r)
    BY <1>6 DEF Commit, PastGuard
  <2>3. ActiveAdmins \ {job[r].user} # {}
    BY <2>1, <2>2 DEF GuardInv
  <2>4. \A q \in Request : ~PastGuard(q)'
    BY <1>3, <1>4, <2>1 DEF PastGuard
  <2> QED BY <1>2, <2>3, <2>4
<1> QED BY <1>5, <1>6

\* So does every step.
LEMMA StepGuards ==
  ASSUME TypeOK, JobsInv, GuardInv, [Next]_vars
  PROVE  GuardInv'
<1> USE DEF rows
<1>1. ASSUME NEW r \in Request, Arrive(r) PROVE GuardInv'
  <2>1. UNCHANGED <<account, admin, raced>>
    BY <1>1 DEF Arrive, BeginLogin, Authorise, BeginRefresh, BeginLogout, RevokeSession, End
  <2>2. pc'[r] \notin {"guarded", "listed"}
    BY <1>1 DEF Arrive, BeginLogin, Authorise, BeginRefresh, BeginLogout, RevokeSession, End,
                Push, GoTo, TypeOK
  <2>3. \A q \in Request : PastGuard(q)' => PastGuard(q) /\ job'[q] = job[q]
    BY <1>1, <2>2, OneRequestMoves DEF PastGuard
  <2> QED BY <2>1, <2>3, GuardStands DEF ActiveAdmins
<1>2. ASSUME NEW r \in Request, Serve(r) PROVE GuardInv'
  <2>1. CASE Commit(r)
    BY <2>1, CommitGuards
  <2>2. CASE Load(r)
    <3>1. UNCHANGED <<account, admin, raced>>
      BY <2>2 DEF Load
    <3>2. ActiveAdmins' = ActiveAdmins
      BY <3>1 DEF ActiveAdmins
    <3>3. \A q \in Request \ {r} : pc'[q] = pc[q] /\ job'[q] = job[q]
      BY <1>2, OneRequestMoves
    <3>4. CASE Push(r, {})
      <4>1. ~PastGuard(r)'
        BY <3>4 DEF Push, NoJob, PastGuard, TakesAdmin, TypeOK
      <4>2. \A q \in Request : PastGuard(q)' => PastGuard(q) /\ job'[q] = job[q]
        BY <3>3, <4>1 DEF PastGuard
      <4> QED BY <3>1, <3>2, <4>2, GuardStands
    <3>5. CASE ~Push(r, {})
      <4>1. job' = job /\ (job[r].op \in TakesAdmin => Guard(job[r].user))
        BY <2>2, <3>5 DEF Load, Done
      <4>2. ~raced /\ job[r].op \in TakesAdmin => ActiveAdmins \ {job[r].user} # {}
        BY <4>1, GuardLeavesOne DEF GuardInv
      <4> QED BY <3>1, <3>2, <3>3, <4>1, <4>2 DEF GuardInv, PastGuard
    <3> QED BY <3>4, <3>5
  <2>3. CASE List(r)
    <3>1. UNCHANGED <<account, admin, raced, job>> /\ pc[r] = "guarded"
      BY <2>3 DEF List
    <3>2. \A q \in Request : PastGuard(q)' => PastGuard(q) /\ job'[q] = job[q]
      BY <1>2, <3>1, OneRequestMoves DEF PastGuard
    <3> QED BY <3>1, <3>2, GuardStands DEF ActiveAdmins
  <2>4. CASE FinishLogin(r) \/ FinishRefresh(r) \/ FinishLogout(r) \/ Abandon(r) \/ PushOne(r)
             \/ PushFails(r)
    <3>1. UNCHANGED <<account, admin, raced>>
      BY <2>4 DEF FinishLogin, FinishRefresh, FinishLogout, End, Abandon, PushOne, PushFails
    <3>2. pc'[r] \notin {"guarded", "listed"}
      <4> DEFINE dest == pc'[r]
      <4>1. pc \in [Request -> {"new", "begun", "guarded", "listed", "logout", "push", "done"}]
        BY DEF TypeOK
      <4>2. \E S : Push(r, S)
        BY <2>4 DEF FinishLogin, FinishRefresh, FinishLogout, End, Abandon, PushOne, PushFails,
                    Done
      <4>3. dest \in {"done", "push"}
        BY <4>1, <4>2 DEF Push, GoTo
      <4> QED BY <4>3
    <3>3. \A q \in Request : PastGuard(q)' => PastGuard(q) /\ job'[q] = job[q]
      BY <1>2, <3>2, OneRequestMoves DEF PastGuard
    <3> QED BY <3>1, <3>3, GuardStands DEF ActiveAdmins
  <2> QED BY <1>2, <2>1, <2>2, <2>3, <2>4 DEF Serve
<1>3. CASE UNCHANGED <<pc, job, account, admin, raced>>
  BY <1>3 DEF GuardInv, PastGuard, ActiveAdmins
<1> QED BY <1>1, <1>2, <1>3, RequestsRest DEF Next

-----------------------------------------------------------------------------
(* The theorems *)

\* In every reachable state values have their types, requests know what they are for,
\* ended sessions are refused and what the last-administrator guard found stands.
THEOREM InvariantHolds == Spec => []IInv
<1>1. Init => IInv
  <2> SUFFICES ASSUME Init PROVE IInv
    OBVIOUS
  <2>1. TypeOK
    <3>1. job \in [Request -> [op : Op \cup {"none"}, user : User \cup {None},
                               session : Session \cup {None}]]
      BY DEF Init, NoJob
    <3>2. faults \in 0..MaxFaults
      BY SessionsAssumption DEF Init
    <3> QED BY <3>1, <3>2, SessionsAssumption DEF Init, TypeOK
  <2>2. JobsInv
    BY DEF Init, JobsInv, NoJob, Managing, TakesAdmin, DropsAll
  <2>3. IdleInv /\ EndedIsRefused
    BY DEF Init, IdleInv, EndedIsRefused
  <2>4. ActiveAdmins = Admin
    BY SessionsAssumption DEF Init, ActiveAdmins
  <2>5. GuardInv
    BY <2>4, SessionsAssumption DEF Init, GuardInv, PastGuard
  <2> QED BY <2>1, <2>2, <2>3, <2>5 DEF IInv
<1>2. IInv /\ [Next]_vars => IInv'
  BY StepTypes, StepJobs, StepIdle, StepRefused, StepGuards DEF IInv
<1> QED BY <1>1, <1>2, PTL DEF Spec

\* Every value stays in its type: a session that was opened always has its user's row, and
\* no session is idle while its newest access token lives.
THEOREM TypeCorrect == Spec => []TypeOK
<1>1. IInv => TypeOK
  BY DEF IInv
<1> QED BY <1>1, InvariantHolds, PTL

\* The auth service refuses the access tokens of a session that was ended in PostgreSQL,
\* from the push of its revocation on, but for what the ghosts name.
THEOREM RevocationHolds == Spec => []EndedIsRefused
<1>1. IInv => EndedIsRefused
  BY DEF IInv
<1> QED BY <1>1, InvariantHolds, PTL

\* Disabling, demoting and deleting accounts leaves an active administrator, unless two
\* such requests overlap between the guard and the commit.
THEOREM GuardHolds == Spec => []AdminRemains
<1>1. IInv => AdminRemains
  BY DEF IInv, GuardInv, AdminRemains
<1> QED BY <1>1, InvariantHolds, PTL

-----------------------------------------------------------------------------
(* The rotation of refresh tokens: the table *)

\* A row stays a row when it is revoked or when its grace period ends.
LEMMA RowType ==
  ASSUME NEW row \in Rotation!Token
  PROVE  /\ [row EXCEPT !.revoked = TRUE] \in Rotation!Token
         /\ [row EXCEPT !.rotated = "longAgo"] \in Rotation!Token
<1>1. [row EXCEPT !.revoked = TRUE] \in Rotation!Token
  BY DEF Rotation!Token
<1>2. [row EXCEPT !.rotated = "longAgo"] \in Rotation!Token
  BY DEF Rotation!Token, Rotation!Rotated
<1> QED BY <1>1, <1>2

\* An update of one row.
LEMMA RowUpdated ==
  ASSUME NEW s \in Seq(Rotation!Token), NEW t \in DOMAIN s, NEW v \in Rotation!Token
  PROVE  /\ [s EXCEPT ![t] = v] \in Seq(Rotation!Token)
         /\ Len([s EXCEPT ![t] = v]) = Len(s)
OBVIOUS

\* An insert.
LEMMA RowInserted ==
  ASSUME NEW s \in Seq(Rotation!Token), NEW v \in Rotation!Token
  PROVE  /\ Append(s, v) \in Seq(Rotation!Token)
         /\ Len(Append(s, v)) = Len(s) + 1
         /\ Append(s, v)[Len(s) + 1] = v
         /\ \A t \in DOMAIN s : Append(s, v)[t] = s[t]
OBVIOUS

\* An update of many rows.
LEMMA RowsRewritten ==
  ASSUME NEW s \in Seq(Rotation!Token), NEW f \in [DOMAIN s -> Rotation!Token]
  PROVE  f \in Seq(Rotation!Token) /\ Len(f) = Len(s) /\ DOMAIN f = DOMAIN s
<1>1. DOMAIN s = 1..Len(s) /\ Len(s) \in Nat
  OBVIOUS
<1> QED BY <1>1

\* A request waits until no other request has the row: then it is the only one.
LEMMA LockType ==
  ASSUME Rotation!TypeOK, NEW r \in Caller, NEW row \in Rotation!Row, Rotation!Lock(r, row),
         step[r] # "idle"
  PROVE  /\ held' \in [Caller -> SUBSET Rotation!Row]
         /\ \A p, q \in Caller : p # q => held'[p] \cap held'[q] = {}
         /\ \A q \in Caller : held'[q] # {} => step[q] # "idle"
BY DEF Rotation!TypeOK, Rotation!Lock, Rotation!Free

\* A request that is over holds nothing and remembers nothing.
LEMMA LeaveType ==
  ASSUME Rotation!RotationAssumption, Rotation!TypeOK, NEW r \in Caller, Rotation!Leave(r)
  PROVE  /\ step' = [step EXCEPT ![r] = "idle"]
         /\ req' \in [Caller -> Rotation!Memory]
         /\ held' \in [Caller -> SUBSET Rotation!Row]
         /\ \A p, q \in Caller : p # q => held'[p] \cap held'[q] = {}
         /\ \A q \in Caller : step'[q] = "idle" => held'[q] = {}
<1>1. Rotation!Blank \in Rotation!Memory
  BY DEF Rotation!RotationAssumption, Rotation!Blank, Rotation!Memory
<1> QED BY <1>1 DEF Rotation!TypeOK, Rotation!Leave, Rotation!GoTo

-----------------------------------------------------------------------------
(* The rotation: the inductive invariant *)

\* What a request under way remembers: tokens that exist, the walk moving on to a younger
\* one with every hop; until the session ends, that it was live, and a token to move on to.
Remembers(r) ==
  /\ req[r].presented \in Rotation!Known
  /\ req[r].stored \in Rotation!Known
  /\ req[r].stored >= req[r].presented + req[r].hops
  /\ ~revoked => req[r].began
  /\ step[r] = "hop" /\ req[r].next # Rotation!NoJti =>
       req[r].next \in Rotation!Known /\ req[r].next > req[r].stored
  /\ step[r] = "hop" /\ ~revoked => req[r].next # Rotation!NoJti

\* replaced_by names a younger token; in a live session every revoked token has one.
Linked(t) ==
  /\ family[t].replaced # Rotation!NoJti =>
       family[t].replaced \in Rotation!Known /\ family[t].replaced > t
  /\ family[t].revoked /\ ~revoked => family[t].replaced # Rotation!NoJti

\* What GrantedWhileLive and NoFalseReuse say of one request.
SoundRequest(r) ==
  /\ step[r] # "idle" => Remembers(r)
  /\ step[r] \in {"touch", "user", "rotate", "commit"} => req[r].began
  /\ step[r] \in Rotation!Killing /\ ~req[r].late =>
       revoked \/ Len(family) > req[r].presented + MaxHops

RotationInv ==
  /\ Rotation!TypeOK
  /\ \A r \in Caller : SoundRequest(r)
  /\ \A t \in Rotation!Known : Linked(t)
  /\ Rotation!RevokedIsPushed

-----------------------------------------------------------------------------

\* Every step keeps the types.
LEMMA RotationTypes ==
  ASSUME Rotation!RotationAssumption, Rotation!TypeOK, \A r \in Caller : SoundRequest(r),
         [Rotation!Next]_(Rotation!vars)
  PROVE  Rotation!TypeOK'
<1> USE DEF Rotation!RotationAssumption
<1>0. /\ Len(family) \in Nat /\ Rotation!Known = 1..Len(family)
      /\ Rotation!Known \subseteq Rotation!Jti
      /\ \A t \in Rotation!Known : family[t] \in Rotation!Token
  BY DEF Rotation!TypeOK, Rotation!Known, Rotation!Jti, Rotation!NoJti
<1>1. ASSUME NEW r \in Caller, NEW t \in Rotation!Known, NEW label \in {"session", "hop", "kill"},
             Rotation!Present(r, t, label)
      PROVE  Rotation!TypeOK'
  <2> DEFINE m == [presented |-> t, stored |-> t, next |-> family[t].replaced, hops |-> 0,
                   late |-> label = "kill", began |-> ~revoked, upto |-> 0]
  <2>1. m \in Rotation!Memory
    <3>1. t \in Rotation!Jti /\ 0 \in 0..MaxHops /\ 0 \in Nat
      BY <1>0
    <3>2. (label = "kill") \in BOOLEAN /\ (~revoked) \in BOOLEAN
      OBVIOUS
    <3>3. family[t].replaced \in Rotation!Jti \cup {Rotation!NoJti}
      BY <1>0 DEF Rotation!Token
    <3> QED BY <3>1, <3>2, <3>3, Zenon DEF Rotation!Memory
  <2>2. req' = [req EXCEPT ![r] = m]
    BY <1>1 DEF Rotation!Present
  <2>3. req' \in [Caller -> Rotation!Memory]
    BY <2>1, <2>2 DEF Rotation!TypeOK
  <2> QED BY <1>1, <2>3 DEF Rotation!Present, Rotation!GoTo, Rotation!TypeOK, Rotation!Killing
<1>2. ASSUME NEW r \in Caller,
             Rotation!PresentLive(r) \/ Rotation!PresentReplay(r) \/ Rotation!PresentStale(r)
      PROVE  Rotation!TypeOK'
  BY <1>1, <1>2 DEF Rotation!PresentLive, Rotation!PresentReplay, Rotation!PresentStale
<1>3. ASSUME NEW r \in Caller, Rotation!Hop(r) PROVE Rotation!TypeOK'
  <2>1. req[r].next \in Rotation!Known
    BY <1>3 DEF Rotation!Hop, Rotation!Hops, SoundRequest, Remembers
  <2>2. req[r].next \in Rotation!Jti
          /\ family[req[r].next].replaced \in Rotation!Jti \cup {Rotation!NoJti}
    BY <1>0, <2>1 DEF Rotation!Token
  <2> DEFINE m == [req[r] EXCEPT !.stored = req[r].next, !.next = family[req[r].next].replaced,
                                 !.hops = @ + 1]
  <2>3. req' \in [Caller -> Rotation!Memory]
    <3>1. req[r] \in Rotation!Memory /\ req[r].hops + 1 \in 0..MaxHops
      BY <1>3 DEF Rotation!Hop, Rotation!Hops, Rotation!TypeOK, Rotation!Memory
    <3>2. m \in Rotation!Memory
      BY <2>2, <3>1 DEF Rotation!Memory
    <3>3. req' = [req EXCEPT ![r] = m]
      BY <1>3 DEF Rotation!Hop, Rotation!TypeOK
    <3> QED BY <3>2, <3>3 DEF Rotation!TypeOK
  <2> QED BY <1>3, <2>3 DEF Rotation!Hop, Rotation!GoTo, Rotation!TypeOK
<1>4. ASSUME NEW r \in Caller, Rotation!DetectReuse(r) PROVE Rotation!TypeOK'
  BY <1>4 DEF Rotation!DetectReuse, Rotation!GoTo, Rotation!TypeOK, Rotation!Killing
<1>5. ASSUME NEW r \in Caller, Rotation!CheckSession(r) \/ Rotation!CheckUser(r)
      PROVE  Rotation!TypeOK'
  <2>1. CASE Rotation!Leave(r)
    BY <1>5, <2>1, LeaveType DEF Rotation!CheckSession, Rotation!CheckUser, Rotation!TypeOK
  <2>2. CASE ~Rotation!Leave(r)
    BY <1>5, <2>2 DEF Rotation!CheckSession, Rotation!CheckUser, Rotation!GoTo, Rotation!TypeOK
  <2> QED BY <2>1, <2>2
<1>6. ASSUME NEW r \in Caller, Rotation!Touch(r) PROVE Rotation!TypeOK'
  <2>1. CASE revoked
    BY <1>6, <2>1 DEF Rotation!Touch, Rotation!GoTo, Rotation!TypeOK
  <2>2. CASE ~revoked
    BY <1>6, <2>2, LockType DEF Rotation!Touch, Rotation!GoTo, Rotation!TypeOK, Rotation!Row
  <2> QED BY <2>1, <2>2
<1>7. ASSUME NEW r \in Caller, Rotation!MarkRotated(r) PROVE Rotation!TypeOK'
  <2>1. req[r].stored \in Rotation!Row
    BY <1>7, <1>0 DEF Rotation!MarkRotated, SoundRequest, Remembers, Rotation!Row
  <2> QED BY <1>7, <2>1, LockType DEF Rotation!MarkRotated, Rotation!GoTo, Rotation!TypeOK
<1>8. ASSUME NEW r \in Caller, Rotation!Commit(r) PROVE Rotation!TypeOK'
  <2>1. req[r].stored \in Rotation!Known
    BY <1>8 DEF Rotation!Commit, SoundRequest, Remembers
  <2>2. Rotation!RotatedAway(req[r].stored) \in Rotation!Token /\ Rotation!Issued \in Rotation!Token
    BY <1>0 DEF Rotation!RotatedAway, Rotation!Issued, Rotation!Token, Rotation!Rotated,
                Rotation!Jti, Rotation!NoJti
  <2>3. family' \in Seq(Rotation!Token)
    BY <1>8, <2>1, <2>2, RowUpdated, RowInserted DEF Rotation!Commit, Rotation!TypeOK,
         Rotation!Known
  <2> QED BY <1>8, <2>3, LeaveType DEF Rotation!Commit, Rotation!TypeOK
<1>9. ASSUME NEW r \in Caller, Rotation!BeginKill(r) PROVE Rotation!TypeOK'
  <2>1. req' \in [Caller -> Rotation!Memory]
    <3> DEFINE m == [req[r] EXCEPT !.upto = Len(family)]
    <3>1. m \in Rotation!Memory
      BY <1>0 DEF Rotation!TypeOK, Rotation!Memory
    <3>2. req' = [req EXCEPT ![r] = m]
      BY <1>9 DEF Rotation!BeginKill, Rotation!TypeOK
    <3> QED BY <3>1, <3>2 DEF Rotation!TypeOK
  <2> QED BY <1>9, <2>1 DEF Rotation!BeginKill, Rotation!GoTo, Rotation!TypeOK, Rotation!Killing
<1>10. ASSUME NEW r \in Caller, Rotation!LockToken(r) PROVE Rotation!TypeOK'
  <2>1. PICK t \in Rotation!Unlocked(r) : Rotation!Lock(r, t)
    BY <1>10 DEF Rotation!LockToken
  <2>2. t \in Rotation!Row
    BY <2>1 DEF Rotation!Unlocked, Rotation!Row, Rotation!Jti, Rotation!NoJti, Rotation!TypeOK,
                Rotation!Memory
  <2> QED BY <1>10, <2>1, <2>2, LockType DEF Rotation!LockToken, Rotation!TypeOK
<1>11. ASSUME NEW r \in Caller, Rotation!KillFamily(r) PROVE Rotation!TypeOK'
  <2>1. family' \in [Rotation!Known -> Rotation!Token]
    <3>1. \A t \in Rotation!Known : family[t] \in Rotation!Token
            /\ [family[t] EXCEPT !.revoked = TRUE] \in Rotation!Token
      BY <1>0, RowType
    <3> QED BY <1>11, <3>1 DEF Rotation!KillFamily
  <2>2. family' \in Seq(Rotation!Token)
    BY <2>1, RowsRewritten DEF Rotation!TypeOK, Rotation!Known
  <2> QED BY <1>11, <2>2, LeaveType DEF Rotation!KillFamily, Rotation!Revoke, Rotation!TypeOK
<1>12. ASSUME NEW r \in Caller, Rotation!AbortVictim(r) \/ Rotation!Crash(r) PROVE Rotation!TypeOK'
  <2>1. rfaults' \in 0..RotationFaults
    BY <1>12 DEF Rotation!AbortVictim, Rotation!Crash, Rotation!Fault, Rotation!TypeOK
  <2> QED BY <1>12, <2>1, LeaveType DEF Rotation!AbortVictim, Rotation!Crash, Rotation!Rollback,
                                        Rotation!TypeOK
<1>13. CASE Rotation!EndSession \/ Rotation!Disable \/ Rotation!Enable \/ Rotation!Push
              \/ Rotation!PushFails
  <2>1. /\ revoked' \in BOOLEAN /\ active' \in BOOLEAN
        /\ push' \in {"none", "due", "done", "lost"}
    BY <1>13 DEF Rotation!EndSession, Rotation!Disable, Rotation!Enable, Rotation!Push,
                 Rotation!PushFails, Rotation!TypeOK
  <2>2. UNCHANGED <<family, step, req, held, unpunished>> /\ rfaults' \in 0..RotationFaults
    BY <1>13 DEF Rotation!EndSession, Rotation!Disable, Rotation!Enable, Rotation!Push,
                 Rotation!PushFails, Rotation!Fault, Rotation!TypeOK
  <2> QED BY <2>1, <2>2 DEF Rotation!TypeOK
<1>14. ASSUME NEW t \in Rotation!Known, Rotation!GraceEnds(t) PROVE Rotation!TypeOK'
  <2>1. [family[t] EXCEPT !.rotated = "longAgo"] \in Rotation!Token
    BY <1>0, RowType
  <2>2. family' \in Seq(Rotation!Token)
    BY <1>14, <2>1, RowUpdated DEF Rotation!GraceEnds, Rotation!TypeOK, Rotation!Known
  <2> QED BY <1>14, <2>2 DEF Rotation!GraceEnds, Rotation!TypeOK
<1>15. CASE UNCHANGED Rotation!vars
  BY <1>15 DEF Rotation!vars, Rotation!TypeOK
<1> QED BY <1>2, <1>3, <1>4, <1>5, <1>6, <1>7, <1>8, <1>9, <1>10, <1>11, <1>12, <1>13, <1>14,
           <1>15 DEF Rotation!Next, Rotation!Refresh

-----------------------------------------------------------------------------

\* A step that leaves the tokens and the session alone can only disturb what holds of the
\* request that takes it.
LEMMA OwnStep ==
  ASSUME RotationInv, Rotation!TypeOK', NEW r \in Caller, UNCHANGED <<family, revoked, push>>,
         SoundRequest(r)',
         \A q \in Caller \ {r} : step'[q] = step[q] /\ req'[q] = req[q]
  PROVE  RotationInv'
<1>1. \A q \in Caller \ {r} : SoundRequest(q)'
  BY DEF RotationInv, SoundRequest, Remembers, Rotation!Killing, Rotation!Known
<1>2. \A t \in Rotation!Known' : Linked(t)'
  BY DEF RotationInv, Linked, Rotation!Known
<1>3. Rotation!RevokedIsPushed'
  BY DEF RotationInv, Rotation!RevokedIsPushed
<1> QED BY <1>1, <1>2, <1>3 DEF RotationInv

\* A request that is over is sound.
LEMMA LeaveSound == ASSUME Rotation!TypeOK, NEW r \in Caller, Rotation!Leave(r)
                    PROVE  SoundRequest(r)'
BY DEF Rotation!TypeOK, Rotation!Leave, Rotation!GoTo, SoundRequest, Rotation!Killing

\* Tokens are only added and the session stays revoked: what holds of a request that waits
\* meanwhile goes on holding.
LEMMA OthersStaySound ==
  ASSUME Rotation!RotationAssumption, RotationInv, NEW q \in Caller, step'[q] = step[q],
         req'[q] = req[q],
         revoked => revoked', Rotation!Known \subseteq Rotation!Known', Len(family') >= Len(family),
         Len(family') \in Nat
  PROVE  SoundRequest(q)'
<1>1. SoundRequest(q) /\ Len(family) \in Nat /\ MaxHops \in Nat
  BY DEF Rotation!RotationAssumption, RotationInv, Rotation!TypeOK
<1>2. step[q] # "idle" => Remembers(q)'
  BY <1>1 DEF SoundRequest, Remembers
<1>3. step[q] # "idle" => req[q].presented \in Nat
  <2>1. req[q] \in Rotation!Memory
    BY DEF RotationInv, Rotation!TypeOK
  <2> QED BY <2>1 DEF Rotation!Memory, Rotation!Jti, Rotation!NoJti
<1>4. step[q] \in Rotation!Killing => step[q] # "idle"
  BY DEF Rotation!Killing
<1>5. step[q] \in Rotation!Killing /\ ~req[q].late
          => revoked' \/ Len(family') > req[q].presented + MaxHops
  BY <1>1, <1>3, <1>4 DEF SoundRequest
<1> QED BY <1>1, <1>2, <1>5 DEF SoundRequest

-----------------------------------------------------------------------------

\* The invariant is inductive.
LEMMA RotationSteps ==
  ASSUME Rotation!RotationAssumption, RotationInv, [Rotation!Next]_(Rotation!vars)
  PROVE  RotationInv'
<1>0. Rotation!TypeOK'
  BY RotationTypes DEF RotationInv
<1>a. /\ Len(family) \in Nat /\ Rotation!Known = 1..Len(family) /\ Rotation!Known \subseteq Nat
      /\ \A t \in Rotation!Known : family[t] \in Rotation!Token
      /\ \A r \in Caller : req[r] \in Rotation!Memory
      /\ step \in [Caller -> {"idle", "hop", "session", "touch", "user", "rotate", "commit"}
                                \cup Rotation!Killing]
      /\ MaxHops \in Nat
  BY DEF Rotation!RotationAssumption, RotationInv, Rotation!TypeOK, Rotation!Known
<1>b. \A r \in Caller : SoundRequest(r)
  BY DEF RotationInv
<1>1. ASSUME NEW r \in Caller, NEW t \in Rotation!Known, NEW label \in {"session", "hop", "kill"},
             Rotation!Present(r, t, label), label = "hop" => family[t].revoked
      PROVE  RotationInv'
  <2>1. /\ step' = [step EXCEPT ![r] = label]
        /\ req' = [req EXCEPT ![r] = [presented |-> t, stored |-> t,
                                      next |-> family[t].replaced, hops |-> 0,
                                      late |-> label = "kill", began |-> ~revoked, upto |-> 0]]
        /\ UNCHANGED <<family, revoked, push>>
    BY <1>1 DEF Rotation!Present, Rotation!GoTo
  <2>2. /\ step'[r] = label /\ req'[r].presented = t /\ req'[r].stored = t /\ req'[r].hops = 0
        /\ req'[r].late = (label = "kill") /\ req'[r].began = ~revoked
        /\ req'[r].next = family[t].replaced
    BY <2>1 DEF RotationInv, Rotation!TypeOK
  <2>3. Remembers(r)'
    <3>1. t >= t + 0
      BY <1>a
    <3>2. req'[r].began <=> ~revoked
      BY <2>2
    <3>3. step'[r] = "hop" => family[t].revoked
      BY <1>1, <2>2
    <3>4. Linked(t)
      BY DEF RotationInv
    <3> QED BY <1>1, <2>1, <2>2, <3>1, <3>2, <3>3, <3>4 DEF Remembers, Linked, Rotation!Known
  <2>4. SoundRequest(r)'
    BY <2>2, <2>3 DEF SoundRequest, Rotation!Killing
  <2>5. \A q \in Caller \ {r} : step'[q] = step[q] /\ req'[q] = req[q]
    BY <2>1 DEF RotationInv, Rotation!TypeOK
  <2> QED BY <1>0, <2>1, <2>4, <2>5, OwnStep
<1>2. ASSUME NEW r \in Caller,
             Rotation!PresentLive(r) \/ Rotation!PresentReplay(r) \/ Rotation!PresentStale(r)
      PROVE  RotationInv'
  BY <1>1, <1>2 DEF Rotation!PresentLive, Rotation!PresentReplay, Rotation!PresentStale
<1>3. ASSUME NEW r \in Caller, Rotation!Hop(r) PROVE RotationInv'
  <2> DEFINE s == req[r].next
  <2>1. /\ step[r] = "hop" /\ req[r].hops < MaxHops /\ s # Rotation!NoJti
        /\ req' = [req EXCEPT ![r].stored = s, ![r].next = family[s].replaced, ![r].hops = @ + 1]
        /\ step' = IF family[s].revoked THEN step ELSE [step EXCEPT ![r] = "session"]
        /\ UNCHANGED <<family, revoked, push>>
    BY <1>3 DEF Rotation!Hop, Rotation!Hops, Rotation!GoTo
  <2>2. Remembers(r)
    BY <1>b, <2>1 DEF SoundRequest
  <2>3. s \in Rotation!Known /\ s > req[r].stored
    BY <2>1, <2>2 DEF Remembers
  <2>4. /\ req'[r].presented = req[r].presented /\ req'[r].stored = s
        /\ req'[r].next = family[s].replaced
        /\ req'[r].hops = req[r].hops + 1 /\ req'[r].began = req[r].began
    BY <1>a, <2>1 DEF RotationInv, Rotation!TypeOK, Rotation!Memory
  <2>5. req'[r].stored >= req'[r].presented + req'[r].hops
    <3>1. req[r].presented \in Nat /\ req[r].stored \in Nat /\ req[r].hops \in Nat
      BY <1>a, <2>2 DEF Remembers, Rotation!Memory
    <3>2. s \in Nat
      BY <1>a, <2>3
    <3> QED BY <2>2, <2>3, <2>4, <3>1, <3>2 DEF Remembers
  <2>6. step'[r] \in {"hop", "session"} /\ (step'[r] = "hop" => family[s].revoked)
    BY <1>a, <2>1
  <2>7. Remembers(r)'
    <3>1. Linked(s)
      BY <2>3 DEF RotationInv
    <3> QED BY <2>1, <2>2, <2>3, <2>4, <2>5, <2>6, <3>1 DEF Remembers, Linked, Rotation!Known
  <2>8. SoundRequest(r)'
    BY <2>6, <2>7 DEF SoundRequest, Rotation!Killing
  <2>9. \A q \in Caller \ {r} : step'[q] = step[q] /\ req'[q] = req[q]
    BY <1>a, <2>1 DEF RotationInv, Rotation!TypeOK
  <2> QED BY <1>0, <2>1, <2>8, <2>9, OwnStep
<1>4. ASSUME NEW r \in Caller, Rotation!DetectReuse(r) PROVE RotationInv'
  <2>1. /\ step[r] = "hop" /\ step' = [step EXCEPT ![r] = "kill"]
        /\ UNCHANGED <<req, family, revoked, push>>
        /\ req[r].hops < MaxHops => req[r].next = Rotation!NoJti
    BY <1>4 DEF Rotation!DetectReuse, Rotation!GoTo, Rotation!Hops
  <2>2. Remembers(r)
    BY <1>b, <2>1 DEF SoundRequest
  <2>3. ~revoked => req[r].next \in Rotation!Known /\ req[r].next > req[r].stored
          /\ req[r].next # Rotation!NoJti
    BY <2>1, <2>2 DEF Remembers
  <2>4. ~revoked => Len(family) > req[r].presented + MaxHops
    <3>1. req[r].presented \in Nat /\ req[r].stored \in Nat /\ req[r].hops \in 0..MaxHops
      BY <1>a, <2>2 DEF Remembers, Rotation!Memory
    <3>2. ~revoked => req[r].hops = MaxHops
      BY <1>a, <2>1, <2>3, <3>1
    <3>3. ~revoked => req[r].next <= Len(family) /\ req[r].next \in Nat
      BY <1>a, <2>3
    <3> QED BY <1>a, <2>2, <2>3, <3>1, <3>2, <3>3 DEF Remembers
  <2>5. step'[r] = "kill" /\ \A q \in Caller \ {r} : step'[q] = step[q] /\ req'[q] = req[q]
    BY <1>a, <2>1
  <2>6. SoundRequest(r)'
    BY <2>1, <2>2, <2>4, <2>5 DEF SoundRequest, Remembers, Rotation!Killing, Rotation!Known
  <2> QED BY <1>0, <2>1, <2>5, <2>6, OwnStep
<1>5. ASSUME NEW r \in Caller, Rotation!Leave(r), UNCHANGED <<family, revoked, push>>
      PROVE  RotationInv'
  <2>1. SoundRequest(r)'
    BY <1>5, LeaveSound DEF RotationInv
  <2>2. \A q \in Caller \ {r} : step'[q] = step[q] /\ req'[q] = req[q]
    BY <1>5 DEF Rotation!Leave, Rotation!GoTo, RotationInv, Rotation!TypeOK
  <2> QED BY <1>0, <1>5, <2>1, <2>2, OwnStep
<1>6. ASSUME NEW r \in Caller, NEW label \in {"touch", "user", "rotate", "commit"},
             Rotation!GoTo(r, label), UNCHANGED <<family, revoked, push, req>>,
             step[r] # "idle", req[r].began
      PROVE  RotationInv'
  <2>1. step'[r] = label /\ \A q \in Caller \ {r} : step'[q] = step[q] /\ req'[q] = req[q]
    BY <1>6, <1>a DEF Rotation!GoTo
  <2>2. SoundRequest(r)'
    BY <1>6, <1>b, <2>1 DEF SoundRequest, Remembers, Rotation!Killing, Rotation!Known
  <2> QED BY <1>0, <1>6, <2>1, <2>2, OwnStep
<1>7. ASSUME NEW r \in Caller, Rotation!CheckSession(r) PROVE RotationInv'
  <2>1. CASE Rotation!Leave(r)
    BY <1>5, <1>7, <2>1 DEF Rotation!CheckSession
  <2>2. CASE ~revoked /\ Rotation!GoTo(r, "touch") /\ UNCHANGED req
    BY <1>6, <1>7, <1>b, <2>2 DEF Rotation!CheckSession, SoundRequest, Remembers
  <2> QED BY <1>7, <2>1, <2>2 DEF Rotation!CheckSession, Rotation!Refused
<1>8. ASSUME NEW r \in Caller,
             Rotation!Touch(r) \/ Rotation!CheckUser(r) \/ Rotation!MarkRotated(r)
      PROVE  RotationInv'
  <2>1. CASE Rotation!Leave(r) /\ Rotation!CheckUser(r)
    BY <1>5, <2>1 DEF Rotation!CheckUser
  <2>2. step[r] \in {"touch", "user", "rotate"} /\ req[r].began
    BY <1>8, <1>b DEF Rotation!Touch, Rotation!CheckUser, Rotation!MarkRotated, SoundRequest
  <2>3. CASE /\ Rotation!GoTo(r, "user") \/ Rotation!GoTo(r, "rotate") \/ Rotation!GoTo(r, "commit")
             /\ UNCHANGED <<family, revoked, push, req>>
    BY <1>6, <2>2, <2>3
  <2> QED BY <1>8, <2>1, <2>3 DEF Rotation!Touch, Rotation!CheckUser, Rotation!MarkRotated
<1>9. ASSUME NEW r \in Caller, Rotation!Commit(r) PROVE RotationInv'
  <2>1. PICK s \in Rotation!Known : s = req[r].stored
    BY <1>9, <1>b DEF Rotation!Commit, SoundRequest, Remembers
  <2> DEFINE marked == [family EXCEPT ![s] = Rotation!RotatedAway(s)]
  <2>2. /\ step[r] = "commit" /\ Rotation!Leave(r) /\ UNCHANGED <<revoked, push>>
        /\ family' = Append(marked, Rotation!Issued)
    BY <1>9, <2>1 DEF Rotation!Commit
  <2>3. Rotation!RotatedAway(s) \in Rotation!Token /\ Rotation!Issued \in Rotation!Token
    BY <1>a DEF Rotation!RotatedAway, Rotation!Issued, Rotation!Token, Rotation!Rotated,
                Rotation!Jti, Rotation!NoJti
  <2>4. marked \in Seq(Rotation!Token) /\ Len(marked) = Len(family)
          /\ DOMAIN marked = Rotation!Known
    BY <2>1, <2>3, RowUpdated DEF RotationInv, Rotation!TypeOK, Rotation!Known
  <2>5. /\ Len(family') = Len(family) + 1 /\ Rotation!Known' = Rotation!Known \cup {Len(family) + 1}
        /\ family'[Len(family) + 1] = Rotation!Issued
        /\ \A t \in Rotation!Known : family'[t] = marked[t]
    <3>1. family' \in Seq(Rotation!Token) /\ Len(family') = Len(family) + 1
      BY <2>2, <2>3, <2>4, RowInserted
    <3>2. Rotation!Known' = 1..Len(family')
      BY <3>1 DEF Rotation!Known
    <3> QED BY <1>a, <2>2, <2>3, <2>4, <3>1, <3>2, RowInserted
  <2>6. /\ family'[s] = Rotation!RotatedAway(s)
        /\ \A t \in Rotation!Known \ {s} : family'[t] = family[t]
    BY <2>1, <2>5 DEF RotationInv, Rotation!TypeOK, Rotation!Known
  <2>7. \A t \in Rotation!Known' : Linked(t)'
    <3>1. Linked(s)'
      <4>1. family'[s].replaced = Len(family) + 1
        BY <2>6 DEF Rotation!RotatedAway
      <4>2. Len(family) + 1 > s /\ Len(family) + 1 # Rotation!NoJti
        BY <1>a, <2>1 DEF Rotation!NoJti
      <4> QED BY <2>5, <4>1, <4>2 DEF Linked
    <3>2. ASSUME NEW t \in Rotation!Known \ {s} PROVE Linked(t)'
      BY <2>2, <2>5, <2>6, <3>2 DEF Linked, RotationInv
    <3>3. ASSUME NEW t \in {Len(family) + 1} PROVE Linked(t)'
      BY <2>5, <3>3 DEF Linked, Rotation!Issued
    <3> QED BY <2>5, <3>1, <3>2, <3>3
  <2>9. ASSUME NEW q \in Caller \ {r} PROVE SoundRequest(q)'
    <3>1. step'[q] = step[q] /\ req'[q] = req[q]
      BY <2>2 DEF Rotation!Leave, Rotation!GoTo, RotationInv, Rotation!TypeOK
    <3> QED BY <1>a, <2>2, <2>5, <3>1, OthersStaySound
  <2>10. SoundRequest(r)'
    BY <2>2, LeaveSound DEF RotationInv
  <2>11. Rotation!RevokedIsPushed'
    BY <2>2 DEF RotationInv, Rotation!RevokedIsPushed
  <2> QED BY <1>0, <2>7, <2>9, <2>10, <2>11 DEF RotationInv
<1>10. ASSUME NEW r \in Caller, Rotation!BeginKill(r) \/ Rotation!LockToken(r) PROVE RotationInv'
  <2>1. /\ step[r] \in Rotation!Killing /\ step'[r] = "lock" /\ UNCHANGED <<family, revoked, push>>
        /\ \A q \in Caller \ {r} : step'[q] = step[q] /\ req'[q] = req[q]
    BY <1>10, <1>a DEF Rotation!BeginKill, Rotation!LockToken, Rotation!GoTo, Rotation!Killing,
                       RotationInv, Rotation!TypeOK
  <2>2. /\ req'[r].presented = req[r].presented /\ req'[r].stored = req[r].stored
        /\ req'[r].hops = req[r].hops /\ req'[r].late = req[r].late
        /\ req'[r].began = req[r].began
    BY <1>10, <1>a DEF Rotation!BeginKill, Rotation!LockToken, RotationInv, Rotation!TypeOK,
                       Rotation!Memory
  <2>3. SoundRequest(r)'
    BY <1>b, <2>1, <2>2 DEF SoundRequest, Remembers, Rotation!Killing, Rotation!Known
  <2> QED BY <1>0, <2>1, <2>3, OwnStep
<1>11. ASSUME NEW r \in Caller, Rotation!KillFamily(r) PROVE RotationInv'
  <2>1. /\ revoked' = TRUE /\ push' = (IF revoked THEN push ELSE "due") /\ Rotation!Leave(r)
        /\ family' = [t \in Rotation!Known |-> IF t <= req[r].upto
                                               THEN [family[t] EXCEPT !.revoked = TRUE]
                                                 ELSE family[t]]
    BY <1>11 DEF Rotation!KillFamily, Rotation!Revoke
  <2>2. \A t \in Rotation!Known : family'[t].replaced = family[t].replaced
                                  /\ (family[t].revoked => family'[t].revoked)
    BY <1>a, <2>1 DEF Rotation!Token
  <2>3. Rotation!Known' = Rotation!Known
    BY <2>1 DEF Rotation!Known
  <2>4. Len(family') = Len(family)
    BY <1>0, <1>a, <2>3 DEF Rotation!TypeOK, Rotation!Known
  <2>5. \A t \in Rotation!Known' : Linked(t)'
    BY <2>1, <2>2, <2>3 DEF RotationInv, Linked
  <2>6. ASSUME NEW q \in Caller \ {r} PROVE SoundRequest(q)'
    <3>1. step'[q] = step[q] /\ req'[q] = req[q]
      BY <2>1 DEF Rotation!Leave, Rotation!GoTo, RotationInv, Rotation!TypeOK
    <3> QED BY <1>a, <2>1, <2>2, <2>3, <2>4, <3>1, OthersStaySound
  <2>7. SoundRequest(r)'
    BY <2>1, LeaveSound DEF RotationInv
  <2>8. Rotation!RevokedIsPushed'
    BY <2>1 DEF RotationInv, Rotation!RevokedIsPushed
  <2> QED BY <1>0, <2>5, <2>6, <2>7, <2>8 DEF RotationInv
<1>12. ASSUME NEW r \in Caller, Rotation!AbortVictim(r) \/ Rotation!Crash(r) PROVE RotationInv'
  BY <1>5, <1>12 DEF Rotation!AbortVictim, Rotation!Crash, Rotation!Rollback
<1>13. CASE Rotation!EndSession \/ Rotation!Disable \/ Rotation!Enable \/ Rotation!Push
              \/ Rotation!PushFails
  <2>1. UNCHANGED <<family, step, req>> /\ (revoked => revoked')
    BY <1>13 DEF Rotation!EndSession, Rotation!Disable, Rotation!Enable, Rotation!Push,
                 Rotation!PushFails
  <2>2. Rotation!RevokedIsPushed'
    BY <1>13 DEF Rotation!EndSession, Rotation!Disable, Rotation!Enable, Rotation!Push,
                 Rotation!PushFails, RotationInv, Rotation!RevokedIsPushed
  <2>3. \A t \in Rotation!Known' : Linked(t)'
    BY <2>1 DEF RotationInv, Linked, Rotation!Known
  <2>4. \A q \in Caller : SoundRequest(q)'
    BY <1>a, <2>1, OthersStaySound DEF Rotation!Known
  <2> QED BY <1>0, <2>2, <2>3, <2>4 DEF RotationInv
<1>14. ASSUME NEW g \in Rotation!Known, Rotation!GraceEnds(g) PROVE RotationInv'
  <2>1. /\ family' = [family EXCEPT ![g].rotated = "longAgo"]
        /\ UNCHANGED <<revoked, push, step, req>>
    BY <1>14 DEF Rotation!GraceEnds
  <2>2. Rotation!Known' = Rotation!Known
    BY <2>1 DEF Rotation!Known
  <2>3. Len(family') = Len(family)
    BY <1>0, <1>a, <2>2 DEF Rotation!TypeOK, Rotation!Known
  <2>4. \A t \in Rotation!Known : family'[t].replaced = family[t].replaced
                                  /\ family'[t].revoked = family[t].revoked
    BY <1>a, <2>1 DEF Rotation!Token
  <2>5. \A t \in Rotation!Known' : Linked(t)'
    BY <2>1, <2>2, <2>4 DEF RotationInv, Linked
  <2>6. \A q \in Caller : SoundRequest(q)'
    BY <1>a, <2>1, <2>2, <2>3, <2>4, OthersStaySound
  <2>7. Rotation!RevokedIsPushed'
    BY <2>1 DEF RotationInv, Rotation!RevokedIsPushed
  <2> QED BY <1>0, <2>5, <2>6, <2>7 DEF RotationInv
<1>15. CASE UNCHANGED Rotation!vars
  BY <1>0, <1>15 DEF Rotation!vars, RotationInv, SoundRequest, Remembers, Linked, Rotation!Known,
                     Rotation!RevokedIsPushed
<1> QED BY <1>2, <1>3, <1>4, <1>7, <1>8, <1>9, <1>10, <1>11, <1>12, <1>13, <1>14, <1>15
        DEF Rotation!Next, Rotation!Refresh

\* Every reachable state satisfies it.
THEOREM RotationInvariance ==
  ASSUME Rotation!RotationAssumption
  PROVE  Rotation!Spec => []RotationInv
<1>1. Rotation!Init => RotationInv
  <2> SUFFICES ASSUME Rotation!Init PROVE RotationInv
    OBVIOUS
  <2>1. Rotation!Issued \in Rotation!Token /\ Rotation!Blank \in Rotation!Memory
    BY DEF Rotation!RotationAssumption, Rotation!Issued, Rotation!Token, Rotation!Rotated,
           Rotation!Blank, Rotation!Memory
  <2>2. Rotation!Known = {1} /\ family[1] = Rotation!Issued /\ family \in Seq(Rotation!Token)
    BY <2>1 DEF Rotation!Init, Rotation!Known
  <2>3. Rotation!TypeOK
    <3>1. family \in Seq(Rotation!Token) /\ req \in [Caller -> Rotation!Memory]
            /\ rfaults \in 0..RotationFaults
      BY <2>1, <2>2 DEF Rotation!RotationAssumption, Rotation!Init
    <3>2. /\ step \in [Caller -> {"idle", "hop", "session", "touch", "user", "rotate", "commit"}
                                  \cup Rotation!Killing]
          /\ held \in [Caller -> SUBSET Rotation!Row]
          /\ \A q, r \in Caller : q # r => held[q] \cap held[r] = {}
          /\ \A r \in Caller : step[r] = "idle" => held[r] = {}
      BY DEF Rotation!Init
    <3> QED BY <3>1, <3>2 DEF Rotation!Init, Rotation!TypeOK
  <2>4. \A t \in Rotation!Known : Linked(t)
    BY <2>2 DEF Linked, Rotation!Issued
  <2>5. \A r \in Caller : SoundRequest(r)
    BY DEF Rotation!Init, SoundRequest, Rotation!Killing
  <2>6. Rotation!RevokedIsPushed
    BY DEF Rotation!Init, Rotation!RevokedIsPushed
  <2> QED BY <2>3, <2>4, <2>5, <2>6 DEF RotationInv
<1>2. RotationInv /\ [Rotation!Next]_(Rotation!vars) => RotationInv'
  BY RotationSteps
<1> QED BY <1>1, <1>2, PTL DEF Rotation!Spec

\* The tokens of the run are those of RefreshRotation, and the accounts rest.
LEMMA RotationRuns == RotationSpec => []RotationInv
<1>1. [Rotation!Next /\ UNCHANGED vars]_<<vars, rotation>> => [Rotation!Next]_(Rotation!vars)
  BY DEF rotation, Rotation!vars
<1>2. Rotation!Spec => []RotationInv
  BY FamilyAssumption, RotationInvariance
<1> QED BY <1>1, <1>2, PTL DEF RotationSpec, Start, Rotation!Spec

-----------------------------------------------------------------------------

\* Every value stays in its type; transactions never share a row lock, and a request that
\* is over holds none.
THEOREM RotationIsTyped == RotationSpec => []Rotation!TypeOK
<1>1. RotationInv => Rotation!TypeOK
  BY DEF RotationInv
<1> QED BY <1>1, RotationRuns, PTL

\* No request that began after the end of the session gets a new token (refresh).
THEOREM OnlyLiveSessionsGrant == RotationSpec => []GrantedWhileLive
<1>1. RotationInv => GrantedWhileLive
  BY DEF RotationInv, SoundRequest, GrantedWhileLive, Rotation!GrantedWhileLive
<1> QED BY <1>1, RotationRuns, PTL

\* In a live session, replaced_by leads from every token to a usable one (mark_rotated).
THEOREM ChainsLeadToLiveTokens == RotationSpec => []ChainReachesLiveToken
<1>1. RotationInv => ChainReachesLiveToken
  BY DEF RotationInv, Linked, ChainReachesLiveToken, Rotation!ChainReachesLiveToken
<1> QED BY <1>1, RotationRuns, PTL

\* A replay in time is taken for a reuse only after more than MaxHops rotations
\* (_resolve_presented_refresh).
THEOREM ReplaysAreForgiven == RotationSpec => []NoFalseReuse
<1>1. RotationInv => NoFalseReuse
  BY DEF RotationInv, SoundRequest, NoFalseReuse, Rotation!NoFalseReuse
<1> QED BY <1>1, RotationRuns, PTL

\* Exactly one caller owes the push of a revocation (SessionRepository.revoke).
THEOREM RevocationsArePushed == RotationSpec => []RevokedIsPushed
<1>1. RotationInv => RevokedIsPushed
  BY DEF RotationInv, RevokedIsPushed
<1> QED BY <1>1, RotationRuns, PTL
=============================================================================
