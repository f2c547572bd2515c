---------------------------- MODULE LoginThrottle ----------------------------
(***************************************************************************)
(* The count of failed logins that the auth service keeps in Redis for an  *)
(* address and a username, while several logins for them are under way. A  *)
(* login looks at the count, tries the password, then counts its failure   *)
(* or clears the count; each is a call of its own, the scripts are atomic. *)
(***************************************************************************)
EXTENDS Integers, FiniteSetsExt

CONSTANTS
  Login,     \* logins that may be under way together
  Limit,     \* login_max_attempts
  Window,    \* login_window_seconds
  Block,     \* login_block_seconds
  MaxTime    \* bound on the clock

LoginThrottleAssumption ==
  /\ IsFiniteSet(Login)
  /\ {Limit, Window, Block} \subseteq Nat \ {0} /\ MaxTime \in Nat

VARIABLES
  now,
  count,     \* the value of login:fail:*, 0 if there is no key
  until,     \* when it expires
  at,        \* where each login is
  owes,      \* whether the failure it has counted is to be reported as a lock
  early,     \* history: logins that were past the check when the lock fell
  last,      \* history: when a failure was last counted
  tripped,   \* history: a failure of this key was told that the lock fell with it
  odd        \* history: two were, or a lock was lifted by a login that came after it

vars == <<now, count, until, at, owes, early, last, tripped, odd>>

TypeOK ==
  /\ now \in 0 .. MaxTime
  /\ count \in Nat /\ until \in Nat
  /\ at \in [Login -> {"idle", "checked", "failed", "known"}]
  /\ owes \in [Login -> BOOLEAN]
  /\ early \subseteq Login
  /\ last \in 0 .. MaxTime
  /\ {tripped, odd} \subseteq BOOLEAN

Init ==
  /\ now = 0
  /\ count = 0 /\ until = 0
  /\ at = [l \in Login |-> "idle"]
  /\ owes = [l \in Login |-> FALSE]
  /\ early = {}
  /\ last = 0
  /\ tripped = FALSE /\ odd = FALSE

Goes(l, step) == at' = [at EXCEPT ![l] = step]

UnderWay == {l \in Login : at[l] \in {"checked", "known"}}

-----------------------------------------------------------------------------

\* Bug: locked only beyond the limit.
LockedBeyond == count > Limit

\* check_login.
Locked == count >= Limit

\* login: refused with 429 if locked.
Check(l) ==
  /\ at[l] = "idle" /\ ~Locked
  /\ Goes(l, "checked")
  /\ early' = early \ {l}
  /\ UNCHANGED <<now, count, until, owes, last, tripped, odd>>

\* Bug: every failure at or beyond the limit trips.
TripsAgain == count + 1 >= Limit

\* record_failure: the one that reaches the limit.
Trips == count + 1 = Limit

\* Bug: only the failure that trips starts the block.
ExpiryOfTheTrip ==
  CASE count = 0 /\ Limit > 1 -> now + Window
    [] count + 1 = Limit -> now + Block
    [] OTHER -> until

\* The window from the first failure; the block from each at or beyond the limit.
Expiry ==
  CASE count + 1 >= Limit -> now + Block
    [] count = 0 /\ Limit > 1 -> now + Window
    [] OTHER -> until

\* An unknown user or a wrong password: record_failure.
Fail(l) ==
  /\ at[l] = "checked"
  /\ count' = count + 1
  /\ until' = Expiry
  /\ last' = now
  /\ early' = IF count + 1 = Limit THEN UnderWay \ {l} ELSE early
  /\ owes' = [owes EXCEPT ![l] = Trips]
  /\ tripped' = (tripped \/ Trips)
  /\ odd' = (odd \/ (tripped /\ Trips))
  /\ Goes(l, "failed")
  /\ UNCHANGED now

\* _enqueue_login_failure and its commit, with an AuthThrottleTriggered event for a lock;
\* without the pseudonym key, or if the database fails, neither event is written.
Report(l) ==
  /\ at[l] = "failed"
  /\ owes' = [owes EXCEPT ![l] = FALSE]
  /\ Goes(l, "idle")
  /\ UNCHANGED <<now, count, until, early, last, tripped, odd>>

\* A disabled account is reported and not counted; a database that fails ends a login.
Leave(l) ==
  /\ at[l] = "checked"
  /\ Goes(l, "idle")
  /\ UNCHANGED <<now, count, until, owes, early, last, tripped, odd>>

\* The password is right: session and token are committed.
Succeed(l) ==
  /\ at[l] = "checked"
  /\ Goes(l, "known")
  /\ UNCHANGED <<now, count, until, owes, early, last, tripped, odd>>

\* reset_failures, or Redis fails and the user has a session without its cookies.
Reset(l) ==
  /\ at[l] = "known"
  /\ \/ /\ count' = 0 /\ until' = 0 /\ tripped' = FALSE
        /\ odd' = (odd \/ (count >= Limit /\ l \notin early))
     \/ UNCHANGED <<count, until, tripped, odd>>
  /\ Goes(l, "idle")
  /\ UNCHANGED <<now, owes, early, last>>

\* Redis expires the key when its time has come.
Tick ==
  /\ now < MaxTime
  /\ now' = now + 1
  /\ IF count > 0 /\ until <= now'
     THEN count' = 0 /\ until' = 0 /\ tripped' = FALSE
     ELSE UNCHANGED <<count, until, tripped>>
  /\ UNCHANGED <<at, owes, early, last, odd>>

Next ==
  \/ \E l \in Login : Check(l) \/ Fail(l) \/ Report(l) \/ Leave(l) \/ Succeed(l) \/ Reset(l)
  \/ Tick

Spec == Init /\ [][Next]_vars

-----------------------------------------------------------------------------

\* check_login and record_failure are two calls: what logins under way together add to the
\* count is bounded by their number, whatever their order.
TriesAreBounded == count < Limit + Cardinality(Login)

\* A lock lasts for the block since the last failure, and is gone at its end; only a login
\* that had passed the check before it fell may lift it, and exactly one failure is told that
\* it fell, so that it is reported once at most.
LocksHold ==
  /\ count >= Limit => until = last + Block /\ now < until
  /\ tripped <=> count >= Limit
  /\ ~odd

\* No count without a time to live.
CountsPass == count > 0 => now < until
=============================================================================
