---------------------------- MODULE RequestGuard ----------------------------
(***************************************************************************)
(* What a request to the API passes before its handler runs: the token is  *)
(* verified by the auth service, the caller's bucket is charged in Redis,  *)
(* and only then the permission is looked at. An upgrade to a socket takes *)
(* the same way with a bucket of its own.                                  *)
(*                                                                         *)
(* Every client belongs to one account, on whatever replica: the buckets   *)
(* live in Redis, and so does the clock they are kept by. A bucket is the  *)
(* time at which it will be empty again (GCRA), in a key that expires then.*)
(***************************************************************************)
EXTENDS Integers

CONSTANTS
  Client,    \* what sends requests: a page, or a socket of it
  Burst,     \* RATE_LIMIT_BURST and WS_RATE_BURST
  Period,    \* the window divided by the requests in it; WS_RATE_* likewise
  Second,    \* milliseconds in the unit of Retry-After
  MaxTime    \* bound on the clock

Bucket == {"http", "ws"}

\* A period of whole milliseconds, as the settings have it: the script answers in whole
\* ones, and a fraction it drops could send a client back too early.
RequestGuardAssumption ==
  /\ Burst \in [Bucket -> Nat \ {0}] /\ Period \in [Bucket -> Nat \ {0}]
  /\ Second \in Nat \ {0} /\ MaxTime \in Nat

Time == 0 .. MaxTime

VARIABLES
  sockets,  \* those of them that ask for an upgrade
  now,      \* TIME of Redis, in milliseconds
  key,      \* the time rl:* and rl:ws:* hold, and when they expire
  session,  \* what the auth service knows of the account
  at,       \* where the request of a client is
  answer,   \* what its last one was answered
  passed,   \* history: how many of a bucket had passed by a time
  told,     \* history: when a client was told to come back, and how many had passed then
  misled    \* history: one that came back then, with nobody ahead of it, was refused

vars == <<sockets, now, key, session, at, answer, passed, told, misled>>

Never == [when |-> MaxTime + 1, after |-> 0]

TypeOK ==
  /\ sockets \subseteq Client
  /\ now \in Time
  /\ key \in [Bucket -> [tat : Nat, until : Nat]]
  /\ session \in {"operator", "viewer", "ended"}
  /\ at \in [Client -> {"idle", "verify", "limit", "guard"}]
  /\ answer \in [Client -> {"none", "done", "login", "denied", "later", "unavailable"}]
  /\ passed \in [Bucket -> [Time -> Nat]]
  /\ told \in [Client -> [when : Nat, after : Nat]]
  /\ misled \in BOOLEAN

Init ==
  /\ sockets \in SUBSET Client
  /\ now = 0
  /\ key = [b \in Bucket |-> [tat |-> 0, until |-> 0]]
  /\ session = "operator"
  /\ at = [c \in Client |-> "idle"]
  /\ answer = [c \in Client |-> "none"]
  /\ passed = [b \in Bucket |-> [t \in Time |-> 0]]
  /\ told = [c \in Client |-> Never]
  /\ misled = FALSE

Of(c) == IF c \in sockets THEN "ws" ELSE "http"

Total(b) == passed[b][MaxTime]

\* One more of a bucket has passed from now on.
Counted(b) == passed' = [passed EXCEPT ![b] = [t \in Time |-> IF t < now THEN @[t] ELSE @[t] + 1]]

Goes(c, step) == at' = [at EXCEPT ![c] = step] /\ answer' = [answer EXCEPT ![c] = "none"]

Answers(c, what) == at' = [at EXCEPT ![c] = "idle"] /\ answer' = [answer EXCEPT ![c] = what]

-----------------------------------------------------------------------------

\* extract_token: the request carries a token.
Ask(c) ==
  /\ at[c] = "idle"
  /\ Goes(c, "verify")
  /\ UNCHANGED <<sockets, now, key, session, passed, told, misled>>

\* Bug: an auth service that does not answer is taken for one that refuses.
SilenceRefuses(c) == Answers(c, "login")

\* AuthUnavailableError.
AuthIsSilent(c) == Answers(c, "unavailable")

\* get_current_user: VerifyToken, or its deadline.
Verify(c) ==
  /\ at[c] = "verify"
  /\ \/ session # "ended" /\ Goes(c, "limit")
     \/ session = "ended" /\ Answers(c, "login")
     \/ AuthIsSilent(c)
  /\ UNCHANGED <<sockets, now, key, session, passed, told, misled>>

\* The script: the time in the key, or now if it has none or an earlier one.
Tat(b) == IF now < key[b].until /\ now < key[b].tat THEN key[b].tat ELSE now

\* Bug: one more than the burst is let in.
AllowAtOneMore(b) == Tat(b) - Burst[b] * Period[b]

AllowAt(b) == Tat(b) - (Burst[b] - 1) * Period[b]

\* Bug: the key lives for one period, however full the bucket is.
ChargePeriod(b) ==
  key' = [key EXCEPT ![b] = [tat |-> Tat(b) + Period[b], until |-> now + Period[b]]]

Charge(b) ==
  key' = [key EXCEPT ![b] = [tat |-> Tat(b) + Period[b], until |-> Tat(b) + Period[b]]]

AtLeast(low, n) == IF n < low THEN low ELSE n

\* Bug: the seconds are rounded down.
RetryRoundedDown(b) == AtLeast(Second, ((AllowAt(b) - now) \div Second) * Second)

\* Retry-After: whole seconds, at least one.
RetryAfter(b) == AtLeast(Second, ((AllowAt(b) - now + Second - 1) \div Second) * Second)

\* rate_limit: let through.
Pass(c) ==
  LET b == Of(c) IN
    /\ at[c] = "limit" /\ AllowAt(b) <= now
    /\ Charge(b)
    /\ Counted(b)
    /\ Goes(c, "guard")
    /\ told' = [told EXCEPT ![c] = Never]
    /\ UNCHANGED <<sockets, now, session, misled>>

\* RateLimitedError; a socket is closed and told nothing.
Refuse(c) ==
  LET b == Of(c) IN
    /\ at[c] = "limit" /\ now < AllowAt(b)
    /\ Answers(c, "later")
    /\ misled' = (misled \/ (told[c].when <= now /\ told[c].after = Total(b)))
    /\ told' = [told EXCEPT ![c] =
         IF c \in sockets THEN Never
         ELSE [when |-> now + RetryAfter(b), after |-> Total(b)]]
    /\ UNCHANGED <<sockets, now, key, session, passed>>

\* RedisError: refused, whether or not the script has run.
RedisFails(c) ==
  LET b == Of(c) IN
    /\ at[c] = "limit"
    /\ Answers(c, "later")
    /\ \/ UNCHANGED <<key, passed>>
       \/ /\ AllowAt(b) <= now
          /\ Charge(b)
          /\ Counted(b)
    /\ told' = [told EXCEPT ![c] = Never]
    /\ UNCHANGED <<sockets, now, session, misled>>

\* require_permission, by the roles the token was verified with; a denial is recorded.
Guard(c) ==
  /\ at[c] = "guard"
  /\ \/ Answers(c, "done")
     \/ session # "operator" /\ Answers(c, "denied")
  /\ UNCHANGED <<sockets, now, key, session, passed, told, misled>>

\* The account loses its role, or the session ends.
Falls ==
  /\ \/ session = "operator" /\ session' = "viewer"
     \/ session # "ended" /\ session' = "ended"
  /\ UNCHANGED <<sockets, now, key, at, answer, passed, told, misled>>

Tick ==
  /\ now < MaxTime
  /\ now' = now + 1
  /\ UNCHANGED <<sockets, key, session, at, answer, passed, told, misled>>

Next ==
  \/ \E c \in Client : Ask(c) \/ Verify(c) \/ Pass(c) \/ Refuse(c) \/ RedisFails(c) \/ Guard(c)
  \/ Falls
  \/ Tick

Spec == Init /\ [][Next]_vars

-----------------------------------------------------------------------------

\* How many of a bucket had passed before a time.
Before(b, s) == IF s = 0 THEN 0 ELSE passed[b][s - 1]

\* The script and its key: in any stretch of time no more requests pass than the burst and
\* one for each period of it, whatever replica they go to and however long the key lives.
RateIsKept ==
  \A b \in Bucket : \A s, t \in Time :
    s <= t => passed[b][t] - Before(b, s) <= Burst[b] + (t - s) \div Period[b]

\* RateLimitedError: a client that comes back when it was told to, with nobody let through
\* in between, is let through.
WaitIsEnough == ~misled

\* get_current_user and its handlers: only the end of a session sends a user to the login
\* page, never an auth service or a Redis that is out.
OnlyTheEndedLogIn == \A c \in Client : answer[c] = "login" => session = "ended"
=============================================================================
