---------------------------- MODULE TelegramLink ----------------------------
(***************************************************************************)
(* Linking a Telegram account to an operator: a link is issued in three    *)
(* Redis calls, is good for one /start, and binds the sender's Telegram    *)
(* account to the user, in PostgreSQL, unless another user has it.         *)
(***************************************************************************)
EXTENDS Naturals, FiniteSets

CONSTANTS
  User, Account,  \* operators, and Telegram accounts
  Link,           \* link tokens, each issued by one request
  For(_),         \* who issues it
  None,
  MaxFaults       \* bound: calls that fail and processes that die

TelegramLinkAssumption ==
  /\ None \notin Link \cup Account
  /\ \A l \in Link : For(l) \in User
  /\ MaxFaults \in Nat

VARIABLES
  active,    \* users that are not disabled
  issued,    \* where the request that issues a link is
  previous,  \* the link it found under the owner key
  good,      \* keys telegram:link
  owner,     \* keys telegram:link:user
  starts,    \* /start messages being handled: the link and where they are
  sender,    \* the account each came from
  bound,     \* telegram_bindings
  stray,     \* links that a fault left behind
  faults

vars == <<active, issued, previous, good, owner, starts, sender, bound, stray, faults>>

TypeOK ==
  /\ active \subseteq User
  /\ issued \in [Link -> {"new", "set", "owned", "done"}]
  /\ previous \in [Link -> Link \cup {None}]
  /\ good \subseteq Link /\ owner \in [User -> Link \cup {None}]
  /\ starts \in [Link -> {"none", "sent", "consumed"}]
  /\ sender \in [Link -> Account \cup {None}]
  /\ bound \in [User -> Account \cup {None}]
  /\ stray \subseteq Link /\ faults \in 0..MaxFaults

Init ==
  /\ active = User
  /\ issued = [l \in Link |-> "new"] /\ previous = [l \in Link |-> None]
  /\ good = {} /\ owner = [u \in User |-> None]
  /\ starts = [l \in Link |-> "none"] /\ sender = [l \in Link |-> None]
  /\ bound = [u \in User |-> None]
  /\ stray = {} /\ faults = 0

-----------------------------------------------------------------------------

Fault == faults < MaxFaults /\ faults' = faults + 1

Issued(l, step) == issued' = [issued EXCEPT ![l] = step]

\* store_telegram_link: the link's key.
SetLink(l) ==
  /\ issued[l] = "new" /\ For(l) \in active
  /\ good' = good \cup {l}
  /\ Issued(l, "set")
  /\ UNCHANGED <<active, previous, owner, starts, sender, bound, stray, faults>>

\* The owner's key, with what it held.
SetOwner(l) ==
  /\ issued[l] = "set"
  /\ owner' = [owner EXCEPT ![For(l)] = l]
  /\ previous' = [previous EXCEPT ![l] = owner[For(l)]]
  /\ Issued(l, "owned")
  /\ UNCHANGED <<active, good, starts, sender, bound, stray, faults>>

\* Bug: the previous link is left to its ttl.
WithoutNone(l) == good

\* The link that the owner's key held is deleted.
WithoutPrevious(l) == good \ {previous[l]}

DeletePrevious(l) ==
  /\ issued[l] = "owned"
  /\ good' = WithoutPrevious(l)
  /\ previous' = [previous EXCEPT ![l] = None]
  /\ Issued(l, "done")
  /\ UNCHANGED <<active, owner, starts, sender, bound, stray, faults>>

\* Redis fails between the calls, or the process dies.
IssueFails(l) ==
  /\ issued[l] \in {"set", "owned"}
  /\ Fault
  /\ stray' = stray \cup (IF issued[l] = "set" THEN {l} ELSE {previous[l]} \ {None})
  /\ Issued(l, "done")
  /\ previous' = [previous EXCEPT ![l] = None]
  /\ UNCHANGED <<active, good, owner, starts, sender, bound>>

\* ttl: the owner's key was set later than the link's.
LinkExpires(l) ==
  /\ l \in good /\ issued[l] = "done"
  /\ good' = good \ {l}
  /\ owner' = [u \in User |-> IF owner[u] = l THEN None ELSE owner[u]]
  /\ UNCHANGED <<active, issued, previous, starts, sender, bound, stray, faults>>

-----------------------------------------------------------------------------
(* /start with a link *)

Start(l, a) ==
  /\ issued[l] = "done" /\ starts[l] = "none"
  /\ starts' = [starts EXCEPT ![l] = "sent"]
  /\ sender' = [sender EXCEPT ![l] = a]
  /\ UNCHANGED <<active, issued, previous, good, owner, bound, stray, faults>>

\* consume_telegram_link, a getdel: an invalid link ends here; a valid one is used up, whatever
\* becomes of the binding.
Consume(l) ==
  /\ starts[l] = "sent"
  /\ good' = good \ {l}
  /\ starts' = [starts EXCEPT ![l] = IF l \in good THEN "consumed" ELSE "none"]
  /\ sender' = [sender EXCEPT ![l] = IF l \in good THEN @ ELSE None]
  /\ UNCHANGED <<active, issued, previous, owner, bound, stray, faults>>

Handled(l) ==
  /\ starts' = [starts EXCEPT ![l] = "none"]
  /\ sender' = [sender EXCEPT ![l] = None]

\* The account is bound unless the user is disabled or another one has it: the unique
\* index refuses, ACCOUNT_IN_USE.
Bind(l) ==
  /\ starts[l] = "consumed"
  /\ bound' = IF /\ For(l) \in active
                 /\ \A u \in User \ {For(l)} : bound[u] # sender[l]
              THEN [bound EXCEPT ![For(l)] = sender[l]]
              ELSE bound
  /\ Handled(l)
  /\ UNCHANGED <<active, issued, previous, good, owner, stray, faults>>

\* "linking is unavailable, try again": the link is used up.
BindFails(l) ==
  /\ starts[l] = "consumed"
  /\ Fault
  /\ Handled(l)
  /\ UNCHANGED <<active, issued, previous, good, owner, bound, stray>>

\* unlink.
Unlink(u) ==
  /\ bound[u] # None
  /\ bound' = [bound EXCEPT ![u] = None]
  /\ UNCHANGED <<active, issued, previous, good, owner, starts, sender, stray, faults>>

Disable(u) ==
  /\ u \in active
  /\ active' = active \ {u}
  /\ UNCHANGED <<issued, previous, good, owner, starts, sender, bound, stray, faults>>

Next ==
  \/ \E l \in Link :
       \/ SetLink(l) \/ SetOwner(l) \/ DeletePrevious(l) \/ IssueFails(l) \/ LinkExpires(l)
       \/ Consume(l) \/ Bind(l) \/ BindFails(l)
       \/ \E a \in Account : Start(l, a)
  \/ \E u \in User : Unlink(u) \/ Disable(u)

Spec == Init /\ [][Next]_vars

-----------------------------------------------------------------------------
(* Properties *)

\* However many links a user asks for at once, when the requests are over one of them at
\* most is good, unless one was interrupted.
OneLinkIsGood ==
  \A u \in User :
    (\A l \in Link : For(l) = u => issued[l] \in {"new", "done"})
      => Cardinality({l \in good \ stray : For(l) = u}) <= 1
=============================================================================
