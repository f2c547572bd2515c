---------------------------- MODULE ConsoleAuth ----------------------------
(***************************************************************************)
(* How the web console keeps its session: tabs whose requests come back    *)
(* with 401 refresh under a lock of the browser (client.ts, refresh.ts),   *)
(* navigations are refreshed on their way by the web server, without one   *)
(* (proxy.ts), and both write the same cookies. The auth service rotates   *)
(* the refresh token at each call; a transaction of it is one step here,   *)
(* RefreshRotation has its statements.                                     *)
(***************************************************************************)
EXTENDS Naturals

CONSTANTS
  Tab,        \* tabs with a page of the console
  Nav,        \* navigations that may be under way at once
  None,
  MaxHops,    \* _MAX_SUCCESSOR_HOPS
  MaxTokens,  \* bound on the tokens that are issued
  MaxFaults   \* bound on what goes wrong

ConsoleAuthAssumption ==
  /\ MaxTokens \in Nat \ {0} /\ {MaxHops, MaxFaults} \subseteq Nat
  /\ None \notin Tab \cup Nav

VARIABLES
  session,  \* the session, and whether a reuse ended it
  newest,   \* the number of the newest refresh token
  aged,     \* tokens up to this one were rotated longer ago than the grace period
  jar,      \* the cookies: whether the access token is there, the number of the others, 0 if none
  tab,      \* what each tab is doing, with the CSRF token it read and the cookies it sent
  lock,     \* the holder of the lock "auth-refresh"
  nav,      \* what each navigation is doing, with the cookies it sent, is bringing or was not
            \* given, and whether it is to "/"
  behind,   \* history: an answer was lost, overtaken or slow, or dropped for good
  failed,   \* history: a request failed, or cookies came after its header was written
  faults    \* how much has gone wrong

vars == <<session, newest, aged, jar, tab, lock, nav, behind, failed, faults>>

Token == 0 .. MaxTokens

Idle == [at |-> "idle", csrf |-> 0, token |-> 0]
Here == [at |-> "idle", token |-> 0, root |-> FALSE]

TypeOK ==
  /\ session \in {"live", "ended", "reused"}
  /\ newest \in Token /\ aged \in Token /\ aged < newest
  /\ jar \in [access : BOOLEAN, token : Token] /\ jar.token =< newest
  /\ tab \in [Tab -> [at : {"idle", "waits", "reads", "sent", "ok", "refused", "retries", "login"},
                      csrf : Token, token : Token]]
  /\ lock \in Tab \cup {None}
  /\ \A t \in Tab : lock = t <=> tab[t].at \in {"reads", "sent", "ok", "refused"}
  /\ nav \in [Nav -> [at : {"idle", "sent", "ok", "refused", "redirected", "login"},
                      token : Token, root : BOOLEAN]]
  /\ behind \in BOOLEAN /\ failed \in BOOLEAN /\ faults \in 0 .. MaxFaults

Init ==
  /\ session = "live" /\ newest = 1 /\ aged = 0
  /\ jar = [access |-> TRUE, token |-> 1]
  /\ tab = [t \in Tab |-> Idle]
  /\ lock = None
  /\ nav = [n \in Nav |-> Here]
  /\ behind = FALSE /\ failed = FALSE /\ faults = 0

Fault == faults < MaxFaults /\ faults' = faults + 1

-----------------------------------------------------------------------------
(* POST /auth/refresh, and the session from outside. *)

\* _resolve_presented_refresh: the newest token, or one that led to it lately and soon.
Usable(token) == token = newest \/ (token > aged /\ newest - token =< MaxHops)

\* The answer to a token: its successor, a refusal, or the end of the family.
Rotates(token) == session = "live" /\ Usable(token)

Reply(request) ==
  IF Rotates(request.token)
  THEN [request EXCEPT !.at = "ok", !.token = newest + 1]
  ELSE [request EXCEPT !.at = "refused"]

Answered(token) ==
  /\ Rotates(token) => newest < MaxTokens
  /\ newest' = IF Rotates(token) THEN newest + 1 ELSE newest
  /\ session' = IF session = "live" /\ ~ Usable(token) THEN "reused" ELSE session

\* Too many have refreshed with one token within the grace period.
Crowded(token) == session = "live" /\ token > aged /\ newest - token > MaxHops

EndsElsewhere ==
  /\ session = "live"
  /\ session' = "ended"
  /\ UNCHANGED <<newest, aged, jar, tab, lock, nav, behind, failed, faults>>

\* The answer to a logout arrives: clear_auth_cookies.
CookiesCleared ==
  /\ session = "ended" /\ jar.token # 0
  /\ jar' = [access |-> FALSE, token |-> 0]
  /\ UNCHANGED <<session, newest, aged, tab, lock, nav, behind, failed, faults>>

AccessExpires ==
  /\ jar.access
  /\ jar' = [jar EXCEPT !.access = FALSE]
  /\ UNCHANGED <<session, newest, aged, tab, lock, nav, behind, failed, faults>>

UnderWay == \/ \E t \in Tab : tab[t].at \in {"sent", "ok"}
            \/ \E n \in Nav : nav[n].at \in {"sent", "ok", "redirected"}

\* The grace period of a token ends: what is under way for so long is slow.
Ages ==
  /\ aged + 1 < newest
  /\ aged' = aged + 1
  /\ IF UnderWay THEN Fault /\ behind' = TRUE ELSE UNCHANGED <<behind, faults>>
  /\ UNCHANGED <<session, newest, jar, tab, lock, nav, failed>>

\* The cookies of an answer are stored when it arrives, whatever was stored before.
Stored(token) ==
  /\ jar' = [access |-> TRUE, token |-> token]
  /\ behind' = (behind \/ jar.token > token)

-----------------------------------------------------------------------------
(* apiRequest and refreshSession. The requests of a tab share one refresh. *)

\* A request comes back with 401: refreshUnderLock reads the CSRF token and asks for the lock.
Asks(t) ==
  /\ tab[t].at = "idle" /\ (~ jar.access \/ session # "live")
  /\ tab' = [tab EXCEPT ![t] = [Idle EXCEPT !.at = "waits", !.csrf = jar.token]]
  /\ UNCHANGED <<session, newest, aged, jar, lock, nav, behind, failed, faults>>

\* Bug: the CSRF token that was read before the wait is used after it.
LockedWithOldToken(t) ==
  /\ tab[t].at = "waits" /\ lock = None
  /\ tab' = [tab EXCEPT ![t].at = "reads"] /\ lock' = t
  /\ UNCHANGED <<session, newest, aged, jar, nav, behind, failed, faults>>

\* The lock is granted: nothing is left to do if another tab has refreshed, or callRefresh
\* reads the CSRF token; without one there is no session.
Locked(t) ==
  /\ tab[t].at = "waits" /\ lock = None
  /\ IF jar.token # tab[t].csrf THEN tab' = [tab EXCEPT ![t].at = "retries"] /\ UNCHANGED lock
     ELSE IF jar.token = 0 THEN tab' = [tab EXCEPT ![t].at = "login"] /\ UNCHANGED lock
     ELSE tab' = [tab EXCEPT ![t].at = "reads"] /\ lock' = t
  /\ UNCHANGED <<session, newest, aged, jar, nav, behind, failed, faults>>

\* The browser sends the request with the cookies it has now.
Sends(t) ==
  /\ tab[t].at = "reads"
  /\ tab' = [tab EXCEPT ![t].at = "sent", ![t].token = jar.token]
  /\ UNCHANGED <<session, newest, aged, jar, lock, nav, behind, failed, faults>>

\* csrf_protect refuses a header that is not the cookie, and refresh answers.
Served(t) ==
  /\ tab[t].at = "sent"
  /\ IF tab[t].csrf = tab[t].token
     THEN /\ Answered(tab[t].token)
          /\ tab' = [tab EXCEPT ![t] = Reply(@)]
          /\ behind' = (behind \/ Crowded(tab[t].token))
     ELSE /\ tab' = [tab EXCEPT ![t].at = "refused"]
          /\ UNCHANGED <<session, newest, behind>>
  /\ UNCHANGED <<aged, jar, lock, nav, failed, faults>>

\* The answer arrives: the request is repeated, or onSessionFailure opens the login page.
Hears(t) ==
  /\ tab[t].at \in {"ok", "refused"}
  /\ IF tab[t].at = "ok" THEN Stored(tab[t].token) ELSE UNCHANGED <<jar, behind>>
  /\ tab' = [tab EXCEPT ![t] = [Idle EXCEPT !.at = IF tab[t].at = "ok" THEN "retries" ELSE "login"]]
  /\ lock' = None
  /\ UNCHANGED <<session, newest, aged, nav, failed, faults>>

\* The request or its answer is lost, or the tab is closed; the page stays where it is.
Lost(t) ==
  /\ tab[t].at \in {"reads", "sent", "ok", "refused"} /\ Fault
  /\ tab' = [tab EXCEPT ![t] = Idle]
  /\ lock' = None
  /\ behind' = (behind \/ tab[t].at = "ok")
  /\ UNCHANGED <<session, newest, aged, jar, nav, failed>>

\* The request is sent again; a second 401 is final.
Retries(t) ==
  /\ tab[t].at = "retries"
  /\ \/ jar.access /\ session = "live" /\ tab' = [tab EXCEPT ![t] = Idle]
     \/ ~ (jar.access /\ session = "live")
        /\ tab' = [tab EXCEPT ![t] = [Idle EXCEPT !.at = "login"]]
  /\ failed' = (failed \/ ~ jar.access)
  /\ UNCHANGED <<session, newest, aged, jar, lock, nav, behind, faults>>

-----------------------------------------------------------------------------
(* proxy *)

\* A navigation without an access token: renewSession, or the login page.
Navigates(n) ==
  /\ nav[n].at = "idle" /\ ~ jar.access
  /\ \E root \in BOOLEAN :
       nav' = [nav EXCEPT ![n] = [at |-> IF jar.token = 0 THEN "login" ELSE "sent",
                                  token |-> jar.token, root |-> root]]
  /\ UNCHANGED <<session, newest, aged, jar, tab, lock, behind, failed, faults>>

Renewed(n) ==
  /\ nav[n].at = "sent"
  /\ Answered(nav[n].token)
  /\ nav' = [nav EXCEPT ![n] = Reply(@)]
  /\ behind' = (behind \/ Crowded(nav[n].token))
  /\ UNCHANGED <<aged, jar, tab, lock, failed, faults>>

\* Bug: no page brings its new cookies to the browser, as if each were the redirect of "/".
CookiesKept(n) ==
  /\ nav[n].at \in {"ok", "refused"}
  /\ nav' = [nav EXCEPT ![n] = [Here EXCEPT !.at = IF nav[n].at = "ok" THEN "idle" ELSE "login"]]
  /\ UNCHANGED <<session, newest, aged, jar, tab, lock, behind, failed, faults>>

\* The page is rendered with the new access token and brings the cookies to the browser, or
\* it is the login page; for "/" it is a redirect, without the cookies.
Arrives(n) ==
  /\ nav[n].at \in {"ok", "refused"}
  /\ IF nav[n].at = "ok" /\ ~ nav[n].root
     THEN Stored(nav[n].token) /\ failed' = (failed \/ \E t \in Tab : tab[t].at = "reads")
     ELSE UNCHANGED <<jar, behind, failed>>
  /\ nav' = [nav EXCEPT ![n] = IF nav[n].at = "refused" THEN [Here EXCEPT !.at = "login"]
                               ELSE IF nav[n].root THEN [@ EXCEPT !.at = "redirected"]
                               ELSE Here]
  /\ UNCHANGED <<session, newest, aged, tab, lock, faults>>

\* The browser follows the redirect with the cookies it has: it has lost those that were
\* dropped, if others give it access to the page that are older.
Follows(n) ==
  /\ nav[n].at = "redirected"
  /\ nav' = [nav EXCEPT ![n] = IF jar.access THEN Here
                               ELSE [at |-> IF jar.token = 0 THEN "login" ELSE "sent",
                                     token |-> jar.token, root |-> FALSE]]
  /\ behind' = (behind \/ (jar.access /\ jar.token < nav[n].token))
  /\ UNCHANGED <<session, newest, aged, jar, tab, lock, failed, faults>>

\* The auth service does not answer in time, although it may have rotated: the login page.
TimesOut(n) ==
  /\ nav[n].at \in {"sent", "ok"} /\ Fault
  /\ nav' = [nav EXCEPT ![n] = [Here EXCEPT !.at = "login"]]
  /\ behind' = TRUE /\ failed' = TRUE
  /\ UNCHANGED <<session, newest, aged, jar, tab, lock>>

\* The user goes elsewhere before the page has arrived.
Abandoned(n) ==
  /\ nav[n].at \in {"sent", "ok", "refused", "redirected"} /\ Fault
  /\ nav' = [nav EXCEPT ![n] = Here]
  /\ behind' = TRUE
  /\ UNCHANGED <<session, newest, aged, jar, tab, lock, failed>>

Outside == EndsElsewhere \/ CookiesCleared \/ AccessExpires \/ Ages

Page(t) == Asks(t) \/ Locked(t) \/ Sends(t) \/ Served(t) \/ Hears(t) \/ Lost(t) \/ Retries(t)

Proxy(n) ==
  Navigates(n) \/ Renewed(n) \/ Arrives(n) \/ Follows(n) \/ TimesOut(n) \/ Abandoned(n)

Next == Outside \/ (\E t \in Tab : Page(t)) \/ (\E n \in Nav : Proxy(n))

Spec == Init /\ [][Next]_vars

-----------------------------------------------------------------------------
(* Properties. *)

\* refresh.ts and proxy.ts: the console's own renewals are never taken for a theft, unless an
\* answer was lost, overtaken or slow, or was dropped by the redirect of "/" and not made up for
\* by the next, or more of them came together than the service follows.
OwnRenewalsAreNoReuse == session = "reused" => behind

\* onSessionFailure and loginRedirect: nobody is sent to the login page while the session is
\* live, unless something failed.
LoginIsNeeded ==
  (\E t \in Tab : tab[t].at = "login") \/ (\E n \in Nav : nav[n].at = "login")
     => session # "live" \/ failed
=============================================================================
