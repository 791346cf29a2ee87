----------------------------- MODULE WebSessions -----------------------------
(***************************************************************************)
(* Tabs that sign in, refresh and sign out (growasy-web                    *)
(* src/lib/api-client.ts, src/stores/auth-store.ts) against the handlers   *)
(* of AuthService.  A request carries the cookie of the moment it is sent; *)
(* its answer sets the cookie when it arrives, if a page still waits.      *)
(***************************************************************************)
EXTENDS AuthService

(* Mutant: every 401 starts a refresh of its own. *)
StartRefreshEach(h, t) ==
    /\ tab[t].at # "out"
    /\ cookie # NoCookie
    /\ Begin(h, [Free EXCEPT !.at = "session", !.for = "refresh", !.tab = t,
                             !.session = cookie.session, !.token = cookie.token])
    /\ tab' = [tab EXCEPT ![t].at = "waiting"]
    /\ crossedRefresh' = (crossedRefresh \/ \E other \in UnderWay("refresh") : handler[other].tab # t)
    /\ UNCHANGED <<user, sessions, links, minted, cookie, wrong, resets, crossedLogin, crossedReset,
                   budgetVars>>

(* A page that loads, or whose calls get a 401: "concurrent 401s share one *)
(* /auth/refresh call", so a tab that waits starts none.                   *)
StartRefresh(h, t) ==
    /\ tab[t].at \in {"unknown", "ready"}
    /\ cookie # NoCookie
    /\ Begin(h, [Free EXCEPT !.at = "session", !.for = "refresh", !.tab = t,
                             !.session = cookie.session, !.token = cookie.token])
    /\ tab' = [tab EXCEPT ![t].at = "waiting"]
    /\ crossedRefresh' = (crossedRefresh \/ \E other \in UnderWay("refresh") : handler[other].tab # t)
    /\ UNCHANGED <<user, sessions, links, minted, cookie, wrong, resets, crossedLogin, crossedReset,
                   budgetVars>>

SignOff(t) == tab' = [tab EXCEPT ![t] = [at |-> "out", session |-> 0]]

(* "No refresh token provided" *)
FindNoCookie(t) ==
    /\ tab[t].at \in {"unknown", "ready"}
    /\ cookie = NoCookie
    /\ SignOff(t)
    /\ UNCHANGED <<user, sessions, links, minted, cookie, handler, historyVars, budgetVars>>

Login(h, t) ==
    /\ tab[t].at = "out"
    /\ \E typed \in {0, user.password} :
        /\ typed = 0 => wrong < MaxWrong
        /\ Begin(h, [Free EXCEPT !.at = "account", !.for = "login", !.tab = t, !.typed = typed])
    /\ tab' = [tab EXCEPT ![t].at = "waiting"]
    /\ crossedLogin' = (crossedLogin \/ UnderWay("login") # {})
    /\ UNCHANGED <<user, sessions, links, minted, cookie, wrong, resets, crossedRefresh, crossedReset,
                   budgetVars>>

(* JwtStrategy lets the call in when the session and the user are good. *)
StartLogout(h, t) ==
    /\ Edit
    /\ tab[t].at = "ready"
    /\ ~ sessions[tab[t].session].revoked /\ ~ sessions[tab[t].session].expired /\ ~ user.suspended
    /\ \E step \in {"logout", "logoutAll"} :
        Begin(h, [Free EXCEPT !.at = step, !.for = "logout", !.tab = t, !.session = tab[t].session])
    /\ tab' = [tab EXCEPT ![t].at = "waiting"]
    /\ UNCHANGED <<user, sessions, links, minted, cookie, historyVars>>

(* What the answer does in the browser. *)
Arrive(h) ==
    LET s == handler[h] IN
    /\ s.at \in Answer
    /\ IF s.tab = NoTab THEN UNCHANGED browserVars
       ELSE \/ /\ s.at = "granted"
               /\ cookie' = [session |-> s.session, token |-> s.token]
               /\ tab' = [tab EXCEPT ![s.tab] = [at |-> "ready", session |-> s.session]]
            \/ s.at = "refused" /\ SignOff(s.tab) /\ UNCHANGED cookie
            \/ s.at = "signedOut" /\ SignOff(s.tab) /\ cookie' = NoCookie
    /\ Done(h)
    /\ UNCHANGED <<user, sessions, links, minted, historyVars, budgetVars>>

------------------------------------------------------------------------------
(* Faults, the user and the clock                                          *)

(* The awaited call throws, its process stops, or the answer is lost.  The *)
(* tab takes it for a refusal.                                             *)
Fail(h) ==
    /\ Fault
    /\ ~ Awaits(h, "idle")
    /\ IF handler[h].tab = NoTab THEN UNCHANGED tab ELSE SignOff(handler[h].tab)
    /\ Done(h)
    /\ UNCHANGED <<user, sessions, links, minted, cookie, historyVars>>

(* The page is loaded again.  Whatever it waited for goes on without it,   *)
(* which is as good as an answer that is lost.                             *)
Reload(t) ==
    /\ IF tab[t].at = "waiting" THEN Fault ELSE Edit
    /\ tab' = [tab EXCEPT ![t] = [at |-> "unknown", session |-> 0]]
    /\ handler' = [h \in Handler |-> IF handler[h].tab = t THEN [handler[h] EXCEPT !.tab = NoTab]
                                     ELSE handler[h]]
    /\ UNCHANGED <<user, sessions, links, minted, cookie, historyVars>>

LockLapses ==
    /\ Edit
    /\ user.locked
    /\ user' = [user EXCEPT !.locked = FALSE]
    /\ UNCHANGED <<sessions, links, minted, browserVars, handler, historyVars>>

Expire(s) ==
    /\ Edit
    /\ s \in DOMAIN sessions
    /\ sessions' = [sessions EXCEPT ![s].expired = TRUE]
    /\ UNCHANGED <<user, links, minted, browserVars, handler, historyVars>>

Next ==
    \/ \E h \in Handler :
        \/ \E t \in Tab : StartRefresh(h, t) \/ Login(h, t) \/ StartLogout(h, t)
        \/ \E l \in DOMAIN links : FindLink(h, l)
        \/ ServerProgress(h) \/ Arrive(h) \/ Fail(h)
        \/ SetUserSuspended(h) \/ SetOrgInactive(h) \/ ForgotPassword(h)
    \/ \E t \in Tab : FindNoCookie(t) \/ Reload(t)
    \/ \E s \in DOMAIN sessions : RevokeSession(s) \/ Expire(s)
    \/ Reinstate \/ LockLapses

Spec == Init /\ [][Next]_vars

------------------------------------------------------------------------------
(* Properties                                                              *)

(* The reuse detection never ends the session of a browser that plays by   *)
(* the rules: one tab, however many of its calls expire at once and        *)
(* however logins, logouts and resets cross its refreshes, never sends a   *)
(* token that was rotated.  It takes two tabs that refresh at once, or an  *)
(* answer that was lost.                                                   *)
ReuseMeansCrossing ==
    \A s \in DOMAIN sessions : sessions[s].reused => crossedRefresh \/ faults > 0

(* README: "Sessions are DB-backed so logout/suspension take effect        *)
(* immediately": no refresh that read the session before it was revoked    *)
(* brings it back, nor does a login that still has to bind its token.      *)
RevokedForGood == [][\A s \in DOMAIN sessions : sessions[s].revoked => sessions'[s].revoked]_vars

(* README: reset-password "revokes all sessions".  None that was opened    *)
(* with an older password lives on, but of a login that had compared it    *)
(* already.                                                                *)
ResetEndsSessions ==
    \A s \in DOMAIN sessions :
        sessions[s].password # user.password => sessions[s].revoked \/ sessions[s].late

(* A reset link sets one password, unless it was followed twice at once.   *)
ResetLinksWorkOnce == \A l \in DOMAIN links : resets[l] <= 1 \/ crossedReset

(* README: "5 failed attempts locks the account".  No fewer wrong          *)
(* passwords since a login or a reset cleared the count lock it, and none  *)
(* goes uncounted: it takes a fault, or a second login or a reset during   *)
(* the first, which then counts on from what it read before.               *)
LockedByFailures ==
    ~ crossedLogin =>
        /\ user.locked => wrong >= MaxFailed
        /\ \/ user.failed = wrong
           \/ \E h \in Handler : Awaits(h, "fail") /\ handler[h].seen.failed + 1 = wrong
           \/ faults > 0
==============================================================================
