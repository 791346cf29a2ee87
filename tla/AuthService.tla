----------------------------- MODULE AuthService -----------------------------
(***************************************************************************)
(* The handlers of growasy-api/src/modules/auth/auth.service.ts, one       *)
(* action per awaited call, and the admin calls that end sessions.         *)
(***************************************************************************)
EXTENDS SessionState

------------------------------------------------------------------------------
(* validateCredentials, login                                              *)

(* The account row is read, and what was typed is compared with it. *)
FindByEmail(h) ==
    LET right == handler[h].typed = user.password IN
    /\ Awaits(h, "account")
    /\ handler' = [handler EXCEPT ![h].seen = user,
            ![h].at = CASE user.locked -> "refused"
                        [] ~ user.locked /\ ~ right -> "fail"
                        [] ~ user.locked /\ right /\ user.suspended -> "refused"
                        [] ~ user.locked /\ right /\ ~ user.suspended ->
                            IF user.failed > 0 THEN "clear" ELSE "create"]
    /\ wrong' = IF user.locked \/ right THEN wrong ELSE wrong + 1
    /\ UNCHANGED <<user, sessions, links, minted, browserVars, resets, crossedRefresh, crossedLogin,
                   crossedReset, budgetVars>>

(* Mutant: the account is locked one attempt too early. *)
RegisterFailedLoginEarly(h) ==
    LET attempts == handler[h].seen.failed + 1 IN
    /\ Awaits(h, "fail")
    /\ user' = [user EXCEPT !.failed = attempts, !.locked = attempts + 1 >= MaxFailed]
    /\ Refuse(h)
    /\ UNCHANGED <<sessions, links, minted, browserVars, historyVars, budgetVars>>

(* The count that was read is counted on.  A lock that was seen had passed. *)
RegisterFailedLogin(h) ==
    LET attempts == handler[h].seen.failed + 1 IN
    /\ Awaits(h, "fail")
    /\ user' = [user EXCEPT !.failed = attempts, !.locked = attempts >= MaxFailed]
    /\ Refuse(h)
    /\ UNCHANGED <<sessions, links, minted, browserVars, historyVars, budgetVars>>

ClearFailures(h) ==
    /\ Awaits(h, "clear")
    /\ user' = [user EXCEPT !.failed = 0, !.locked = FALSE]
    /\ wrong' = 0
    /\ Goto(h, "create")
    /\ UNCHANGED <<sessions, links, minted, browserVars, resets, crossedRefresh, crossedLogin,
                   crossedReset, budgetVars>>

(* issueSession: "created with a throwaway hash first because the refresh  *)
(* JWT payload needs the session id".                                      *)
CreateSession(h) ==
    /\ Awaits(h, "create")
    /\ Len(sessions) < MaxSessions
    /\ sessions' = Append(sessions, [revoked |-> FALSE, expired |-> FALSE, hash |-> 0, reused |-> FALSE,
            password |-> handler[h].seen.password, late |-> handler[h].seen.password # user.password])
    /\ handler' = [handler EXCEPT ![h].at = "bind", ![h].session = Len(sessions) + 1]
    /\ UNCHANGED <<user, links, minted, browserVars, historyVars, budgetVars>>

BindToken(h) ==
    /\ Awaits(h, "bind")
    /\ Grant(h)
    /\ sessions' = [sessions EXCEPT ![handler[h].session].hash = minted']
    /\ UNCHANGED <<user, links, browserVars, historyVars, budgetVars>>

------------------------------------------------------------------------------
(* refresh                                                                 *)

FindSession(h) ==
    LET row == sessions[handler[h].session] IN
    /\ Awaits(h, "session")
    /\ Goto(h, CASE row.revoked \/ row.expired -> "refused"
                 [] ~ (row.revoked \/ row.expired) ->
                    IF row.hash # handler[h].token THEN "kill" ELSE "owner")
    /\ UNCHANGED <<user, sessions, links, minted, browserVars, historyVars, budgetVars>>

(* "Token reuse detected (already rotated or stolen)" *)
KillSession(h) ==
    /\ Awaits(h, "kill")
    /\ sessions' = [sessions EXCEPT ![handler[h].session].revoked = TRUE,
                                    ![handler[h].session].reused = TRUE]
    /\ Refuse(h)
    /\ UNCHANGED <<user, links, minted, browserVars, historyVars, budgetVars>>

FindOwner(h) ==
    /\ Awaits(h, "owner")
    /\ IF user.suspended THEN Refuse(h) ELSE Goto(h, "rotate")
    /\ UNCHANGED <<user, sessions, links, minted, browserVars, historyVars, budgetVars>>

(* Mutant: the row that was read is written back, revokedAt and all. *)
RotateWholeRow(h) ==
    /\ Awaits(h, "rotate")
    /\ Grant(h)
    /\ sessions' = [sessions EXCEPT ![handler[h].session].hash = minted',
                                    ![handler[h].session].expired = FALSE,
                                    ![handler[h].session].revoked = FALSE]
    /\ UNCHANGED <<user, links, browserVars, historyVars, budgetVars>>

RotateToken(h) ==
    /\ Awaits(h, "rotate")
    /\ Grant(h)
    /\ sessions' = [sessions EXCEPT ![handler[h].session].hash = minted',
                                    ![handler[h].session].expired = FALSE]
    /\ UNCHANGED <<user, links, browserVars, historyVars, budgetVars>>

------------------------------------------------------------------------------
(* Sessions that are ended on purpose                                      *)

Logout(h) ==
    /\ handler[h].at \in {"logout", "logoutAll"}
    /\ sessions' = Revoked(IF Awaits(h, "logout") THEN {handler[h].session} ELSE DOMAIN sessions)
    /\ Goto(h, "signedOut")
    /\ UNCHANGED <<user, links, minted, browserVars, historyVars, budgetVars>>

(* One session, from the list of devices. *)
RevokeSession(s) ==
    /\ Edit
    /\ s \in DOMAIN sessions
    /\ sessions' = Revoked({s})
    /\ UNCHANGED <<user, links, minted, browserVars, handler, historyVars>>

(* setUserSuspended writes the status and then revokes. *)
SetUserSuspended(h) ==
    /\ Edit
    /\ user' = [user EXCEPT !.suspended = TRUE]
    /\ Begin(h, [Free EXCEPT !.at = "revokeAll"])
    /\ UNCHANGED <<sessions, links, minted, browserVars, historyVars>>

(* setOrgActive revokes the sessions of every member. *)
SetOrgInactive(h) ==
    /\ Edit
    /\ Begin(h, [Free EXCEPT !.at = "revokeAll"])
    /\ UNCHANGED <<user, sessions, links, minted, browserVars, historyVars>>

RevokeAll(h) ==
    /\ Awaits(h, "revokeAll")
    /\ sessions' = Revoked(DOMAIN sessions)
    /\ Done(h)
    /\ UNCHANGED <<user, links, minted, browserVars, historyVars, budgetVars>>

Reinstate ==
    /\ Edit
    /\ user.suspended
    /\ user' = [user EXCEPT !.suspended = FALSE]
    /\ UNCHANGED <<sessions, links, minted, browserVars, handler, historyVars>>

------------------------------------------------------------------------------
(* forgotPassword, resetPassword                                           *)

ForgotPassword(h) ==
    /\ Edit
    /\ ~ user.suspended
    /\ Len(links) < MaxLinks
    /\ Begin(h, [Free EXCEPT !.at = "expireLinks"])
    /\ UNCHANGED <<user, sessions, links, minted, browserVars, historyVars>>

ConsumeOldLinks(h) ==
    /\ Awaits(h, "expireLinks")
    /\ links' = [l \in DOMAIN links |-> TRUE]
    /\ Goto(h, "createLink")
    /\ UNCHANGED <<user, sessions, minted, browserVars, historyVars, budgetVars>>

CreateLink(h) ==
    /\ Awaits(h, "createLink")
    /\ links' = Append(links, FALSE)
    /\ resets' = Append(resets, 0)
    /\ Done(h)
    /\ UNCHANGED <<user, sessions, minted, browserVars, wrong, crossedRefresh, crossedLogin,
                   crossedReset, budgetVars>>

(* The link is looked up; hashing the new password takes its time. *)
FindLink(h, l) ==
    /\ l \in DOMAIN links
    /\ ~ links[l]
    /\ crossedReset' = (crossedReset \/ \E other \in Handler : Awaits(other, "reset"))
    /\ Begin(h, [Free EXCEPT !.at = "reset", !.link = l])
    /\ UNCHANGED <<user, sessions, links, minted, browserVars, wrong, resets, crossedRefresh,
                   crossedLogin, budgetVars>>

ResetUser == [user EXCEPT !.password = @ + 1, !.failed = 0, !.locked = FALSE]

(* Mutant: the sessions are left alone. *)
ResetPasswordOnly(h) ==
    LET l == handler[h].link IN
    /\ Awaits(h, "reset")
    /\ links' = [links EXCEPT ![l] = TRUE]
    /\ user' = ResetUser
    /\ resets' = [resets EXCEPT ![l] = @ + 1]
    /\ Done(h)
    /\ UNCHANGED <<sessions, minted, browserVars, wrong, crossedRefresh, crossedLogin, crossedReset,
                   budgetVars>>

(* Mutant: the link stays good. *)
ResetAndKeepLink(h) ==
    LET l == handler[h].link IN
    /\ Awaits(h, "reset")
    /\ user.password < MaxLinks + 2
    /\ user' = ResetUser
    /\ sessions' = Revoked(DOMAIN sessions)
    /\ resets' = [resets EXCEPT ![l] = @ + 1]
    /\ Done(h)
    /\ UNCHANGED <<links, minted, browserVars, wrong, crossedRefresh, crossedLogin, crossedReset,
                   budgetVars>>

(* One transaction. *)
ResetPassword(h) ==
    LET l == handler[h].link IN
    /\ Awaits(h, "reset")
    /\ links' = [links EXCEPT ![l] = TRUE]
    /\ user' = ResetUser
    /\ sessions' = Revoked(DOMAIN sessions)
    /\ resets' = [resets EXCEPT ![l] = @ + 1]
    /\ wrong' = 0
    /\ crossedLogin' = (crossedLogin \/ UnderWay("login") # {})
    /\ Done(h)
    /\ UNCHANGED <<minted, browserVars, crossedRefresh, crossedReset, budgetVars>>

ServerProgress(h) ==
    \/ FindByEmail(h) \/ RegisterFailedLogin(h) \/ ClearFailures(h) \/ CreateSession(h) \/ BindToken(h)
    \/ FindSession(h) \/ KillSession(h) \/ FindOwner(h) \/ RotateToken(h)
    \/ Logout(h) \/ RevokeAll(h)
    \/ ConsumeOldLinks(h) \/ CreateLink(h) \/ ResetPassword(h)
==============================================================================
