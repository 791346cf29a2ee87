----------------------------- MODULE SessionState -----------------------------
(***************************************************************************)
(* One user's account, sessions and reset links (growasy-api               *)
(* src/modules/auth), and the tabs of the one browser they use, which      *)
(* share its refresh cookie (growasy-web).                                 *)
(*                                                                         *)
(* A refresh token is the number under which it was minted; 0 is the       *)
(* throwaway hash of a session that has no token yet.  A password is the   *)
(* number of times it was changed; 0 is any wrong one.                     *)
(***************************************************************************)
EXTENDS Integers, Sequences, FiniteSets

CONSTANTS
    Handler,            \* concurrent requests
    Tab, NoTab,         \* of the browser; NoTab: nobody waits for the answer
    MaxFailed,          \* MAX_FAILED_LOGIN_ATTEMPTS
    MaxSessions,        \* bounds: sessions ever created,
    MaxLinks,           \* reset links ever mailed,
    MaxMinted,          \* refresh tokens ever minted,
    MaxWrong,           \* wrong passwords ever typed,
    MaxUpsets           \* faults, and what users and admins do

ASSUME SessionAssumption ==
    /\ NoTab \notin Tab
    /\ {MaxFailed, MaxSessions, MaxLinks, MaxMinted, MaxWrong, MaxUpsets} \subseteq Nat
    /\ MaxFailed > 0

VARIABLES
    user,               \* the user row
    sessions,           \* session rows, in the order they were created
    links,              \* password_reset_tokens: was each consumed
    minted,             \* refresh tokens minted so far
    cookie,             \* the browser's refresh cookie
    tab,                \* what each tab knows of its session
    handler,            \* what each handler awaits, and its locals
    \* History, read by no action of the code
    wrong,              \* wrong passwords since the count was cleared
    resets,             \* passwords set through each link
    crossedRefresh, crossedLogin, crossedReset, \* two of the kind were under way at once
    faults, edits

browserVars == <<cookie, tab>>
historyVars == <<wrong, resets, crossedRefresh, crossedLogin, crossedReset>>
budgetVars == <<faults, edits>>
vars == <<user, sessions, links, minted, browserVars, handler, historyVars, budgetVars>>

User == [suspended : BOOLEAN, password : Nat \ {0}, failed : Nat, locked : BOOLEAN]

(* History: reused, the reuse detection ended it; password, what it was    *)
(* opened with; late, that was changed before the row was created.         *)
Session == [revoked : BOOLEAN, expired : BOOLEAN, hash : Nat,
            reused : BOOLEAN, password : Nat, late : BOOLEAN]

NoCookie == [session |-> 0, token |-> 0]

LoginStep == {"account", "fail", "clear", "create", "bind"}
RefreshStep == {"session", "kill", "owner", "rotate"}

(* An answer is on its way: granted carries a cookie, signedOut clears it. *)
Answer == {"granted", "refused", "signedOut"}

HandlerState == [at : {"idle", "logout", "logoutAll", "revokeAll", "expireLinks", "createLink", "reset"}
                      \cup LoginStep \cup RefreshStep \cup Answer,
                 for : {"none", "login", "refresh", "logout"},
                 tab : Tab \cup {NoTab}, session : Nat, token : Nat, typed : Nat, link : Nat,
                 seen : User]

NewUser == [suspended |-> FALSE, password |-> 1, failed |-> 0, locked |-> FALSE]

Free == [at |-> "idle", for |-> "none", tab |-> NoTab, session |-> 0, token |-> 0, typed |-> 0,
         link |-> 0, seen |-> NewUser]

TabState == [at : {"unknown", "waiting", "ready", "out"}, session : Nat]

SessionsTypeOK ==
    /\ user \in User
    /\ sessions \in Seq(Session)
    /\ links \in Seq(BOOLEAN)
    /\ minted \in Nat
    /\ cookie \in [session : 0..Len(sessions), token : 0..minted]
    /\ tab \in [Tab -> TabState]
    /\ handler \in [Handler -> HandlerState]
    /\ wrong \in Nat
    /\ resets \in Seq(Nat) /\ Len(resets) = Len(links)
    /\ {crossedRefresh, crossedLogin, crossedReset} \subseteq BOOLEAN
    /\ faults \in 0..MaxUpsets /\ edits \in 0..MaxUpsets

(* The user has an account and its tabs were just opened. *)
Init ==
    /\ user = NewUser
    /\ sessions = <<>> /\ links = <<>> /\ minted = 0
    /\ cookie = NoCookie
    /\ tab = [t \in Tab |-> [at |-> "unknown", session |-> 0]]
    /\ handler = [h \in Handler |-> Free]
    /\ wrong = 0 /\ resets = <<>>
    /\ crossedRefresh = FALSE /\ crossedLogin = FALSE /\ crossedReset = FALSE
    /\ faults = 0 /\ edits = 0

------------------------------------------------------------------------------
Awaits(h, step) == handler[h].at = step
Goto(h, step) == handler' = [handler EXCEPT ![h].at = step]
Done(h) == handler' = [handler EXCEPT ![h] = Free]
Begin(h, state) == Awaits(h, "idle") /\ handler' = [handler EXCEPT ![h] = state]
UnderWay(for) == {h \in Handler : handler[h].for = for}
Refuse(h) == Goto(h, "refused")

(* Mutant: nothing tells a token from the next one (no jti). *)
GrantAgain(h) ==
    /\ minted < MaxMinted
    /\ minted' = minted
    /\ handler' = [handler EXCEPT ![h].at = "granted", ![h].token = minted + 1]

(* The answer carries a new refresh token, the one the row now holds. *)
Grant(h) ==
    /\ minted < MaxMinted
    /\ minted' = minted + 1
    /\ handler' = [handler EXCEPT ![h].at = "granted", ![h].token = minted + 1]

Revoked(which) == [s \in DOMAIN sessions |->
    IF s \in which THEN [sessions[s] EXCEPT !.revoked = TRUE] ELSE sessions[s]]

Fault == faults + edits < MaxUpsets /\ faults' = faults + 1 /\ UNCHANGED edits
Edit == faults + edits < MaxUpsets /\ edits' = edits + 1 /\ UNCHANGED faults
==============================================================================
