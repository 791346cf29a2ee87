--------------------------- MODULE WebSessionsProofs ---------------------------
(***************************************************************************)
(* Proofs about WebSessions, for any number of tabs and concurrent         *)
(* requests, any limit of failed logins and any bounds.                    *)
(***************************************************************************)
EXTENDS WebSessions, SequenceTheorems, TLAPS

(* What a handler in state s has in hand at each of its awaits. *)
Fits(s) ==
    /\ s.at \in LoginStep => s.for = "login"
    /\ s.at \in RefreshStep => s.for = "refresh"
    /\ s.at \in RefreshStep \cup {"bind", "granted"} => s.session \in DOMAIN sessions
    /\ s.at = "granted" => s.for \in {"login", "refresh"} /\ s.token \in 1..minted
    /\ s.at = "reset" => s.link \in DOMAIN links
    /\ s.for = "none" => s.tab = NoTab

(* The browser has no cookie, or one of a session. *)
CookieFits == cookie = NoCookie \/ (cookie.session \in DOMAIN sessions /\ cookie.token \in 1..minted)

HandlersFit ==
    /\ handler \in [Handler -> HandlerState]
    /\ \A h \in Handler : Fits(handler[h])

TablesTyped ==
    /\ user \in User
    /\ sessions \in Seq(Session)
    /\ links \in Seq(BOOLEAN)
    /\ minted \in Nat
    /\ tab \in [Tab -> TabState]
    /\ wrong \in Nat
    /\ resets \in Seq(Nat) /\ Len(resets) = Len(links)
    /\ {crossedRefresh, crossedLogin, crossedReset} \subseteq BOOLEAN
    /\ faults \in 0..MaxUpsets /\ edits \in 0..MaxUpsets

CookieTyped == cookie \in [session : Nat, token : Nat] /\ CookieFits

SessionsTypes == TablesTyped /\ HandlersFit /\ CookieTyped

LEMMA TypesEnough == SessionsTypes => SessionsTypeOK
<1> SUFFICES ASSUME SessionsTypes PROVE SessionsTypeOK
  OBVIOUS
<1>1. cookie \in [session : 0..Len(sessions), token : 0..minted]
  BY DEF SessionsTypes, CookieTyped, CookieFits, NoCookie, TablesTyped
<1>2. QED
  BY <1>1 DEF SessionsTypes, TablesTyped, HandlersFit, SessionsTypeOK

------------------------------------------------------------------------------
(* A step of one handler keeps what the others have in hand: sessions and  *)
(* links are added and never taken away.                                   *)
Grows == /\ DOMAIN sessions \subseteq DOMAIN sessions'
         /\ DOMAIN links \subseteq DOMAIN links'
         /\ minted \in Nat /\ minted' \in Nat /\ minted <= minted'

LEMMA FreeFits == Free \in HandlerState /\ Fits(Free) /\ Fits(Free)'
BY DEF Free, Fits, HandlerState, NewUser, User, LoginStep, RefreshStep

LEMMA StaysFit ==
    ASSUME Grows, NEW s \in HandlerState, Fits(s)
    PROVE  Fits(s)'
BY DEF Fits, Grows, HandlerState

LEMMA HandlerMoves ==
    ASSUME HandlersFit, Grows, NEW h \in Handler, NEW r \in HandlerState, Fits(r)',
           handler' = [handler EXCEPT ![h] = r]
    PROVE  HandlersFit'
<1>1. handler' \in [Handler -> HandlerState]
  BY DEF HandlersFit
<1>2. \A x \in Handler : handler'[x] = IF x = h THEN r ELSE handler[x]
  BY DEF HandlersFit
<1>3. \A x \in Handler : Fits(handler[x])'
  <2>1. SUFFICES ASSUME NEW x \in Handler PROVE Fits(handler[x])'
    OBVIOUS
  <2>2. PICK s \in HandlerState : s = handler'[x]
    BY <1>1
  <2>3. Fits(s)'
    BY <1>2, <2>2, StaysFit DEF HandlersFit
  <2>4. QED
    BY <2>2, <2>3
<1>4. QED
  BY <1>1, <1>3 DEF HandlersFit

LEMMA HandlerEnds ==
    ASSUME HandlersFit, Grows, NEW h \in Handler, Done(h)
    PROVE  HandlersFit'
BY HandlerMoves, FreeFits DEF Done

(* The steps of a handler that need nothing new in hand. *)
LEMMA HandlerGoes ==
    ASSUME HandlersFit, Grows, NEW h \in Handler, NEW step,
           \/ step = "refused"
           \/ handler[h].at = "clear" /\ step = "create"
           \/ handler[h].at = "session" /\ step \in {"kill", "owner"}
           \/ handler[h].at = "owner" /\ step = "rotate"
           \/ handler[h].at \in {"logout", "logoutAll"} /\ step = "signedOut"
           \/ handler[h].at = "expireLinks" /\ step = "createLink",
           Goto(h, step)
    PROVE  HandlersFit'
<1> USE DEF LoginStep, RefreshStep, Answer
<1>1. handler[h] \in HandlerState /\ Fits(handler[h])
  BY DEF HandlersFit
<1>2. [handler[h] EXCEPT !.at = step] \in HandlerState
  BY <1>1 DEF HandlerState
<1>3. PICK r \in HandlerState : r = [handler[h] EXCEPT !.at = step]
  BY <1>2
<1>4. /\ r.at = step /\ r.for = handler[h].for /\ r.tab = handler[h].tab
      /\ r.session = handler[h].session
  BY <1>1, <1>3 DEF HandlerState
<1>5. Fits(r)'
  BY <1>1, <1>4 DEF Fits, Grows
<1>6. handler' = [handler EXCEPT ![h] = r]
  BY <1>3 DEF Goto
<1>7. QED
  BY <1>5, <1>6, HandlerMoves

(* An answer that carries the session and the token that was minted. *)
LEMMA HandlerGrants ==
    ASSUME HandlersFit, Grows, NEW h \in Handler, handler[h].at \in {"bind", "rotate"}, Grant(h)
    PROVE  HandlersFit'
<1> USE DEF LoginStep, RefreshStep, Answer
<1>1. handler[h] \in HandlerState /\ Fits(handler[h]) /\ minted \in Nat /\ minted' = minted + 1
  BY DEF HandlersFit, Grant, Grows
<1>2. [handler[h] EXCEPT !.at = "granted", !.token = minted + 1] \in HandlerState
  <2>1. PICK token \in Nat : token = minted + 1
    BY <1>1
  <2>2. [handler[h] EXCEPT !.at = "granted", !.token = token] \in HandlerState
    BY <1>1 DEF HandlerState
  <2>3. QED
    BY <2>1, <2>2
<1>3. PICK r \in HandlerState : r = [handler[h] EXCEPT !.at = "granted", !.token = minted + 1]
  BY <1>2
<1>4. /\ r.at = "granted" /\ r.for = handler[h].for /\ r.tab = handler[h].tab
      /\ r.session = handler[h].session /\ r.token = minted'
  BY <1>1, <1>3 DEF HandlerState
<1>5. Fits(r)'
  BY <1>1, <1>4 DEF Fits, Grows
<1>6. handler' = [handler EXCEPT ![h] = r]
  BY <1>3 DEF Grant
<1>7. QED
  BY <1>5, <1>6, HandlerMoves

------------------------------------------------------------------------------
LEMMA Budgets ==
    ASSUME TablesTyped, Edit \/ Fault
    PROVE  faults' \in 0..MaxUpsets /\ edits' \in 0..MaxUpsets
BY SessionAssumption DEF TablesTyped, Edit, Fault

LEMMA SessionRows ==
    ASSUME TablesTyped
    PROVE  /\ sessions \in [1..Len(sessions) -> Session] /\ Len(sessions) \in Nat
           /\ \A f : f \in [1..Len(sessions) -> Session] => f \in Seq(Session) /\ DOMAIN f = DOMAIN sessions
<1>1. sessions \in [1..Len(sessions) -> Session] /\ Len(sessions) \in Nat
  BY LenProperties DEF TablesTyped
<1>2. QED
  BY <1>1, SeqDef

LEMMA LinkRows ==
    ASSUME TablesTyped
    PROVE  /\ links \in [1..Len(links) -> BOOLEAN] /\ Len(links) \in Nat
           /\ resets \in [1..Len(links) -> Nat]
<1>1. QED
  BY LenProperties DEF TablesTyped

(* The rows that are revoked. *)
LEMMA RevokedRows ==
    ASSUME TablesTyped, NEW which
    PROVE  Revoked(which) \in Seq(Session) /\ DOMAIN Revoked(which) = DOMAIN sessions
<1>1. \A s \in 1..Len(sessions) : [sessions[s] EXCEPT !.revoked = TRUE] \in Session
  BY SessionRows DEF Session
<1>2. DOMAIN sessions = 1..Len(sessions)
  BY SessionRows
<1>3. Revoked(which) \in [1..Len(sessions) -> Session]
  BY <1>1, <1>2, SessionRows DEF Revoked
<1>4. QED
  BY <1>3, SessionRows

(* A row that is written keeps its type. *)
LEMMA RowWritten ==
    ASSUME TablesTyped, NEW s, NEW hash \in Nat
    PROVE  \A f : \/ f = [sessions EXCEPT ![s].hash = hash]
                 \/ f = [sessions EXCEPT ![s].hash = hash, ![s].expired = FALSE]
                 \/ f = [sessions EXCEPT ![s].revoked = TRUE, ![s].reused = TRUE]
                 \/ f = [sessions EXCEPT ![s].expired = TRUE]
                 => f \in Seq(Session) /\ DOMAIN f = DOMAIN sessions
<1>1. sessions \in [1..Len(sessions) -> Session]
  BY SessionRows
<1>2. CASE s \notin 1..Len(sessions)
  BY <1>1, <1>2, SessionRows
<1>3. CASE s \in 1..Len(sessions)
  <2>1. sessions[s] \in Session
    BY <1>1, <1>3
  <2>2. /\ [sessions[s] EXCEPT !.hash = hash] \in Session
        /\ [sessions[s] EXCEPT !.hash = hash, !.expired = FALSE] \in Session
        /\ [sessions[s] EXCEPT !.revoked = TRUE, !.reused = TRUE] \in Session
        /\ [sessions[s] EXCEPT !.expired = TRUE] \in Session
    BY <2>1 DEF Session
  <2>3. \A row \in Session : /\ [sessions EXCEPT ![s] = row] \in Seq(Session)
                             /\ DOMAIN [sessions EXCEPT ![s] = row] = DOMAIN sessions
    BY <1>1, SessionRows
  <2>4. /\ [sessions EXCEPT ![s].hash = hash] = [sessions EXCEPT ![s] = [sessions[s] EXCEPT !.hash = hash]]
        /\ [sessions EXCEPT ![s].hash = hash, ![s].expired = FALSE] =
             [sessions EXCEPT ![s] = [sessions[s] EXCEPT !.hash = hash, !.expired = FALSE]]
        /\ [sessions EXCEPT ![s].revoked = TRUE, ![s].reused = TRUE] =
             [sessions EXCEPT ![s] = [sessions[s] EXCEPT !.revoked = TRUE, !.reused = TRUE]]
        /\ [sessions EXCEPT ![s].expired = TRUE] =
             [sessions EXCEPT ![s] = [sessions[s] EXCEPT !.expired = TRUE]]
    BY <1>1, <1>3
  <2>5. QED
    BY <2>2, <2>3, <2>4
<1>4. QED
  BY <1>2, <1>3

LEMMA CookieStays ==
    ASSUME CookieTyped, Grows, UNCHANGED cookie
    PROVE  CookieTyped'
BY DEF CookieTyped, CookieFits, Grows

(* No step leaves the types, nor a handler without what its next await     *)
(* reads.                                                                  *)
LEMMA TypeStep ==
    ASSUME SessionsTypes, [Next]_vars
    PROVE  SessionsTypes'
<1> USE DEF browserVars, historyVars, budgetVars
<1>0. TablesTyped /\ HandlersFit /\ CookieTyped
  BY DEF SessionsTypes
<1> DEFINE Kept == TablesTyped' /\ HandlersFit' /\ CookieTyped'
<1> SUFFICES Kept
  BY DEF SessionsTypes
<1>a. \A h \in Handler : handler[h] \in HandlerState /\ Fits(handler[h])
  BY <1>0 DEF HandlersFit
<1>b. ASSUME UNCHANGED <<sessions, links, minted>> PROVE Grows
  BY <1>0, <1>b DEF Grows, TablesTyped
<1>c. ASSUME UNCHANGED <<sessions, links, minted, cookie>>, HandlersFit', TablesTyped' PROVE Kept
  BY <1>0, <1>b, <1>c, CookieStays
<1>1. ASSUME NEW h \in Handler, NEW t \in Tab, StartRefresh(h, t)
      PROVE  Kept
  <2>1. cookie.session \in DOMAIN sessions /\ cookie.session \in Nat /\ cookie.token \in Nat
    BY <1>0, <1>1 DEF StartRefresh, CookieTyped, CookieFits
  <2>2. PICK r : r = [Free EXCEPT !.at = "session", !.for = "refresh", !.tab = t,
                                  !.session = cookie.session, !.token = cookie.token]
    OBVIOUS
  <2>3. UNCHANGED <<user, sessions, links, minted, cookie, wrong, resets, crossedLogin, crossedReset, budgetVars>>
    BY <1>1 DEF StartRefresh
  <2>4. r \in HandlerState /\ Fits(r)'
    <3>1. r \in HandlerState
      BY <2>1, <2>2, <2>3, FreeFits DEF HandlerState, LoginStep, RefreshStep
    <3>2. Fits(r)'
      BY <2>1, <2>2, <2>3, SessionAssumption DEF Fits, Free, LoginStep, RefreshStep
    <3>3. QED
      BY <3>1, <3>2
  <2>5. handler' = [handler EXCEPT ![h] = r]
    BY <1>1, <2>2 DEF StartRefresh, Begin
  <2>6. HandlersFit'
    BY <1>0, <1>b, <2>3, <2>4, <2>5, HandlerMoves
  <2>7. tab' \in [Tab -> TabState] /\ crossedRefresh' \in BOOLEAN
    BY <1>0, <1>1 DEF StartRefresh, TablesTyped, TabState
  <2>8. TablesTyped'
    BY <1>0, <2>3, <2>7 DEF TablesTyped
  <2>9. QED
    BY <1>c, <2>3, <2>6, <2>8
<1>2. ASSUME NEW h \in Handler, NEW t \in Tab, Login(h, t)
      PROVE  Kept
  <2>1. PICK typed \in {0, user.password} :
          Begin(h, [Free EXCEPT !.at = "account", !.for = "login", !.tab = t, !.typed = typed])
    BY <1>2 DEF Login
  <2>2. typed \in Nat
    BY <1>0 DEF TablesTyped, User
  <2>3. PICK r : r = [Free EXCEPT !.at = "account", !.for = "login", !.tab = t, !.typed = typed]
    OBVIOUS
  <2>4. UNCHANGED <<user, sessions, links, minted, cookie, wrong, resets, crossedRefresh, crossedReset, budgetVars>>
    BY <1>2 DEF Login
  <2>5. r \in HandlerState /\ Fits(r)'
    <3>1. r \in HandlerState
      BY <2>2, <2>3, FreeFits DEF HandlerState, LoginStep, RefreshStep
    <3>2. Fits(r)'
      BY <2>2, <2>3, SessionAssumption DEF Fits, Free, LoginStep, RefreshStep
    <3>3. QED
      BY <3>1, <3>2
  <2>6. handler' = [handler EXCEPT ![h] = r]
    BY <2>1, <2>3 DEF Begin
  <2>7. HandlersFit'
    BY <1>0, <1>b, <2>4, <2>5, <2>6, HandlerMoves
  <2>8. tab' \in [Tab -> TabState] /\ crossedLogin' \in BOOLEAN
    BY <1>0, <1>2 DEF Login, TablesTyped, TabState
  <2>9. TablesTyped'
    BY <1>0, <2>4, <2>8 DEF TablesTyped
  <2>10. QED
    BY <1>c, <2>4, <2>7, <2>9
<1>3. ASSUME NEW h \in Handler, NEW t \in Tab, StartLogout(h, t)
      PROVE  Kept
  <2>1. PICK step \in {"logout", "logoutAll"} :
          Begin(h, [Free EXCEPT !.at = step, !.for = "logout", !.tab = t, !.session = tab[t].session])
    BY <1>3 DEF StartLogout
  <2>2. tab[t].session \in Nat
    BY <1>0 DEF TablesTyped, TabState
  <2>3. PICK r : r = [Free EXCEPT !.at = step, !.for = "logout", !.tab = t, !.session = tab[t].session]
    OBVIOUS
  <2>4. UNCHANGED <<user, sessions, links, minted, cookie, historyVars>> /\ Edit
    BY <1>3 DEF StartLogout
  <2>5. r \in HandlerState /\ Fits(r)'
    <3>1. r \in HandlerState
      BY <2>2, <2>3, FreeFits DEF HandlerState, LoginStep, RefreshStep
    <3>2. Fits(r)'
      BY <2>2, <2>3, SessionAssumption DEF Fits, Free, LoginStep, RefreshStep
    <3>3. QED
      BY <3>1, <3>2
  <2>6. handler' = [handler EXCEPT ![h] = r]
    BY <2>1, <2>3 DEF Begin
  <2>7. HandlersFit'
    BY <1>0, <1>b, <2>4, <2>5, <2>6, HandlerMoves
  <2>8. tab' \in [Tab -> TabState]
    BY <1>0, <1>3 DEF StartLogout, TablesTyped, TabState
  <2>9. TablesTyped'
    BY <1>0, <2>4, <2>8, Budgets DEF TablesTyped
  <2>10. QED
    BY <1>c, <2>4, <2>7, <2>9
<1>4. ASSUME NEW h \in Handler, NEW l \in DOMAIN links, FindLink(h, l)
      PROVE  Kept
  <2>1. PICK r : r = [Free EXCEPT !.at = "reset", !.link = l]
    OBVIOUS
  <2>2. UNCHANGED <<user, sessions, links, minted, browserVars, wrong, resets, crossedRefresh,
                    crossedLogin, budgetVars>>
    BY <1>4 DEF FindLink
  <2>3. l \in Nat
    BY <1>0, LinkRows
  <2>4. r \in HandlerState /\ Fits(r)'
    <3>1. r \in HandlerState
      BY <2>1, <2>2, <2>3, FreeFits DEF HandlerState, LoginStep, RefreshStep
    <3>2. Fits(r)'
      BY <2>1, <2>2, <2>3 DEF Fits, Free, LoginStep, RefreshStep
    <3>3. QED
      BY <3>1, <3>2
  <2>5. handler' = [handler EXCEPT ![h] = r]
    BY <1>4, <2>1 DEF FindLink, Begin
  <2>6. HandlersFit'
    BY <1>0, <1>b, <2>2, <2>4, <2>5, HandlerMoves
  <2>7. crossedReset' \in BOOLEAN
    BY <1>4, <1>0 DEF FindLink, TablesTyped
  <2>8. TablesTyped'
    BY <1>0, <2>2, <2>7 DEF TablesTyped
  <2>9. QED
    BY <1>c, <2>2, <2>6, <2>8
<1>5. ASSUME NEW h \in Handler, FindByEmail(h)
      PROVE  Kept
  <2>1. PICK at \in {"refused", "fail", "clear", "create"} :
          handler' = [handler EXCEPT ![h].seen = user, ![h].at = at]
    <3>1. user.locked \in BOOLEAN /\ user.suspended \in BOOLEAN
      BY <1>0 DEF TablesTyped, User
    <3>2. QED
      BY <1>5, <3>1 DEF FindByEmail
  <2>2. [handler[h] EXCEPT !.seen = user, !.at = at] \in HandlerState
    BY <1>0, <1>a DEF HandlerState, TablesTyped, LoginStep, Answer
  <2>3. PICK r \in HandlerState : r = [handler[h] EXCEPT !.seen = user, !.at = at]
    BY <2>2
  <2>4. UNCHANGED <<user, sessions, links, minted, browserVars, resets, crossedRefresh, crossedLogin,
                    crossedReset, budgetVars>> /\ handler[h].at = "account"
    BY <1>5 DEF FindByEmail, Awaits
  <2>5. r.at = at /\ r.for = handler[h].for /\ r.tab = handler[h].tab
    BY <1>a, <2>3 DEF HandlerState
  <2>6. Fits(r)'
    BY <1>a, <2>4, <2>5 DEF Fits, LoginStep, RefreshStep
  <2>7. handler' = [handler EXCEPT ![h] = r]
    BY <2>1, <2>3
  <2>8. HandlersFit'
    BY <1>0, <1>b, <2>4, <2>6, <2>7, HandlerMoves
  <2>9. wrong' \in Nat
    BY <1>0, <1>5 DEF FindByEmail, TablesTyped
  <2>10. TablesTyped'
    BY <1>0, <2>4, <2>9 DEF TablesTyped
  <2>11. QED
    BY <1>c, <2>4, <2>8, <2>10
<1>6. ASSUME NEW h \in Handler, RegisterFailedLogin(h)
      PROVE  Kept
  <2>1. UNCHANGED <<sessions, links, minted, browserVars, historyVars, budgetVars>> /\ Goto(h, "refused")
    BY <1>6 DEF RegisterFailedLogin, Refuse
  <2>2. handler[h].seen.failed + 1 \in Nat
    BY <1>a DEF HandlerState, User
  <2>3. user' \in User
    <3>1. PICK attempts \in Nat : attempts = handler[h].seen.failed + 1
      BY <2>2
    <3>2. (attempts >= MaxFailed) \in BOOLEAN
      BY SessionAssumption
    <3>3. PICK locked \in BOOLEAN : locked = (attempts >= MaxFailed)
      BY <3>2, Zenon
    <3>4. user' = [user EXCEPT !.failed = attempts, !.locked = attempts >= MaxFailed]
      BY <1>6, <3>1 DEF RegisterFailedLogin
    <3>5. user' = [user EXCEPT !.failed = attempts, !.locked = locked]
      BY <3>3, <3>4, Zenon
    <3>6. QED
      BY <1>0, <3>5 DEF TablesTyped, User
  <2>4. TablesTyped'
    BY <1>0, <2>1, <2>3 DEF TablesTyped
  <2>5. QED
    BY <1>0, <1>b, <1>c, <2>1, <2>4, HandlerGoes
<1>7. ASSUME NEW h \in Handler, ClearFailures(h)
      PROVE  Kept
  <2>1. /\ UNCHANGED <<sessions, links, minted, browserVars, resets, crossedRefresh, crossedLogin, crossedReset,
                       budgetVars>>
        /\ Goto(h, "create") /\ handler[h].at = "clear" /\ wrong' = 0
    BY <1>7 DEF ClearFailures, Awaits
  <2>2. user' \in User
    BY <1>0, <1>7 DEF ClearFailures, TablesTyped, User
  <2>3. TablesTyped'
    BY <1>0, <2>1, <2>2 DEF TablesTyped
  <2>4. QED
    BY <1>0, <1>b, <1>c, <2>1, <2>3, HandlerGoes
<1>8. ASSUME NEW h \in Handler, CreateSession(h)
      PROVE  Kept
  <2>1. /\ UNCHANGED <<user, links, minted, browserVars, historyVars, budgetVars>>
        /\ handler' = [handler EXCEPT ![h].at = "bind", ![h].session = Len(sessions) + 1]
        /\ handler[h].at = "create"
    BY <1>8 DEF CreateSession, Awaits
  <2>2. PICK row : row = [revoked |-> FALSE, expired |-> FALSE, hash |-> 0, reused |-> FALSE,
            password |-> handler[h].seen.password, late |-> handler[h].seen.password # user.password]
    OBVIOUS
  <2>3. row \in Session /\ sessions' = Append(sessions, row)
    BY <1>8, <1>a, <2>2 DEF CreateSession, Session, HandlerState, User
  <2>4. /\ sessions' \in Seq(Session) /\ DOMAIN sessions' = 1..(Len(sessions) + 1)
        /\ Len(sessions) \in Nat /\ DOMAIN sessions = 1..Len(sessions)
    BY <1>0, <2>3, SessionRows DEF TablesTyped
  <2>5. Grows
    BY <1>0, <2>1, <2>4 DEF Grows, TablesTyped
  <2>6. [handler[h] EXCEPT !.at = "bind", !.session = Len(sessions) + 1] \in HandlerState
    <3>1. PICK n \in Nat : n = Len(sessions) + 1
      BY <2>4
    <3>2. [handler[h] EXCEPT !.at = "bind", !.session = n] \in HandlerState
      BY <1>a DEF HandlerState, LoginStep
    <3>3. QED
      BY <3>1, <3>2
  <2>7. PICK r \in HandlerState : r = [handler[h] EXCEPT !.at = "bind", !.session = Len(sessions) + 1]
    BY <2>6
  <2>8. r.at = "bind" /\ r.for = handler[h].for /\ r.tab = handler[h].tab /\ r.session = Len(sessions) + 1
    BY <1>a, <2>7 DEF HandlerState
  <2>9. Fits(r)'
    BY <1>a, <2>1, <2>4, <2>8 DEF Fits, LoginStep, RefreshStep
  <2>10. handler' = [handler EXCEPT ![h] = r]
    BY <2>1, <2>7
  <2>11. HandlersFit' /\ CookieTyped'
    BY <1>0, <2>1, <2>5, <2>9, <2>10, HandlerMoves, CookieStays
  <2>12. TablesTyped'
    BY <1>0, <2>1, <2>4 DEF TablesTyped
  <2>13. QED
    BY <2>11, <2>12
<1>9. ASSUME NEW h \in Handler, BindToken(h) \/ RotateToken(h)
      PROVE  Kept
  <2>1. /\ UNCHANGED <<user, links, browserVars, historyVars, budgetVars>>
        /\ Grant(h) /\ handler[h].at \in {"bind", "rotate"} /\ minted' = minted + 1
        /\ \/ sessions' = [sessions EXCEPT ![handler[h].session].hash = minted']
           \/ sessions' = [sessions EXCEPT ![handler[h].session].hash = minted',
                                           ![handler[h].session].expired = FALSE]
    BY <1>9 DEF BindToken, RotateToken, Awaits, Grant
  <2>2. minted' \in Nat /\ minted \in Nat /\ minted <= minted'
    BY <1>0, <2>1 DEF TablesTyped
  <2>3. PICK hash \in Nat : hash = minted'
    BY <2>2
  <2>4. sessions' \in Seq(Session) /\ DOMAIN sessions' = DOMAIN sessions
    BY <1>0, <2>1, <2>3, RowWritten
  <2>5. Grows
    BY <2>1, <2>2, <2>4 DEF Grows
  <2>6. HandlersFit' /\ CookieTyped'
    BY <1>0, <2>1, <2>5, HandlerGrants, CookieStays
  <2>7. TablesTyped'
    BY <1>0, <2>1, <2>2, <2>4 DEF TablesTyped
  <2>8. QED
    BY <2>6, <2>7
<1>10. ASSUME NEW h \in Handler, FindSession(h)
       PROVE  Kept
  <2>1. UNCHANGED <<user, sessions, links, minted, browserVars, historyVars, budgetVars>> /\ handler[h].at = "session"
    BY <1>10 DEF FindSession, Awaits
  <2>2. handler[h].session \in DOMAIN sessions
    BY <1>a, <2>1 DEF Fits, RefreshStep
  <2>3. sessions[handler[h].session].revoked \in BOOLEAN /\ sessions[handler[h].session].expired \in BOOLEAN
    BY <1>0, <2>2, SessionRows DEF Session
  <2>4. Goto(h, "refused") \/ Goto(h, "kill") \/ Goto(h, "owner")
    BY <1>10, <2>3 DEF FindSession
  <2>5. TablesTyped'
    BY <1>0, <2>1 DEF TablesTyped
  <2>6. QED
    BY <1>0, <1>b, <1>c, <2>1, <2>4, <2>5, HandlerGoes
<1>11. ASSUME NEW h \in Handler, KillSession(h)
       PROVE  Kept
  <2>1. UNCHANGED <<user, links, minted, browserVars, historyVars, budgetVars>> /\ Goto(h, "refused")
    BY <1>11 DEF KillSession, Refuse
  <2>2. sessions' = [sessions EXCEPT ![handler[h].session].revoked = TRUE, ![handler[h].session].reused = TRUE]
    BY <1>11 DEF KillSession
  <2>3. PICK s : s = handler[h].session
    OBVIOUS
  <2>4. sessions' \in Seq(Session) /\ DOMAIN sessions' = DOMAIN sessions
    BY <1>0, <2>2, <2>3, RowWritten
  <2>5. Grows /\ TablesTyped'
    BY <1>0, <2>1, <2>4 DEF TablesTyped, Grows
  <2>6. QED
    BY <1>0, <2>1, <2>5, HandlerGoes, CookieStays
<1>12. ASSUME NEW h \in Handler, FindOwner(h)
       PROVE  Kept
  <2>1. UNCHANGED <<user, sessions, links, minted, browserVars, historyVars, budgetVars>>
    BY <1>12 DEF FindOwner
  <2>2. TablesTyped'
    BY <1>0, <2>1 DEF TablesTyped
  <2>3. QED
    BY <1>0, <1>b, <1>c, <1>12, <2>1, <2>2, HandlerGoes DEF FindOwner, Awaits, Refuse
<1>13. ASSUME NEW which, sessions' = Revoked(which)
       PROVE  sessions' \in Seq(Session) /\ DOMAIN sessions' = DOMAIN sessions
  BY <1>0, <1>13, RevokedRows
<1>14. ASSUME NEW h \in Handler, Logout(h)
       PROVE  Kept
  <2>1. /\ UNCHANGED <<user, links, minted, browserVars, historyVars, budgetVars>> /\ Goto(h, "signedOut")
        /\ handler[h].at \in {"logout", "logoutAll"}
    BY <1>14 DEF Logout
  <2>2. PICK which : sessions' = Revoked(which)
    BY <1>14 DEF Logout
  <2>3. Grows /\ TablesTyped'
    BY <1>0, <1>13, <2>1, <2>2 DEF TablesTyped, Grows
  <2>4. QED
    BY <1>0, <2>1, <2>3, HandlerGoes, CookieStays
<1>15. ASSUME NEW h \in Handler, RevokeAll(h)
       PROVE  Kept
  <2>1. /\ UNCHANGED <<user, links, minted, browserVars, historyVars, budgetVars>> /\ Done(h)
        /\ sessions' = Revoked(DOMAIN sessions)
    BY <1>15 DEF RevokeAll
  <2>2. Grows /\ TablesTyped'
    BY <1>0, <1>13, <2>1 DEF TablesTyped, Grows
  <2>3. QED
    BY <1>0, <2>1, <2>2, HandlerEnds, CookieStays
<1>16. ASSUME NEW h \in Handler, ConsumeOldLinks(h)
       PROVE  Kept
  <2>1. /\ UNCHANGED <<user, sessions, minted, browserVars, historyVars, budgetVars>>
        /\ Goto(h, "createLink") /\ handler[h].at = "expireLinks"
        /\ links' = [l \in DOMAIN links |-> TRUE]
    BY <1>16 DEF ConsumeOldLinks, Awaits
  <2>2. links' \in [1..Len(links) -> BOOLEAN] /\ Len(links) \in Nat
    BY <1>0, <2>1, LinkRows
  <2>3. links' \in Seq(BOOLEAN) /\ Len(links') = Len(links) /\ DOMAIN links' = DOMAIN links
    BY <2>1, <2>2, SeqDef, LenProperties
  <2>4. Grows /\ TablesTyped'
    BY <1>0, <2>1, <2>3 DEF TablesTyped, Grows
  <2>5. QED
    BY <1>0, <2>1, <2>4, HandlerGoes, CookieStays
<1>17. ASSUME NEW h \in Handler, CreateLink(h)
       PROVE  Kept
  <2>1. /\ UNCHANGED <<user, sessions, minted, browserVars, wrong, crossedRefresh, crossedLogin,
                       crossedReset, budgetVars>> /\ Done(h)
        /\ links' = Append(links, FALSE) /\ resets' = Append(resets, 0)
    BY <1>17 DEF CreateLink
  <2>2. /\ links' \in Seq(BOOLEAN) /\ resets' \in Seq(Nat) /\ Len(resets') = Len(links')
        /\ DOMAIN links \subseteq DOMAIN links'
    BY <1>0, <2>1 DEF TablesTyped
  <2>3. Grows /\ TablesTyped'
    BY <1>0, <2>1, <2>2 DEF TablesTyped, Grows
  <2>4. QED
    BY <1>0, <2>1, <2>3, HandlerEnds, CookieStays
<1>18. ASSUME NEW h \in Handler, ResetPassword(h)
       PROVE  Kept
  <2> DEFINE l == handler[h].link
  <2>1. /\ UNCHANGED <<minted, browserVars, crossedRefresh, crossedReset, budgetVars>> /\ Done(h)
        /\ links' = [links EXCEPT ![l] = TRUE] /\ resets' = [resets EXCEPT ![l] = @ + 1]
        /\ sessions' = Revoked(DOMAIN sessions) /\ user' = ResetUser /\ wrong' = 0
        /\ crossedLogin' = (crossedLogin \/ UnderWay("login") # {})
    BY <1>18 DEF ResetPassword
  <2>2. l \in 1..Len(links)
    BY <1>0, <1>18, <1>a, LinkRows DEF ResetPassword, Awaits, Fits
  <2>3. links' \in [1..Len(links) -> BOOLEAN] /\ resets' \in [1..Len(links) -> Nat] /\ Len(links) \in Nat
    BY <1>0, <2>1, <2>2, LinkRows
  <2>4. /\ links' \in Seq(BOOLEAN) /\ Len(links') = Len(links) /\ DOMAIN links' = DOMAIN links
        /\ resets' \in Seq(Nat) /\ Len(resets') = Len(links)
    <3>1. links' \in Seq(BOOLEAN) /\ resets' \in Seq(Nat)
      BY <2>3, SeqDef
    <3>2. DOMAIN links' = 1..Len(links) /\ DOMAIN resets' = 1..Len(links) /\ DOMAIN links = 1..Len(links)
      BY <1>0, <2>3, LinkRows
    <3>3. QED
      BY <2>3, <3>1, <3>2, LenProperties
  <2>5. user' \in User
    <3>1. user \in User /\ user.password + 1 \in Nat \ {0}
      BY <1>0 DEF TablesTyped, User
    <3>2. QED
      BY <2>1, <3>1 DEF ResetUser, User
  <2>6. crossedLogin' \in BOOLEAN
    BY <1>0, <2>1 DEF TablesTyped
  <2>7. sessions' \in Seq(Session) /\ DOMAIN sessions' = DOMAIN sessions
    BY <1>13, <2>1
  <2>8. Grows /\ TablesTyped'
    BY <1>0, <2>1, <2>4, <2>5, <2>6, <2>7 DEF TablesTyped, Grows
  <2>9. QED
    BY <1>0, <2>1, <2>8, HandlerEnds, CookieStays
<1>19. ASSUME NEW t \in Tab, SignOff(t)
       PROVE  tab' \in [Tab -> TabState]
  BY <1>0, <1>19 DEF SignOff, TablesTyped, TabState
<1>20. ASSUME NEW h \in Handler, Arrive(h)
       PROVE  Kept
  <2> DEFINE s == handler[h]
  <2>1. UNCHANGED <<user, sessions, links, minted, historyVars, budgetVars>> /\ Done(h) /\ s.at \in Answer
    BY <1>20 DEF Arrive
  <2>2. s \in HandlerState /\ Fits(s)
    BY <1>a
  <2>3. CookieTyped' /\ tab' \in [Tab -> TabState]
    <3>1. CASE s.tab = NoTab
      BY <1>0, <1>20, <1>b, <2>1, <3>1, CookieStays DEF Arrive, TablesTyped
    <3>2. CASE s.tab # NoTab /\ s.at = "granted"
      <4>1. /\ cookie' = [session |-> s.session, token |-> s.token]
            /\ tab' = [tab EXCEPT ![s.tab] = [at |-> "ready", session |-> s.session]]
        BY <1>20, <3>2 DEF Arrive, SignOff
      <4>2. s.session \in DOMAIN sessions /\ s.session \in Nat /\ s.token \in 1..minted /\ s.token \in Nat
        BY <2>2, <3>2 DEF Fits, HandlerState
      <4>3. QED
        BY <1>0, <2>1, <4>1, <4>2 DEF CookieTyped, CookieFits, TablesTyped, TabState
    <3>3. CASE s.tab # NoTab /\ s.at # "granted"
      <4>1. s.tab \in Tab
        BY <2>2, <3>3 DEF HandlerState
      <4>2. SignOff(s.tab) /\ (cookie' = NoCookie \/ cookie' = cookie)
        BY <1>20, <3>3 DEF Arrive
      <4>3. CookieTyped'
        BY <1>0, <2>1, <4>2 DEF CookieTyped, CookieFits, NoCookie
      <4>4. QED
        BY <1>19, <4>1, <4>2, <4>3
    <3>4. QED
      BY <3>1, <3>2, <3>3
  <2>4. TablesTyped'
    BY <1>0, <2>1, <2>3 DEF TablesTyped
  <2>5. QED
    BY <1>0, <1>b, <2>1, <2>3, <2>4, HandlerEnds
<1>21. ASSUME NEW h \in Handler, Fail(h)
       PROVE  Kept
  <2>1. UNCHANGED <<user, sessions, links, minted, cookie, historyVars>> /\ Done(h) /\ Fault
    BY <1>21 DEF Fail
  <2>2. handler[h].tab \in Tab \cup {NoTab}
    BY <1>a DEF HandlerState
  <2>3. tab' \in [Tab -> TabState]
    BY <1>0, <1>19, <1>21, <2>2 DEF Fail, TablesTyped
  <2>4. TablesTyped'
    BY <1>0, <2>1, <2>3, Budgets DEF TablesTyped
  <2>5. QED
    BY <1>0, <1>b, <1>c, <2>1, <2>4, HandlerEnds
<1>22. ASSUME NEW h \in Handler, SetUserSuspended(h) \/ SetOrgInactive(h) \/ ForgotPassword(h)
       PROVE  Kept
  <2>1. PICK step \in {"revokeAll", "expireLinks"} : Begin(h, [Free EXCEPT !.at = step])
    BY <1>22 DEF SetUserSuspended, SetOrgInactive, ForgotPassword
  <2>2. PICK r : r = [Free EXCEPT !.at = step]
    OBVIOUS
  <2>3. UNCHANGED <<sessions, links, minted, browserVars, historyVars>> /\ Edit
    BY <1>22 DEF SetUserSuspended, SetOrgInactive, ForgotPassword
  <2>4. r \in HandlerState /\ Fits(r)'
    <3>1. r \in HandlerState
      BY <2>2, FreeFits DEF HandlerState, LoginStep, RefreshStep
    <3>2. Fits(r)'
      BY <2>2 DEF Fits, Free, LoginStep, RefreshStep
    <3>3. QED
      BY <3>1, <3>2
  <2>5. handler' = [handler EXCEPT ![h] = r]
    BY <2>1, <2>2 DEF Begin
  <2>6. HandlersFit'
    BY <1>0, <1>b, <2>3, <2>4, <2>5, HandlerMoves
  <2>7. user' \in User
    BY <1>0, <1>22 DEF SetUserSuspended, SetOrgInactive, ForgotPassword, TablesTyped, User
  <2>8. TablesTyped'
    BY <1>0, <2>3, <2>7, Budgets DEF TablesTyped
  <2>9. QED
    BY <1>c, <2>3, <2>6, <2>8
<1>23. ASSUME UNCHANGED <<sessions, links, minted, handler>> PROVE HandlersFit'
  BY <1>0, <1>23 DEF HandlersFit, Fits
<1>24. ASSUME NEW t \in Tab, FindNoCookie(t)
       PROVE  Kept
  <2>1. TablesTyped'
    BY <1>0, <1>19, <1>24 DEF FindNoCookie, TablesTyped
  <2>2. QED
    BY <1>c, <1>23, <1>24, <2>1 DEF FindNoCookie
<1>25. ASSUME NEW t \in Tab, Reload(t)
       PROVE  Kept
  <2>1. /\ UNCHANGED <<user, sessions, links, minted, cookie, historyVars>> /\ (Fault \/ Edit)
        /\ handler' = [h \in Handler |-> IF handler[h].tab = t THEN [handler[h] EXCEPT !.tab = NoTab]
                                         ELSE handler[h]]
    BY <1>25 DEF Reload
  <2>2. tab' \in [Tab -> TabState]
    BY <1>0, <1>25 DEF Reload, TablesTyped, TabState
  <2>3. TablesTyped'
    BY <1>0, <2>1, <2>2, Budgets DEF TablesTyped
  <2>4. ASSUME NEW h \in Handler PROVE handler'[h] \in HandlerState /\ Fits(handler'[h])
    BY <1>a, <2>1 DEF HandlerState, Fits
  <2>5. HandlersFit'
    BY <2>1, <2>4 DEF HandlersFit, Fits
  <2>6. QED
    BY <1>c, <2>1, <2>3, <2>5
<1>26. ASSUME NEW s \in DOMAIN sessions, RevokeSession(s) \/ Expire(s)
       PROVE  Kept
  <2>1. UNCHANGED <<user, links, minted, browserVars, handler, historyVars>> /\ Edit
    BY <1>26 DEF RevokeSession, Expire
  <2>2. sessions' \in Seq(Session) /\ DOMAIN sessions' = DOMAIN sessions
    BY <1>0, <1>13, <1>26, RowWritten DEF RevokeSession, Expire
  <2>3. Grows /\ TablesTyped'
    BY <1>0, <2>1, <2>2, Budgets DEF TablesTyped, Grows
  <2>4. HandlersFit'
    BY <1>0, <2>1, <2>2 DEF HandlersFit, Fits
  <2>5. QED
    BY <1>0, <2>1, <2>3, <2>4, CookieStays
<1>27. CASE Reinstate \/ LockLapses
  <2>1. UNCHANGED <<sessions, links, minted, browserVars, handler, historyVars>> /\ Edit
    BY <1>27 DEF Reinstate, LockLapses
  <2>2. user' \in User
    BY <1>0, <1>27 DEF Reinstate, LockLapses, TablesTyped, User
  <2>3. TablesTyped'
    BY <1>0, <2>1, <2>2, Budgets DEF TablesTyped
  <2>4. QED
    BY <1>c, <1>23, <2>1, <2>3
<1>28. CASE UNCHANGED vars
  <2>1. TablesTyped'
    BY <1>0, <1>28 DEF vars, TablesTyped
  <2>2. QED
    BY <1>c, <1>23, <1>28, <2>1 DEF vars
<1>29. QED
  BY <1>1, <1>2, <1>3, <1>4, <1>5, <1>6, <1>7, <1>8, <1>9, <1>10, <1>11, <1>12, <1>14, <1>15, <1>16,
     <1>17, <1>18, <1>20, <1>21, <1>22, <1>24, <1>25, <1>26, <1>27, <1>28
     DEF Next, ServerProgress

LEMMA InitTypes == Init => SessionsTypes
<1> SUFFICES ASSUME Init PROVE SessionsTypes
  OBVIOUS
<1>1. TablesTyped
  <2>1. /\ user \in User /\ minted \in Nat /\ wrong \in Nat
        /\ tab \in [Tab -> TabState]
        /\ faults \in 0..MaxUpsets /\ edits \in 0..MaxUpsets
    BY SessionAssumption DEF Init, NewUser, User, TabState
  <2>2. /\ sessions \in Seq(Session) /\ links \in Seq(BOOLEAN) /\ resets \in Seq(Nat)
        /\ Len(resets) = Len(links)
    BY DEF Init
  <2>3. {crossedRefresh, crossedLogin, crossedReset} \subseteq BOOLEAN
    BY DEF Init
  <2>4. QED
    BY <2>1, <2>2, <2>3 DEF TablesTyped
<1>2. HandlersFit
  BY FreeFits DEF Init, HandlersFit
<1>3. CookieTyped
  BY DEF Init, CookieTyped, CookieFits, NoCookie
<1>4. QED
  BY <1>1, <1>2, <1>3 DEF SessionsTypes

------------------------------------------------------------------------------
(* What ends a session, ends it for good                                   *)

RowsKept ==
    \A s \in DOMAIN sessions :
        /\ s \in DOMAIN sessions'
        /\ sessions[s].revoked => sessions'[s].revoked
        /\ sessions'[s].password = sessions[s].password
        /\ sessions'[s].late = sessions[s].late

LEMMA RevokedKeeps ==
    ASSUME TablesTyped, NEW which, sessions' = Revoked(which)
    PROVE  /\ RowsKept /\ DOMAIN sessions' = DOMAIN sessions
           /\ \A s \in which \cap DOMAIN sessions : sessions'[s].revoked
<1>1. \A s \in DOMAIN sessions : sessions[s] \in Session
  BY SessionRows
<1>2. QED
  BY <1>1 DEF Revoked, RowsKept, Session

(* Sessions are created, but none is forgotten; the password changes only  *)
(* together with them.                                                     *)
LEMMA RowsStep ==
    ASSUME SessionsTypes, [Next]_vars
    PROVE  /\ RowsKept
           /\ \/ \E h \in Handler : CreateSession(h) \/ ResetPassword(h)
              \/ DOMAIN sessions' = DOMAIN sessions /\ user'.password = user.password
<1> USE DEF browserVars, historyVars, budgetVars
<1>0. TablesTyped
  BY DEF SessionsTypes
<1>a. \A s \in DOMAIN sessions : sessions[s] \in Session
  BY <1>0, SessionRows
<1> DEFINE Kept == DOMAIN sessions' = DOMAIN sessions /\ user'.password = user.password
<1>1. ASSUME UNCHANGED sessions, user'.password = user.password
      PROVE  RowsKept /\ Kept
  BY <1>1 DEF RowsKept
<1>2. ASSUME NEW h \in Handler, CreateSession(h)
      PROVE  RowsKept
  BY <1>0, <1>2, SessionRows DEF CreateSession, RowsKept
<1>3. ASSUME NEW h \in Handler, BindToken(h) \/ RotateToken(h)
      PROVE  RowsKept /\ Kept
  <2>1. PICK s, hash :
          \/ sessions' = [sessions EXCEPT ![s].hash = hash]
          \/ sessions' = [sessions EXCEPT ![s].hash = hash, ![s].expired = FALSE]
    BY <1>3 DEF BindToken, RotateToken
  <2>2. QED
    BY <1>3, <1>a, <2>1 DEF BindToken, RotateToken, RowsKept, Session
<1>4. ASSUME NEW h \in Handler, KillSession(h)
      PROVE  RowsKept /\ Kept
  BY <1>4, <1>a DEF KillSession, RowsKept, Session
<1>5. ASSUME NEW h \in Handler, Logout(h) \/ RevokeAll(h)
      PROVE  RowsKept /\ Kept
  <2>1. UNCHANGED user /\ \E which : sessions' = Revoked(which)
    BY <1>5 DEF Logout, RevokeAll
  <2>2. QED
    BY <1>0, <2>1, RevokedKeeps
<1>6. ASSUME NEW h \in Handler, ResetPassword(h)
      PROVE  RowsKept
  BY <1>0, <1>6, RevokedKeeps DEF ResetPassword
<1>7. ASSUME NEW s \in DOMAIN sessions, RevokeSession(s)
      PROVE  RowsKept /\ Kept
  BY <1>0, <1>7, RevokedKeeps DEF RevokeSession
<1>8. ASSUME NEW s \in DOMAIN sessions, Expire(s)
      PROVE  RowsKept /\ Kept
  BY <1>8, <1>a DEF Expire, RowsKept, Session
<1>9. ASSUME NEW h \in Handler,
             \/ FindByEmail(h) \/ RegisterFailedLogin(h) \/ ClearFailures(h) \/ FindSession(h)
             \/ FindOwner(h) \/ ConsumeOldLinks(h) \/ CreateLink(h) \/ Arrive(h) \/ Fail(h)
             \/ SetUserSuspended(h) \/ SetOrgInactive(h) \/ ForgotPassword(h)
      PROVE  RowsKept /\ Kept
  <2>1. /\ UNCHANGED sessions
        /\ \/ UNCHANGED user
           \/ \E a, b : user' = [user EXCEPT !.failed = a, !.locked = b]
           \/ user' = [user EXCEPT !.suspended = TRUE]
    BY <1>9 DEF FindByEmail, RegisterFailedLogin, ClearFailures, FindSession, FindOwner,
                ConsumeOldLinks, CreateLink, Arrive, Fail, SetUserSuspended, SetOrgInactive, ForgotPassword
  <2>2. user'.password = user.password
    BY <1>0, <2>1 DEF TablesTyped, User
  <2>3. QED
    BY <1>1, <2>1, <2>2
<1>10. ASSUME NEW h \in Handler, NEW t \in Tab, StartRefresh(h, t) \/ Login(h, t) \/ StartLogout(h, t)
       PROVE  RowsKept /\ Kept
  BY <1>1, <1>10 DEF StartRefresh, Login, StartLogout
<1>11. ASSUME NEW h \in Handler, NEW l \in DOMAIN links, FindLink(h, l)
       PROVE  RowsKept /\ Kept
  BY <1>1, <1>11 DEF FindLink
<1>12. ASSUME NEW t \in Tab, FindNoCookie(t) \/ Reload(t)
       PROVE  RowsKept /\ Kept
  BY <1>1, <1>12 DEF FindNoCookie, Reload
<1>13. ASSUME Reinstate \/ LockLapses PROVE RowsKept /\ Kept
  BY <1>0, <1>1, <1>13 DEF Reinstate, LockLapses, TablesTyped, User
<1>14. ASSUME UNCHANGED vars PROVE RowsKept /\ Kept
  BY <1>1, <1>14 DEF vars
<1> DEFINE Changes == \E h \in Handler : CreateSession(h) \/ ResetPassword(h)
<1>15. RowsKept /\ (Kept \/ Changes)
  <2> HIDE DEF Kept
  <2>1. ASSUME NEW h \in Handler, CreateSession(h) \/ ResetPassword(h) PROVE Changes
    BY <2>1
  <2> HIDE DEF Changes
  <2>2. ASSUME NEW h \in Handler, ServerProgress(h) PROVE RowsKept /\ (Kept \/ Changes)
    BY <2>1, <2>2, <1>2, <1>3, <1>4, <1>5, <1>6, <1>9 DEF ServerProgress
  <2>3. QED
    BY <2>2, <1>7, <1>8, <1>9, <1>10, <1>11, <1>12, <1>13, <1>14 DEF Next
<1>16. QED
  BY <1>15

LEMMA ResetEndsStep ==
    ASSUME SessionsTypes, SessionsTypes', ResetEndsSessions, [Next]_vars
    PROVE  ResetEndsSessions'
<1>0. TablesTyped /\ TablesTyped' /\ RowsKept
  BY RowsStep DEF SessionsTypes
<1>1. CASE DOMAIN sessions' = DOMAIN sessions /\ user'.password = user.password
  BY <1>0, <1>1 DEF ResetEndsSessions, RowsKept
<1>2. ASSUME NEW h \in Handler, CreateSession(h)
      PROVE  ResetEndsSessions'
  <2>1. PICK row :
          /\ row = [revoked |-> FALSE, expired |-> FALSE, hash |-> 0, reused |-> FALSE,
               password |-> handler[h].seen.password, late |-> handler[h].seen.password # user.password]
          /\ user' = user /\ sessions' = Append(sessions, row)
    BY <1>2 DEF CreateSession
  <2>2. /\ DOMAIN sessions' = 1..(Len(sessions) + 1) /\ sessions'[Len(sessions) + 1] = row
        /\ DOMAIN sessions = 1..Len(sessions) /\ Len(sessions) \in Nat
    BY <1>0, <2>1, SessionRows, LenProperties DEF TablesTyped
  <2>3. row.password # user.password => row.late
    BY <2>1
  <2>4. \A s \in DOMAIN sessions' : s \in DOMAIN sessions \/ s = Len(sessions) + 1
    BY <2>2
  <2>5. QED
    BY <1>0, <2>1, <2>2, <2>3, <2>4 DEF ResetEndsSessions, RowsKept
<1>3. ASSUME NEW h \in Handler, ResetPassword(h)
      PROVE  ResetEndsSessions'
  BY <1>0, <1>3, RevokedKeeps DEF ResetPassword, ResetEndsSessions
<1>4. QED
  BY <1>1, <1>2, <1>3, RowsStep

------------------------------------------------------------------------------
(* Reset links                                                             *)

(* A link that is not consumed has set no password.  While no two resets   *)
(* crossed, one is under way at most, and its link has set none either.    *)
LinksInv ==
    /\ SessionsTypes
    /\ \A l \in DOMAIN links : links[l] \/ resets[l] = 0
    /\ ~ crossedReset =>
         /\ \A l \in DOMAIN links : resets[l] <= 1
         /\ \A h \in Handler : handler[h].at = "reset" =>
              /\ resets[handler[h].link] = 0
              /\ \A x \in Handler : handler[x].at = "reset" => x = h

LEMMA LinksStep ==
    ASSUME LinksInv, [Next]_vars
    PROVE  LinksInv'
<1> USE DEF browserVars, historyVars, budgetVars
<1>0. SessionsTypes /\ SessionsTypes' /\ TablesTyped /\ HandlersFit
  BY TypeStep DEF LinksInv, SessionsTypes
<1>a. \A h \in Handler : handler[h] \in HandlerState /\ Fits(handler[h])
  BY <1>0 DEF HandlersFit
<1>b. /\ links \in [1..Len(links) -> BOOLEAN] /\ Len(links) \in Nat /\ DOMAIN links = 1..Len(links)
      /\ resets \in [1..Len(links) -> Nat]
  BY <1>0, LinkRows
<1>1. ASSUME UNCHANGED <<links, resets, crossedReset>>,
             \A x \in Handler : handler'[x].at = "reset" =>
                handler[x].at = "reset" /\ handler'[x].link = handler[x].link
      PROVE  LinksInv'
  BY <1>0, <1>1 DEF LinksInv
<1>2. ASSUME NEW h \in Handler, NEW step, Goto(h, step), step # "reset",
             UNCHANGED <<links, resets, crossedReset>>
      PROVE  LinksInv'
  BY <1>0, <1>1, <1>a, <1>2 DEF Goto, HandlersFit, HandlerState
<1>3. ASSUME NEW h \in Handler, NEW s, handler' = [handler EXCEPT ![h] = s], s.at # "reset",
             UNCHANGED <<links, resets, crossedReset>>
      PROVE  LinksInv'
  BY <1>0, <1>1, <1>3 DEF HandlersFit
<1>4. ASSUME NEW h \in Handler, NEW t \in Tab, StartRefresh(h, t) \/ Login(h, t) \/ StartLogout(h, t)
      PROVE  LinksInv'
  <2>1. CASE StartRefresh(h, t)
    <3>1. \A x \in Handler : handler'[x] = handler[x] \/ handler'[x].at # "reset"
      BY <1>0, <2>1 DEF StartRefresh, Begin, Free, HandlersFit
    <3>2. QED
      BY <1>1, <2>1, <3>1 DEF StartRefresh
  <2>2. CASE Login(h, t)
    <3>1. \A x \in Handler : handler'[x] = handler[x] \/ handler'[x].at # "reset"
      BY <1>0, <2>2 DEF Login, Begin, Free, HandlersFit
    <3>2. QED
      BY <1>1, <2>2, <3>1 DEF Login
  <2>3. CASE StartLogout(h, t)
    <3>1. \A x \in Handler : handler'[x] = handler[x] \/ handler'[x].at # "reset"
      BY <1>0, <2>3 DEF StartLogout, Begin, Free, HandlersFit
    <3>2. QED
      BY <1>1, <2>3, <3>1 DEF StartLogout
  <2>4. QED
    BY <1>4, <2>1, <2>2, <2>3
<1>5. ASSUME NEW h \in Handler, NEW l \in DOMAIN links, FindLink(h, l)
      PROVE  LinksInv'
  <2>1. /\ UNCHANGED <<links, resets>> /\ ~ links[l]
        /\ crossedReset' = (crossedReset \/ \E other \in Handler : handler[other].at = "reset")
        /\ \A x \in Handler : handler'[x] = IF x = h THEN [Free EXCEPT !.at = "reset", !.link = l] ELSE handler[x]
    BY <1>0, <1>5 DEF FindLink, Begin, Awaits, HandlersFit
  <2>2. QED
    BY <1>0, <2>1 DEF LinksInv, Free
<1>6. ASSUME NEW h \in Handler, FindByEmail(h)
      PROVE  LinksInv'
  <2>1. UNCHANGED <<links, resets, crossedReset>>
    BY <1>6 DEF FindByEmail
  <2>2. PICK at \in {"refused", "fail", "clear", "create"} :
          handler' = [handler EXCEPT ![h].seen = user, ![h].at = at]
    BY <1>0, <1>6 DEF FindByEmail, TablesTyped, User
  <2>3. QED
    BY <1>0, <1>1, <1>a, <2>1, <2>2 DEF HandlersFit, HandlerState
<1>7. ASSUME NEW h \in Handler, RegisterFailedLogin(h) \/ ClearFailures(h) \/ KillSession(h) \/ FindOwner(h)
      PROVE  LinksInv'
  BY <1>2, <1>7 DEF RegisterFailedLogin, ClearFailures, KillSession, FindOwner, Refuse
<1>8. ASSUME NEW h \in Handler, FindSession(h)
      PROVE  LinksInv'
  <2>1. handler[h].session \in DOMAIN sessions
    BY <1>8, <1>a DEF FindSession, Awaits, Fits, RefreshStep
  <2>2. sessions[handler[h].session].revoked \in BOOLEAN /\ sessions[handler[h].session].expired \in BOOLEAN
    BY <1>0, <2>1, SessionRows DEF Session
  <2>3. Goto(h, "refused") \/ Goto(h, "kill") \/ Goto(h, "owner")
    BY <1>8, <2>2 DEF FindSession
  <2>4. QED
    BY <1>2, <1>8, <2>3 DEF FindSession
<1>9. ASSUME NEW h \in Handler, CreateSession(h) \/ BindToken(h) \/ RotateToken(h)
      PROVE  LinksInv'
  <2>1. UNCHANGED <<links, resets, crossedReset>>
    BY <1>9 DEF CreateSession, BindToken, RotateToken
  <2>2. \A x \in Handler : handler'[x] = handler[x] \/ handler'[x].at \in {"bind", "granted"}
    BY <1>0, <1>9, <1>a DEF CreateSession, BindToken, RotateToken, Grant, HandlersFit, HandlerState
  <2>3. QED
    BY <1>1, <2>1, <2>2
<1>10. ASSUME NEW h \in Handler, Logout(h)
       PROVE  LinksInv'
  BY <1>2, <1>10 DEF Logout
<1>11. ASSUME NEW h \in Handler, RevokeAll(h) \/ Arrive(h) \/ Fail(h)
       PROVE  LinksInv'
  BY <1>3, <1>11 DEF RevokeAll, Arrive, Fail, Done, Free
<1>12. ASSUME NEW h \in Handler, SetUserSuspended(h) \/ SetOrgInactive(h) \/ ForgotPassword(h)
       PROVE  LinksInv'
  BY <1>3, <1>12 DEF SetUserSuspended, SetOrgInactive, ForgotPassword, Begin, Free
<1>13. ASSUME NEW h \in Handler, ConsumeOldLinks(h)
       PROVE  LinksInv'
  <2>1. /\ UNCHANGED <<resets, crossedReset>> /\ links' = [l \in DOMAIN links |-> TRUE]
        /\ \A x \in Handler : handler'[x] = handler[x] \/ handler'[x].at = "createLink"
    BY <1>0, <1>13, <1>a DEF ConsumeOldLinks, Goto, HandlersFit, HandlerState
  <2>2. QED
    BY <1>0, <2>1 DEF LinksInv
<1>14. ASSUME NEW h \in Handler, CreateLink(h)
       PROVE  LinksInv'
  <2>1. /\ UNCHANGED crossedReset /\ links' = Append(links, FALSE) /\ resets' = Append(resets, 0)
        /\ \A x \in Handler : handler'[x] = IF x = h THEN Free ELSE handler[x]
    BY <1>0, <1>14 DEF CreateLink, Done, HandlersFit
  <2>2. /\ DOMAIN links' = 1..(Len(links) + 1)
        /\ \A l \in 1..Len(links) : links'[l] = links[l] /\ resets'[l] = resets[l]
        /\ links'[Len(links) + 1] = FALSE /\ resets'[Len(links) + 1] = 0
    BY <1>0, <1>b, <2>1 DEF TablesTyped
  <2>3. \A l \in DOMAIN links' : l \in DOMAIN links \/ l = Len(links) + 1
    BY <1>b, <2>2
  <2>4. \A x \in Handler : handler'[x].at = "reset" =>
            handler'[x] = handler[x] /\ handler[x].link \in DOMAIN links
    BY <1>a, <2>1 DEF Free, Fits
  <2>5. \A l \in DOMAIN links' : links'[l] \/ resets'[l] = 0
    BY <1>b, <2>2, <2>3 DEF LinksInv
  <2>6. ~ crossedReset => \A l \in DOMAIN links' : resets'[l] <= 1
    BY <1>b, <2>2, <2>3 DEF LinksInv
  <2>7. ~ crossedReset =>
          \A x \in Handler : handler'[x].at = "reset" =>
              /\ resets'[handler'[x].link] = 0
              /\ \A y \in Handler : handler'[y].at = "reset" => y = x
    BY <1>b, <2>2, <2>4 DEF LinksInv
  <2>8. QED
    BY <1>0, <2>1, <2>5, <2>6, <2>7 DEF LinksInv
<1>15. ASSUME NEW h \in Handler, ResetPassword(h)
       PROVE  LinksInv'
  <2> DEFINE l == handler[h].link
  <2>1. /\ UNCHANGED crossedReset /\ l \in DOMAIN links /\ handler[h].at = "reset"
        /\ links' = [links EXCEPT ![l] = TRUE] /\ resets' = [resets EXCEPT ![l] = @ + 1]
        /\ \A x \in Handler : handler'[x] = IF x = h THEN Free ELSE handler[x]
    BY <1>0, <1>15, <1>a DEF ResetPassword, Awaits, Fits, Done, HandlersFit
  <2>2. /\ DOMAIN links' = DOMAIN links /\ links'[l] /\ resets'[l] = resets[l] + 1
        /\ \A k \in DOMAIN links : k # l => links'[k] = links[k] /\ resets'[k] = resets[k]
    BY <1>b, <2>1
  <2>3. ~ crossedReset => /\ resets'[l] = 1
                          /\ \A x \in Handler : handler'[x].at # "reset"
    BY <1>b, <2>1, <2>2 DEF LinksInv, Free
  <2>4. QED
    BY <1>0, <1>b, <2>1, <2>2, <2>3 DEF LinksInv
<1>16. ASSUME NEW t \in Tab, FindNoCookie(t)
       PROVE  LinksInv'
  BY <1>1, <1>16 DEF FindNoCookie
<1>17. ASSUME NEW t \in Tab, Reload(t)
       PROVE  LinksInv'
  BY <1>1, <1>17, <1>a DEF Reload, HandlerState
<1>18. ASSUME NEW s \in DOMAIN sessions, RevokeSession(s) \/ Expire(s)
       PROVE  LinksInv'
  BY <1>1, <1>18 DEF RevokeSession, Expire
<1>19. CASE Reinstate \/ LockLapses \/ UNCHANGED vars
  BY <1>1, <1>19 DEF Reinstate, LockLapses, vars
<1>20. QED
  BY <1>4, <1>5, <1>6, <1>7, <1>8, <1>9, <1>10, <1>11, <1>12, <1>13, <1>14, <1>15, <1>16, <1>17,
     <1>18, <1>19 DEF Next, ServerProgress

------------------------------------------------------------------------------
(* The lock                                                                *)

(* While no two logins crossed, the count on the row is at most that of    *)
(* the wrong passwords, and so is the one that a login is about to write.  *)
LockInv ==
    /\ SessionsTypes
    /\ ~ crossedLogin =>
         /\ \A h, x \in Handler : handler[h].for = "login" /\ handler[x].for = "login" => h = x
         /\ user.failed <= wrong
         /\ user.locked => wrong >= MaxFailed
         /\ \A h \in Handler : handler[h].at = "fail" => handler[h].seen.failed < wrong

LEMMA LockStep ==
    ASSUME LockInv, [Next]_vars
    PROVE  LockInv'
<1> USE DEF browserVars, historyVars, budgetVars
<1>0. SessionsTypes /\ SessionsTypes' /\ TablesTyped /\ HandlersFit
  BY TypeStep DEF LockInv, SessionsTypes
<1>a. \A h \in Handler : handler[h] \in HandlerState /\ Fits(handler[h])
  BY <1>0 DEF HandlersFit
<1>b. /\ user \in User /\ user.failed \in Nat /\ user.locked \in BOOLEAN /\ wrong \in Nat
      /\ \A h \in Handler : handler[h].seen \in User /\ handler[h].seen.failed \in Nat
  BY <1>0, <1>a DEF TablesTyped, User, HandlerState
<1>1. ASSUME UNCHANGED <<crossedLogin, wrong>>,
             user'.failed = user.failed, user'.locked => user.locked,
             \A x \in Handler :
                /\ handler'[x].for = "login" => handler[x].for = "login"
                /\ handler'[x].at = "fail" => handler[x].at = "fail" /\ handler'[x].seen = handler[x].seen
      PROVE  LockInv'
  BY <1>0, <1>1 DEF LockInv
<1>2. ASSUME NEW h \in Handler, NEW step, Goto(h, step), step # "fail",
             UNCHANGED <<user, crossedLogin, wrong>>
      PROVE  LockInv'
  BY <1>0, <1>1, <1>a, <1>2 DEF Goto, HandlersFit, HandlerState
<1>3. ASSUME NEW h \in Handler, Done(h), UNCHANGED <<user, crossedLogin, wrong>>
      PROVE  LockInv'
  BY <1>0, <1>1, <1>3 DEF Done, Free, HandlersFit
<1>4. ASSUME NEW h \in Handler, NEW t \in Tab, Login(h, t)
      PROVE  LockInv'
  <2>1. /\ UNCHANGED <<user, wrong>> /\ crossedLogin' = (crossedLogin \/ UnderWay("login") # {})
        /\ \A x \in Handler \ {h} : handler'[x] = handler[x]
        /\ handler'[h].at = "account"
    BY <1>0, <1>4 DEF Login, Begin, Free, HandlersFit
  <2>2. ~ crossedLogin' => ~ crossedLogin /\ \A x \in Handler : handler[x].for # "login"
    BY <2>1 DEF UnderWay
  <2>3. QED
    BY <1>0, <2>1, <2>2 DEF LockInv
<1>5. ASSUME NEW h \in Handler, FindByEmail(h)
      PROVE  LockInv'
  <2>1. UNCHANGED <<user, crossedLogin>> /\ handler[h].at = "account"
    BY <1>5 DEF FindByEmail, Awaits
  <2>2. PICK at \in {"refused", "fail", "clear", "create"} :
          /\ handler' = [handler EXCEPT ![h].seen = user, ![h].at = at]
          /\ at = "fail" => wrong' = wrong + 1
          /\ wrong' \in {wrong, wrong + 1}
    BY <1>0, <1>5 DEF FindByEmail, TablesTyped, User
  <2>3. /\ \A x \in Handler \ {h} : handler'[x] = handler[x]
        /\ handler'[h].at = at /\ handler'[h].seen = user /\ handler'[h].for = handler[h].for
    BY <1>0, <1>a, <2>2 DEF HandlersFit, HandlerState
  <2>4. wrong' >= wrong /\ wrong' \in Nat
    BY <1>b, <2>2
  <2>5. ASSUME ~ crossedLogin', NEW x \in Handler, handler'[x].at = "fail"
        PROVE  handler'[x].seen.failed < wrong'
    <3>1. /\ user.failed <= wrong
          /\ handler[x].at = "fail" => handler[x].seen.failed < wrong
      BY <2>1, <2>5 DEF LockInv
    <3>2. CASE x = h
      BY <1>b, <2>2, <2>3, <2>5, <3>1, <3>2
    <3>3. CASE x # h
      <4>1. handler[x].seen.failed < wrong /\ handler'[x].seen = handler[x].seen
        BY <2>3, <2>5, <3>1, <3>3
      <4>2. handler[x].seen.failed \in Nat
        BY <1>b
      <4>3. QED
        BY <1>b, <2>4, <4>1, <4>2
    <3>4. QED
      BY <3>2, <3>3
  <2>6. ~ crossedLogin' =>
          /\ \A x, y \in Handler : handler'[x].for = "login" /\ handler'[y].for = "login" => x = y
          /\ user.failed <= wrong'
    BY <1>b, <2>1, <2>3, <2>4 DEF LockInv
  <2>7. ~ crossedLogin' /\ user.locked => wrong' >= MaxFailed
    BY <1>b, <2>1, <2>4, SessionAssumption DEF LockInv
  <2>8. QED
    BY <1>0, <2>1, <2>5, <2>6, <2>7 DEF LockInv
<1>6. ASSUME NEW h \in Handler, RegisterFailedLogin(h)
      PROVE  LockInv'
  <2>1. /\ UNCHANGED <<wrong, crossedLogin>> /\ handler[h].at = "fail"
        /\ \A x \in Handler : /\ handler'[x].for = handler[x].for
                              /\ handler'[x] = handler[x] \/ handler'[x].at = "refused"
    BY <1>0, <1>6, <1>a DEF RegisterFailedLogin, Awaits, Refuse, Goto, HandlersFit, HandlerState
  <2>2. PICK attempts \in Nat : attempts = handler[h].seen.failed + 1
    BY <1>b
  <2>3. user'.failed = attempts /\ (user'.locked => attempts >= MaxFailed)
    BY <1>6, <1>b, <2>2 DEF RegisterFailedLogin, User
  <2>4. ~ crossedLogin => attempts <= wrong
    BY <1>b, <2>1, <2>2 DEF LockInv
  <2>5. ~ crossedLogin => user'.failed <= wrong /\ (user'.locked => wrong >= MaxFailed)
    BY <1>b, <2>3, <2>4, SessionAssumption
  <2>6. ASSUME ~ crossedLogin', NEW x \in Handler, handler'[x].at = "fail"
        PROVE  handler'[x].seen.failed < wrong'
    <3>1. handler'[x] = handler[x]
      BY <2>1, <2>6
    <3>2. QED
      BY <2>1, <2>6, <3>1 DEF LockInv
  <2>7. ASSUME ~ crossedLogin', NEW x \in Handler, NEW y \in Handler,
               handler'[x].for = "login", handler'[y].for = "login"
        PROVE  x = y
    <3>1. handler[x].for = "login" /\ handler[y].for = "login"
      BY <2>1, <2>7
    <3>2. QED
      BY <2>1, <2>7, <3>1 DEF LockInv
  <2>8. QED
    BY <1>0, <2>1, <2>5, <2>6, <2>7 DEF LockInv
<1>7. ASSUME NEW h \in Handler, ClearFailures(h)
      PROVE  LockInv'
  <2>1. /\ UNCHANGED crossedLogin /\ wrong' = 0 /\ handler[h].at = "clear"
        /\ handler'[h].at = "create"
        /\ \A x \in Handler : /\ handler'[x].for = handler[x].for
                              /\ x # h => handler'[x] = handler[x]
    BY <1>0, <1>7, <1>a DEF ClearFailures, Awaits, Goto, HandlersFit, HandlerState
  <2>2. user'.failed = 0 /\ ~ user'.locked
    BY <1>7, <1>b DEF ClearFailures, User
  <2>3. ASSUME ~ crossedLogin, NEW x \in Handler
        PROVE  handler'[x].at # "fail"
    <3>1. CASE x = h
      BY <2>1, <3>1
    <3>2. CASE x # h
      <4>1. handler[h].for = "login" /\ (handler[x].at = "fail" => handler[x].for = "login")
        BY <1>a, <2>1 DEF Fits, LoginStep
      <4>2. handler[x].at # "fail"
        BY <2>3, <3>2, <4>1 DEF LockInv
      <4>3. handler'[x] = handler[x]
        BY <2>1, <3>2
      <4>4. QED
        BY <4>2, <4>3
    <3>3. QED
      BY <3>1, <3>2
  <2>4. ASSUME ~ crossedLogin, NEW x \in Handler, NEW y \in Handler,
               handler'[x].for = "login", handler'[y].for = "login"
        PROVE  x = y
    <3>1. handler[x].for = "login" /\ handler[y].for = "login"
      BY <2>1, <2>4
    <3>2. QED
      BY <2>4, <3>1 DEF LockInv
  <2>5. user'.failed <= wrong'
    BY <2>1, <2>2
  <2>6. QED
    BY <1>0, <2>1, <2>2, <2>3, <2>4, <2>5 DEF LockInv
<1>8. ASSUME NEW h \in Handler, ResetPassword(h)
      PROVE  LockInv'
  <2>1. /\ crossedLogin' = (crossedLogin \/ UnderWay("login") # {}) /\ wrong' = 0
        /\ \A x \in Handler : handler'[x] = IF x = h THEN Free ELSE handler[x]
    BY <1>0, <1>8 DEF ResetPassword, Done, HandlersFit
  <2>2. user'.failed = 0 /\ ~ user'.locked
    BY <1>8, <1>b DEF ResetPassword, ResetUser, User
  <2>3. ASSUME ~ crossedLogin', NEW x \in Handler
        PROVE  handler'[x].at # "fail" /\ handler'[x].for # "login"
    <3>1. CASE x = h
      BY <2>1, <3>1 DEF Free
    <3>2. CASE x # h
      <4>1. handler[x].for # "login"
        BY <2>1, <2>3 DEF UnderWay
      <4>2. handler[x].at # "fail"
        BY <1>a, <4>1 DEF Fits, LoginStep
      <4>3. QED
        BY <2>1, <3>2, <4>1, <4>2
    <3>3. QED
      BY <3>1, <3>2
  <2>4. QED
    BY <1>0, <2>1, <2>2, <2>3 DEF LockInv
<1>9. ASSUME NEW h \in Handler, FindSession(h)
      PROVE  LockInv'
  <2>1. handler[h].session \in DOMAIN sessions
    BY <1>9, <1>a DEF FindSession, Awaits, Fits, RefreshStep
  <2>2. sessions[handler[h].session].revoked \in BOOLEAN /\ sessions[handler[h].session].expired \in BOOLEAN
    BY <1>0, <2>1, SessionRows DEF Session
  <2>3. Goto(h, "refused") \/ Goto(h, "kill") \/ Goto(h, "owner")
    BY <1>9, <2>2 DEF FindSession
  <2>4. QED
    BY <1>2, <1>9, <2>3 DEF FindSession
<1>10. ASSUME NEW h \in Handler, KillSession(h) \/ FindOwner(h) \/ Logout(h) \/ ConsumeOldLinks(h)
       PROVE  LockInv'
  BY <1>2, <1>10 DEF KillSession, FindOwner, Logout, ConsumeOldLinks, Refuse
<1>11. ASSUME NEW h \in Handler, CreateSession(h) \/ BindToken(h) \/ RotateToken(h)
       PROVE  LockInv'
  <2>1. UNCHANGED <<user, wrong, crossedLogin>>
    BY <1>11 DEF CreateSession, BindToken, RotateToken
  <2>2. \A x \in Handler : /\ handler'[x].for = handler[x].for
                           /\ handler'[x] = handler[x] \/ handler'[x].at \in {"bind", "granted"}
    BY <1>0, <1>11, <1>a DEF CreateSession, BindToken, RotateToken, Grant, HandlersFit, HandlerState
  <2>3. \A x \in Handler : handler'[x].at = "fail" => handler[x].at = "fail" /\ handler'[x] = handler[x]
    BY <2>2
  <2>4. user'.failed = user.failed /\ (user'.locked => user.locked)
    BY <2>1
  <2>5. \A x \in Handler : /\ handler'[x].for = "login" => handler[x].for = "login"
                           /\ handler'[x].at = "fail" => handler[x].at = "fail" /\ handler'[x].seen = handler[x].seen
    BY <2>2, <2>3
  <2>6. UNCHANGED <<crossedLogin, wrong>>
    BY <2>1
  <2>7. QED
    BY <1>1, <2>4, <2>5, <2>6
<1>12. ASSUME NEW h \in Handler, RevokeAll(h) \/ CreateLink(h) \/ Arrive(h) \/ Fail(h)
       PROVE  LockInv'
  BY <1>3, <1>12 DEF RevokeAll, CreateLink, Arrive, Fail
<1>13. ASSUME NEW h \in Handler, NEW t \in Tab, StartRefresh(h, t) \/ StartLogout(h, t)
       PROVE  LockInv'
  <2>1. CASE StartRefresh(h, t)
    BY <1>0, <1>1, <2>1 DEF StartRefresh, Begin, Free, HandlersFit
  <2>2. CASE StartLogout(h, t)
    BY <1>0, <1>1, <2>2 DEF StartLogout, Begin, Free, HandlersFit
  <2>3. QED
    BY <1>13, <2>1, <2>2
<1>14. ASSUME NEW h \in Handler, NEW l \in DOMAIN links, FindLink(h, l)
       PROVE  LockInv'
  BY <1>0, <1>1, <1>14 DEF FindLink, Begin, Free, HandlersFit
<1>15. ASSUME NEW h \in Handler, SetUserSuspended(h) \/ SetOrgInactive(h) \/ ForgotPassword(h)
       PROVE  LockInv'
  <2>1. \A x \in Handler : handler'[x] = handler[x] \/ (handler'[x].for = "none" /\ handler'[x].at # "fail")
    BY <1>0, <1>15 DEF SetUserSuspended, SetOrgInactive, ForgotPassword, Begin, Free, HandlersFit
  <2>2. UNCHANGED <<wrong, crossedLogin>> /\ user'.failed = user.failed /\ user'.locked = user.locked
    BY <1>b, <1>15 DEF SetUserSuspended, SetOrgInactive, ForgotPassword, User
  <2>3. QED
    BY <1>1, <2>1, <2>2
<1>16. ASSUME NEW t \in Tab, FindNoCookie(t)
       PROVE  LockInv'
  BY <1>1, <1>16 DEF FindNoCookie
<1>17. ASSUME NEW t \in Tab, Reload(t)
       PROVE  LockInv'
  BY <1>1, <1>17, <1>a DEF Reload, HandlerState
<1>18. ASSUME NEW s \in DOMAIN sessions, RevokeSession(s) \/ Expire(s)
       PROVE  LockInv'
  BY <1>1, <1>18 DEF RevokeSession, Expire
<1>19. CASE Reinstate \/ LockLapses
  BY <1>1, <1>19, <1>b DEF Reinstate, LockLapses, User
<1>20. CASE UNCHANGED vars
  BY <1>1, <1>20 DEF vars
<1>21. ASSUME NEW h \in Handler, ServerProgress(h)
       PROVE  LockInv'
  BY <1>5, <1>6, <1>7, <1>8, <1>9, <1>10, <1>11, <1>12, <1>21 DEF ServerProgress
<1>22. QED
  BY <1>4, <1>12, <1>13, <1>14, <1>15, <1>16, <1>17, <1>18, <1>19, <1>20, <1>21 DEF Next

(* While no two logins crossed and nothing failed, each wrong password is  *)
(* on the row, or is the one that a login is about to write.               *)
CountInv ==
    ~ crossedLogin /\ faults = 0 =>
      /\ \A h \in Handler : handler[h].at = "fail" => handler[h].seen.failed + 1 = wrong
      /\ user.failed = wrong \/ \E h \in Handler : handler[h].at = "fail"

LEMMA CountStep ==
    ASSUME LockInv, CountInv, [Next]_vars
    PROVE  CountInv'
<1> USE DEF browserVars, historyVars, budgetVars
<1>0. SessionsTypes /\ TablesTyped /\ HandlersFit
  BY DEF LockInv, SessionsTypes
<1>a. \A h \in Handler : handler[h] \in HandlerState /\ Fits(handler[h])
  BY <1>0 DEF HandlersFit
<1>b. /\ user \in User /\ user.failed \in Nat /\ wrong \in Nat /\ faults \in Nat
      /\ crossedLogin \in BOOLEAN
      /\ \A h \in Handler : handler[h].seen \in User /\ handler[h].seen.failed \in Nat
  BY <1>0, <1>a, SessionAssumption DEF TablesTyped, User, HandlerState
<1>c. ASSUME ~ crossedLogin, NEW h \in Handler, handler[h].for = "login", handler[h].at # "fail"
      PROVE  \A x \in Handler : handler[x].at # "fail"
  BY <1>a, <1>c DEF LockInv, Fits, LoginStep
<1>d. CASE Fault
  BY <1>b, <1>d DEF Fault, CountInv
<1>1. ASSUME UNCHANGED <<crossedLogin, wrong>>, faults' = faults, user'.failed = user.failed,
             \A x \in Handler :
                \/ handler[x].at # "fail" /\ handler'[x].at # "fail"
                \/ handler'[x].at = handler[x].at /\ handler'[x].seen = handler[x].seen
      PROVE  CountInv'
  BY <1>1 DEF CountInv
<1>2. ASSUME NEW h \in Handler, NEW step, Goto(h, step), step # "fail", handler[h].at # "fail",
             UNCHANGED <<user, crossedLogin, wrong, faults>>
      PROVE  CountInv'
  BY <1>0, <1>1, <1>a, <1>2 DEF Goto, HandlersFit, HandlerState
<1>3. ASSUME NEW h \in Handler, Done(h), handler[h].at # "fail",
             UNCHANGED <<user, crossedLogin, wrong, faults>>
      PROVE  CountInv'
  BY <1>0, <1>1, <1>3 DEF Done, Free, HandlersFit
<1>4. ASSUME NEW h \in Handler, NEW t \in Tab, Login(h, t)
      PROVE  CountInv'
  <2>1. /\ UNCHANGED <<user, wrong, faults>> /\ (~ crossedLogin' => ~ crossedLogin)
        /\ \A x \in Handler \ {h} : handler'[x] = handler[x]
        /\ handler[h].at = "idle" /\ handler'[h].at = "account"
    BY <1>0, <1>b, <1>4 DEF Login, Begin, Awaits, Free, HandlersFit
  <2>2. QED
    BY <2>1 DEF CountInv
<1>5. ASSUME NEW h \in Handler, FindByEmail(h)
      PROVE  CountInv'
  <2>1. UNCHANGED <<user, crossedLogin, faults>> /\ handler[h].at = "account"
    BY <1>5 DEF FindByEmail, Awaits
  <2>2. PICK at \in {"refused", "fail", "clear", "create"} :
          /\ handler' = [handler EXCEPT ![h].seen = user, ![h].at = at]
          /\ wrong' = IF at = "fail" THEN wrong + 1 ELSE wrong
    BY <1>0, <1>5 DEF FindByEmail, TablesTyped, User
  <2>3. /\ \A x \in Handler \ {h} : handler'[x] = handler[x]
        /\ handler'[h].at = at /\ handler'[h].seen = user
    BY <1>0, <1>a, <2>2 DEF HandlersFit, HandlerState
  <2>4. ASSUME ~ crossedLogin, faults = 0
        PROVE  user.failed = wrong /\ \A x \in Handler : handler[x].at # "fail"
    <3>1. handler[h].for = "login"
      BY <1>a, <2>1 DEF Fits, LoginStep, RefreshStep
    <3>2. QED
      BY <1>c, <2>1, <2>4, <3>1 DEF CountInv
  <2>5. CASE at = "fail"
    <3>1. ASSUME ~ crossedLogin, faults = 0, NEW x \in Handler, handler'[x].at = "fail"
          PROVE  x = h
      BY <2>3, <2>4, <3>1
    <3>2. ~ crossedLogin /\ faults = 0 => handler'[h].seen.failed + 1 = wrong'
      BY <2>2, <2>3, <2>4, <2>5
    <3>3. QED
      BY <2>1, <2>3, <2>5, <3>1, <3>2 DEF CountInv
  <2>6. CASE at # "fail"
    BY <1>b, <2>1, <2>2, <2>3, <2>4, <2>6 DEF CountInv
  <2>7. QED
    BY <2>5, <2>6
<1>6. ASSUME NEW h \in Handler, RegisterFailedLogin(h)
      PROVE  CountInv'
  <2>1. /\ UNCHANGED <<wrong, crossedLogin, faults>> /\ handler[h].at = "fail"
        /\ \A x \in Handler \ {h} : handler'[x] = handler[x]
        /\ handler'[h].at = "refused"
    BY <1>0, <1>6, <1>a DEF RegisterFailedLogin, Awaits, Refuse, Goto, HandlersFit, HandlerState
  <2>2. user'.failed = handler[h].seen.failed + 1
    BY <1>6, <1>b DEF RegisterFailedLogin, User
  <2>3. QED
    BY <2>1, <2>2 DEF CountInv
<1>7. ASSUME NEW h \in Handler, ClearFailures(h)
      PROVE  CountInv'
  <2>1. /\ UNCHANGED <<crossedLogin, faults>> /\ wrong' = 0 /\ handler[h].at = "clear"
        /\ handler'[h].at = "create" /\ \A x \in Handler \ {h} : handler'[x] = handler[x]
    BY <1>0, <1>7, <1>a DEF ClearFailures, Awaits, Goto, HandlersFit, HandlerState
  <2>2. user'.failed = 0 /\ handler[h].for = "login"
    BY <1>7, <1>b, <1>a, <2>1 DEF ClearFailures, User, Fits, LoginStep, RefreshStep
  <2>3. ~ crossedLogin => \A x \in Handler : handler'[x].at # "fail"
    BY <1>c, <2>1, <2>2
  <2>4. QED
    BY <2>1, <2>2, <2>3 DEF CountInv
<1>8. ASSUME NEW h \in Handler, ResetPassword(h)
      PROVE  CountInv'
  <2>1. /\ crossedLogin' = (crossedLogin \/ UnderWay("login") # {}) /\ wrong' = 0
        /\ \A x \in Handler : handler'[x] = IF x = h THEN Free ELSE handler[x]
    BY <1>0, <1>8 DEF ResetPassword, Done, HandlersFit
  <2>2. user'.failed = 0
    BY <1>8, <1>b DEF ResetPassword, ResetUser, User
  <2>3. ASSUME ~ crossedLogin', NEW x \in Handler
        PROVE  handler'[x].at # "fail"
    <3>1. CASE x = h
      BY <2>1, <3>1 DEF Free
    <3>2. CASE x # h
      <4>1. handler[x].for # "login"
        BY <2>1, <2>3 DEF UnderWay
      <4>2. QED
        BY <1>a, <2>1, <3>2, <4>1 DEF Fits, LoginStep
    <3>3. QED
      BY <3>1, <3>2
  <2>4. QED
    BY <2>1, <2>2, <2>3 DEF CountInv
<1>9. ASSUME NEW h \in Handler, FindSession(h)
       PROVE  CountInv'
  <2>1. handler[h].at = "session" /\ handler[h].session \in DOMAIN sessions
    BY <1>9, <1>a DEF FindSession, Awaits, Fits, RefreshStep
  <2>2. sessions[handler[h].session].revoked \in BOOLEAN /\ sessions[handler[h].session].expired \in BOOLEAN
    BY <1>0, <2>1, SessionRows DEF Session
  <2>3. Goto(h, "refused") \/ Goto(h, "kill") \/ Goto(h, "owner")
    BY <1>9, <2>2 DEF FindSession
  <2>4. QED
    BY <1>2, <1>9, <2>1, <2>3 DEF FindSession
<1>10. ASSUME NEW h \in Handler, KillSession(h) \/ FindOwner(h) \/ Logout(h) \/ ConsumeOldLinks(h)
       PROVE  CountInv'
  BY <1>2, <1>10 DEF KillSession, FindOwner, Logout, ConsumeOldLinks, Refuse, Awaits
<1>11. ASSUME NEW h \in Handler, CreateSession(h) \/ BindToken(h) \/ RotateToken(h)
       PROVE  CountInv'
  <2>1. UNCHANGED <<user, wrong, crossedLogin, faults>> /\ handler[h].at # "fail"
    BY <1>11 DEF CreateSession, BindToken, RotateToken, Awaits
  <2>2. \A x \in Handler : \/ handler'[x] = handler[x]
                           \/ x = h /\ handler'[x].at \in {"bind", "granted"}
    BY <1>0, <1>11, <1>a DEF CreateSession, BindToken, RotateToken, Grant, HandlersFit, HandlerState
  <2>3. QED
    BY <1>1, <2>1, <2>2
<1>12. ASSUME NEW h \in Handler, RevokeAll(h) \/ CreateLink(h) \/ Arrive(h)
       PROVE  CountInv'
  BY <1>3, <1>12 DEF RevokeAll, CreateLink, Arrive, Awaits, Answer
<1>13. ASSUME NEW h \in Handler, NEW t \in Tab, StartRefresh(h, t) \/ StartLogout(h, t)
       PROVE  CountInv'
  <2>1. CASE StartRefresh(h, t)
    BY <1>0, <1>1, <2>1 DEF StartRefresh, Begin, Awaits, Free, HandlersFit
  <2>2. CASE StartLogout(h, t)
    BY <1>0, <1>1, <2>2 DEF StartLogout, Begin, Awaits, Free, HandlersFit, Edit
  <2>3. QED
    BY <1>13, <2>1, <2>2
<1>14. ASSUME NEW h \in Handler, NEW l \in DOMAIN links, FindLink(h, l)
       PROVE  CountInv'
  BY <1>0, <1>1, <1>14 DEF FindLink, Begin, Awaits, Free, HandlersFit
<1>15. ASSUME NEW h \in Handler, SetUserSuspended(h) \/ SetOrgInactive(h) \/ ForgotPassword(h)
       PROVE  CountInv'
  <2>1. \A x \in Handler : \/ handler'[x] = handler[x]
                           \/ handler[x].at # "fail" /\ handler'[x].at # "fail"
    BY <1>0, <1>15 DEF SetUserSuspended, SetOrgInactive, ForgotPassword, Begin, Awaits, Free, HandlersFit
  <2>2. UNCHANGED <<wrong, crossedLogin, faults>> /\ user'.failed = user.failed
    BY <1>b, <1>15 DEF SetUserSuspended, SetOrgInactive, ForgotPassword, User, Edit
  <2>3. QED
    BY <1>1, <2>1, <2>2
<1>16. ASSUME NEW t \in Tab, FindNoCookie(t) \/ Reload(t)
       PROVE  CountInv'
  BY <1>1, <1>d, <1>16, <1>a DEF FindNoCookie, Reload, HandlerState, Edit
<1>17. ASSUME NEW s \in DOMAIN sessions, RevokeSession(s) \/ Expire(s)
       PROVE  CountInv'
  BY <1>1, <1>17 DEF RevokeSession, Expire, Edit
<1>18. CASE Reinstate \/ LockLapses \/ UNCHANGED vars
  BY <1>1, <1>18, <1>b DEF Reinstate, LockLapses, User, Edit, vars
<1>19. ASSUME NEW h \in Handler, ServerProgress(h)
       PROVE  CountInv'
  BY <1>5, <1>6, <1>7, <1>8, <1>9, <1>10, <1>11, <1>12, <1>19 DEF ServerProgress
<1>20. ASSUME NEW h \in Handler, Fail(h)
       PROVE  CountInv'
  BY <1>d, <1>20 DEF Fail
<1>21. QED
  BY <1>4, <1>12, <1>13, <1>14, <1>15, <1>16, <1>17, <1>18, <1>19, <1>20 DEF Next

------------------------------------------------------------------------------
(* The reuse detection                                                     *)

(* Who holds the token of a session's row, or is about to. *)
Owns == {"bind", "granted"} \cup RefreshStep

NoneReused == \A s \in DOMAIN sessions : ~ sessions[s].reused

OneRefresh == \A h, x \in Handler : handler[h].for = "refresh" /\ handler[x].for = "refresh" => h = x

TabsWait == \A h \in Handler :
    handler[h].for # "none" => handler[h].tab \in Tab /\ tab[handler[h].tab].at = "waiting"

TabsApart == \A h, x \in Handler : handler[h].tab = handler[x].tab /\ handler[h].tab # NoTab => h = x

(* A token that was sent, or is on its way to the browser, is the row's. *)
TokensCurrent == \A h \in Handler :
    /\ handler[h].at # "kill"
    /\ handler[h].at \in {"session", "granted"} => sessions[handler[h].session].hash = handler[h].token

(* The session of a login is its own until its answer is there. *)
LoginsApart == \A h \in Handler :
    handler[h].for = "login" /\ handler[h].at \in {"bind", "granted"} =>
      /\ cookie.session # handler[h].session
      /\ \A x \in Handler : x # h /\ handler[x].at \in Owns => handler[x].session # handler[h].session

(* The browser has the row's token, or the answer that brings it is under way. *)
CookieCurrent ==
    cookie # NoCookie =>
      \/ sessions[cookie.session].hash = cookie.token
      \/ \E h \in Handler : /\ handler[h].for = "refresh" /\ handler[h].at = "granted"
                            /\ handler[h].session = cookie.session

Rules == NoneReused /\ OneRefresh /\ TabsWait /\ TabsApart /\ TokensCurrent /\ LoginsApart /\ CookieCurrent

Calm == ~ crossedRefresh /\ faults = 0

(* What holds of a browser that plays by the rules. *)
ReuseInv == SessionsTypes /\ (Calm => Rules)

LEMMA CalmBefore ==
    ASSUME SessionsTypes, [Next]_vars, Calm'
    PROVE  Calm
<1> USE DEF browserVars, historyVars, budgetVars, Calm
<1>1. faults \in Nat /\ crossedRefresh \in BOOLEAN
  BY SessionAssumption DEF SessionsTypes, TablesTyped
<1>2. CASE UNCHANGED <<crossedRefresh, faults>>
  BY <1>1, <1>2
<1>3. CASE UNCHANGED crossedRefresh /\ (Edit \/ Fault)
  BY <1>1, <1>3 DEF Edit, Fault
<1>4. CASE \E h \in Handler, t \in Tab : StartRefresh(h, t)
  BY <1>1, <1>4 DEF StartRefresh
<1>5. CASE \E h \in Handler, t \in Tab : Login(h, t) \/ StartLogout(h, t)
  BY <1>1, <1>2, <1>3, <1>5 DEF Login, StartLogout
<1>6. CASE \E h \in Handler, l \in DOMAIN links : FindLink(h, l)
  BY <1>2, <1>6 DEF FindLink
<1>7. ASSUME NEW h \in Handler, ServerProgress(h) PROVE Calm
  <2>1. UNCHANGED <<crossedRefresh, faults>>
    BY <1>7 DEF ServerProgress, FindByEmail, RegisterFailedLogin, ClearFailures, CreateSession,
       BindToken, FindSession, KillSession, FindOwner, RotateToken, Logout, RevokeAll,
       ConsumeOldLinks, CreateLink, ResetPassword
  <2>2. QED
    BY <1>2, <2>1
<1>8. ASSUME NEW h \in Handler,
             Arrive(h) \/ Fail(h) \/ SetUserSuspended(h) \/ SetOrgInactive(h) \/ ForgotPassword(h)
      PROVE  Calm
  BY <1>2, <1>3, <1>8 DEF Arrive, Fail, SetUserSuspended, SetOrgInactive, ForgotPassword
<1>9. CASE \E t \in Tab : FindNoCookie(t) \/ Reload(t)
  BY <1>2, <1>3, <1>9 DEF FindNoCookie, Reload
<1>10. CASE \E x \in DOMAIN sessions : RevokeSession(x) \/ Expire(x)
  BY <1>3, <1>10 DEF RevokeSession, Expire
<1>11. CASE Reinstate \/ LockLapses \/ UNCHANGED vars
  BY <1>2, <1>3, <1>11 DEF Reinstate, LockLapses, vars
<1>12. QED
  BY <1>4, <1>5, <1>6, <1>7, <1>8, <1>9, <1>10, <1>11 DEF Next

(* A handler that takes no token, shows none, and keeps its tab until it   *)
(* is done.                                                                *)
Tame(x) ==
    \/ handler'[x] = handler[x]
    \/ /\ handler[x].at # "granted"
       /\ handler'[x].at \notin {"session", "kill", "bind", "granted"}
       /\ \/ handler'[x].for = "none" /\ handler'[x].tab = NoTab /\ handler'[x].at \notin Owns
          \/ /\ handler'[x].for = handler[x].for
             /\ handler'[x].tab = handler[x].tab
             /\ handler'[x].session = handler[x].session
             /\ handler'[x].at \in Owns => handler[x].at \in Owns

LEMMA TameKeepsRules ==
    ASSUME SessionsTypes, SessionsTypes', Rules, UNCHANGED <<cookie, tab>>,
           DOMAIN sessions' = DOMAIN sessions,
           \A s \in DOMAIN sessions : /\ sessions'[s].hash = sessions[s].hash
                                      /\ sessions'[s].reused = sessions[s].reused,
           \A x \in Handler : Tame(x)
    PROVE  Rules'
<1>1. NoneReused'
  BY DEF NoneReused, Rules
<1>2. OneRefresh'
  BY DEF OneRefresh, Rules, Tame
<1>3. TabsWait'
  BY DEF TabsWait, Rules, Tame
<1>4. TabsApart'
  BY DEF TabsApart, Rules, Tame
<1>5. TokensCurrent'
  <2>1. ASSUME NEW h \in Handler, handler'[h].at \in {"session", "granted"}
        PROVE  handler'[h] = handler[h] /\ handler[h].session \in DOMAIN sessions
    BY <2>1 DEF Tame, SessionsTypes, HandlersFit, Fits, RefreshStep
  <2>2. QED
    BY <2>1 DEF TokensCurrent, Rules, Tame
<1>6. LoginsApart'
  <2>1. SUFFICES ASSUME NEW h \in Handler, handler'[h].for = "login", handler'[h].at \in {"bind", "granted"}
                 PROVE  /\ cookie.session # handler'[h].session
                        /\ \A x \in Handler : x # h /\ handler'[x].at \in Owns =>
                                                handler'[x].session # handler'[h].session
    BY DEF LoginsApart
  <2>2. handler'[h] = handler[h]
    BY <2>1 DEF Tame
  <2>3. \A x \in Handler : handler'[x].at \in Owns =>
                             handler[x].at \in Owns /\ handler'[x].session = handler[x].session
    BY DEF Tame
  <2>4. QED
    BY <2>1, <2>2, <2>3 DEF LoginsApart, Rules
<1>7. CookieCurrent'
  <2>1. \A h \in Handler : handler[h].at = "granted" => handler'[h] = handler[h]
    BY DEF Tame
  <2>2. cookie # NoCookie => cookie.session \in DOMAIN sessions
    BY DEF SessionsTypes, CookieTyped, CookieFits
  <2>3. QED
    BY <2>1, <2>2 DEF CookieCurrent, Rules
<1>8. QED
  BY <1>1, <1>2, <1>3, <1>4, <1>5, <1>6, <1>7 DEF Rules

(* A tab that waits for nobody sends a request. *)
LEMMA RequestKeepsRules ==
    ASSUME SessionsTypes, SessionsTypes', Rules, UNCHANGED <<cookie, sessions>>,
           NEW h \in Handler, NEW t \in Tab, tab[t].at # "waiting", NEW r,
           handler' = [handler EXCEPT ![h] = r], tab' = [tab EXCEPT ![t].at = "waiting"],
           r.tab = t, r.at \notin {"kill", "bind", "granted"}, handler[h].at = "idle",
           r.for = "refresh" => \A x \in Handler : handler[x].for = "refresh" => handler[x].tab = t,
           r.at \in RefreshStep => /\ r.at = "session" /\ r.for = "refresh" /\ cookie # NoCookie
                                   /\ r.session = cookie.session /\ r.token = cookie.token
    PROVE  Rules'
<1> USE DEF Rules
<1>0. /\ \A x \in Handler : handler'[x] = IF x = h THEN r ELSE handler[x]
      /\ \A u \in Tab : tab'[u].at = IF u = t THEN "waiting" ELSE tab[u].at
  BY DEF SessionsTypes, HandlersFit, TablesTyped, TabState
<1>1. \A x \in Handler : handler[x].tab # t
  <2>1. SUFFICES ASSUME NEW x \in Handler, handler[x].tab = t
                 PROVE  FALSE
    OBVIOUS
  <2>2. handler[x].for # "none"
    BY <2>1, SessionAssumption DEF SessionsTypes, HandlersFit, Fits
  <2>3. QED
    BY <2>1, <2>2 DEF TabsWait
<1>2. NoneReused'
  BY DEF NoneReused
<1>3. OneRefresh'
  BY <1>0, <1>1 DEF OneRefresh
<1>4. TabsWait'
  BY <1>0 DEF TabsWait
<1>5. TabsApart'
  BY <1>0, <1>1 DEF TabsApart
<1>6. r.at = "session" => sessions[r.session].hash = r.token
  <2>1. SUFFICES ASSUME r.at = "session"
                 PROVE  sessions[r.session].hash = r.token
    OBVIOUS
  <2>2. r.for = "refresh" /\ cookie # NoCookie /\ r.session = cookie.session /\ r.token = cookie.token
    BY <2>1 DEF RefreshStep
  <2>3. \A x \in Handler : handler[x].for # "refresh"
    BY <1>1, <2>2
  <2>4. QED
    BY <2>2, <2>3 DEF CookieCurrent
<1>7. TokensCurrent'
  BY <1>0, <1>6 DEF TokensCurrent
<1>8. LoginsApart'
  <2>1. SUFFICES ASSUME NEW y \in Handler, handler'[y].for = "login", handler'[y].at \in {"bind", "granted"}
                 PROVE  /\ cookie.session # handler'[y].session
                        /\ \A x \in Handler : x # y /\ handler'[x].at \in Owns =>
                                                handler'[x].session # handler'[y].session
    BY DEF LoginsApart
  <2>2. y # h /\ handler'[y] = handler[y]
    BY <1>0, <2>1
  <2>3. /\ cookie.session # handler[y].session
        /\ \A x \in Handler : x # y /\ handler[x].at \in Owns => handler[x].session # handler[y].session
    BY <2>1, <2>2 DEF LoginsApart
  <2>4. ASSUME NEW x \in Handler, x # y, handler'[x].at \in Owns
        PROVE  handler'[x].session # handler[y].session
    <3>1. CASE x = h
      BY <1>0, <2>3, <2>4, <3>1 DEF Owns
    <3>2. CASE x # h
      BY <1>0, <2>3, <2>4, <3>2
    <3>3. QED
      BY <3>1, <3>2
  <2>5. QED
    BY <2>2, <2>3, <2>4
<1>9. CookieCurrent'
  BY <1>0 DEF CookieCurrent
<1>10. QED
  BY <1>2, <1>3, <1>4, <1>5, <1>7, <1>8, <1>9

(* A session is created for a login. *)
LEMMA CreateKeepsRules ==
    ASSUME SessionsTypes, SessionsTypes', Rules, NEW h \in Handler, CreateSession(h)
    PROVE  Rules'
<1> USE DEF Rules, browserVars, historyVars, budgetVars
<1>0. /\ handler[h].at = "create" /\ UNCHANGED <<cookie, tab>>
      /\ handler' = [handler EXCEPT ![h].at = "bind", ![h].session = Len(sessions) + 1]
  BY DEF CreateSession, Awaits
<1>1. /\ Len(sessions) \in Nat /\ DOMAIN sessions = 1..Len(sessions)
      /\ DOMAIN sessions' = 1..(Len(sessions) + 1)
      /\ \A s \in 1..Len(sessions) : sessions'[s] = sessions[s]
      /\ ~ sessions'[Len(sessions) + 1].reused
  <2>1. sessions \in Seq(Session) /\ handler[h].seen.password \in Nat
    BY DEF SessionsTypes, TablesTyped, HandlersFit, HandlerState, User
  <2>2. PICK row : /\ sessions' = Append(sessions, row) /\ ~ row.reused
    BY DEF CreateSession
  <2>3. QED
    BY <2>1, <2>2, LenProperties
<1>2. /\ \A x \in Handler \ {h} : handler'[x] = handler[x]
      /\ handler'[h].at = "bind" /\ handler'[h].for = handler[h].for /\ handler'[h].tab = handler[h].tab
      /\ handler'[h].session = Len(sessions) + 1
  BY <1>0 DEF SessionsTypes, HandlersFit, HandlerState
<1>3. \A x \in Handler : handler[x].at \in Owns => handler[x].session \in 1..Len(sessions)
  BY <1>1 DEF SessionsTypes, HandlersFit, Fits, Owns
<1>4. cookie.session \in 0..Len(sessions)
  BY <1>1 DEF SessionsTypes, CookieTyped, CookieFits, NoCookie
<1>5. NoneReused'
  BY <1>1 DEF NoneReused
<1>6. OneRefresh'
  BY <1>2 DEF OneRefresh
<1>7. TabsWait'
  <2>1. \A x \in Handler : handler'[x].for = handler[x].for /\ handler'[x].tab = handler[x].tab
    BY <1>2
  <2>2. QED
    BY <1>0, <2>1 DEF TabsWait
<1>8. TabsApart'
  BY <1>2 DEF TabsApart
<1>9. TokensCurrent'
  <2>1. ASSUME NEW x \in Handler, handler'[x].at \in {"session", "granted"}
        PROVE  sessions'[handler'[x].session].hash = handler'[x].token
    <3>1. handler'[x] = handler[x]
      BY <1>2, <2>1
    <3>2. handler[x].session \in 1..Len(sessions)
      BY <1>3, <2>1, <3>1 DEF Owns, RefreshStep
    <3>3. QED
      BY <1>1, <2>1, <3>1, <3>2 DEF TokensCurrent
  <2>2. \A x \in Handler : handler'[x].at # "kill"
    BY <1>2 DEF TokensCurrent
  <2>3. QED
    BY <2>1, <2>2 DEF TokensCurrent
<1>10. LoginsApart'
  <2>1. SUFFICES ASSUME NEW y \in Handler, handler'[y].for = "login", handler'[y].at \in {"bind", "granted"}
                 PROVE  /\ cookie.session # handler'[y].session
                        /\ \A x \in Handler : x # y /\ handler'[x].at \in Owns =>
                                                handler'[x].session # handler'[y].session
    BY <1>0 DEF LoginsApart
  <2>2. CASE y = h
    <3>1. cookie.session # Len(sessions) + 1 /\ \A n \in 1..Len(sessions) : n # Len(sessions) + 1
      BY <1>1, <1>4
    <3>2. \A x \in Handler : x # h /\ handler'[x].at \in Owns => handler'[x].session \in 1..Len(sessions)
      BY <1>2, <1>3
    <3>3. QED
      BY <1>2, <2>2, <3>1, <3>2
  <2>3. CASE y # h
    <3>1. /\ handler'[y] = handler[y]
          /\ handler[y].session \in 1..Len(sessions)
          /\ cookie.session # handler[y].session
          /\ \A x \in Handler : x # y /\ handler[x].at \in Owns => handler[x].session # handler[y].session
      BY <1>2, <1>3, <2>1, <2>3 DEF LoginsApart, Owns
    <3>2. handler'[h].session # handler[y].session
      BY <1>1, <1>2, <3>1
    <3>3. QED
      BY <1>2, <3>1, <3>2
  <2>4. QED
    BY <2>2, <2>3
<1>11. CookieCurrent'
  <2>1. cookie # NoCookie => cookie.session \in 1..Len(sessions)
    BY <1>1 DEF SessionsTypes, CookieTyped, CookieFits
  <2>2. QED
    BY <1>0, <1>1, <1>2, <2>1 DEF CookieCurrent
<1>12. QED
  BY <1>5, <1>6, <1>7, <1>8, <1>9, <1>10, <1>11

(* A token is minted and written to the row of the session. *)
LEMMA GrantKeepsRules ==
    ASSUME SessionsTypes, SessionsTypes', Rules, NEW h \in Handler, BindToken(h) \/ RotateToken(h)
    PROVE  Rules'
<1> USE DEF Rules, browserVars, historyVars, budgetVars
<1>0. /\ handler[h].at \in {"bind", "rotate"} /\ UNCHANGED <<cookie, tab>>
      /\ handler' = [handler EXCEPT ![h].at = "granted", ![h].token = minted + 1]
      /\ minted' = minted + 1
  BY DEF BindToken, RotateToken, Grant, Awaits
<1>1. /\ \A x \in Handler \ {h} : handler'[x] = handler[x]
      /\ handler'[h].at = "granted" /\ handler'[h].for = handler[h].for /\ handler'[h].tab = handler[h].tab
      /\ handler'[h].session = handler[h].session /\ handler'[h].token = minted'
  BY <1>0 DEF SessionsTypes, HandlersFit, HandlerState
<1>2. /\ DOMAIN sessions' = DOMAIN sessions
      /\ handler[h].session \in DOMAIN sessions
      /\ sessions'[handler[h].session].hash = minted'
      /\ \A s \in DOMAIN sessions : /\ sessions'[s].reused = sessions[s].reused
                                    /\ s # handler[h].session => sessions'[s].hash = sessions[s].hash
  <2>1. handler[h].session \in DOMAIN sessions
    BY <1>0 DEF SessionsTypes, HandlersFit, Fits, RefreshStep
  <2>2. \A s \in DOMAIN sessions : sessions[s] \in Session
    BY SessionRows DEF SessionsTypes
  <2>3. CASE BindToken(h)
    BY <2>1, <2>2, <2>3 DEF BindToken, Session
  <2>4. CASE RotateToken(h)
    BY <2>1, <2>2, <2>4 DEF RotateToken, Session
  <2>5. QED
    BY <2>3, <2>4
<1>3. handler[h].at = "bind" => handler[h].for = "login"
  BY DEF SessionsTypes, HandlersFit, Fits, LoginStep
<1>4. handler[h].at = "rotate" => handler[h].for = "refresh"
  BY DEF SessionsTypes, HandlersFit, Fits, RefreshStep
<1>5. ASSUME NEW x \in Handler, x # h, handler[x].at \in {"session", "granted"}
      PROVE  handler[x].session # handler[h].session
  <2>1. handler[x].for \in {"login", "refresh"} /\ (handler[x].at = "session" => handler[x].for = "refresh")
    BY <1>5 DEF SessionsTypes, HandlersFit, Fits, RefreshStep
  <2>2. handler[x].at \in Owns /\ handler[h].at \in Owns
    BY <1>0, <1>5 DEF Owns, RefreshStep
  <2>3. CASE handler[h].at = "bind"
    BY <1>3, <1>5, <2>2, <2>3 DEF LoginsApart
  <2>4. CASE handler[h].at = "rotate"
    <3>1. handler[x].for = "login" /\ handler[x].at = "granted"
      BY <1>4, <1>5, <2>1, <2>4 DEF OneRefresh
    <3>2. QED
      BY <1>5, <2>2, <3>1 DEF LoginsApart
  <2>5. QED
    BY <1>0, <2>3, <2>4
<1>6. NoneReused'
  BY <1>2 DEF NoneReused
<1>7. OneRefresh'
  BY <1>1 DEF OneRefresh
<1>8. TabsWait'
  <2>1. \A x \in Handler : handler'[x].for = handler[x].for /\ handler'[x].tab = handler[x].tab
    BY <1>1
  <2>2. QED
    BY <1>0, <2>1 DEF TabsWait
<1>9. TabsApart'
  BY <1>1 DEF TabsApart
<1>10. TokensCurrent'
  <2>1. \A x \in Handler : handler'[x].at # "kill"
    BY <1>1 DEF TokensCurrent
  <2>2. ASSUME NEW x \in Handler, x # h, handler'[x].at \in {"session", "granted"}
        PROVE  sessions'[handler'[x].session].hash = handler'[x].token
    <3>1. handler'[x] = handler[x] /\ handler[x].session \in DOMAIN sessions
      BY <1>1, <2>2 DEF SessionsTypes, HandlersFit, Fits, RefreshStep
    <3>2. sessions'[handler[x].session].hash = sessions[handler[x].session].hash
      BY <1>2, <1>5, <2>2, <3>1
    <3>3. QED
      BY <2>2, <3>1, <3>2 DEF TokensCurrent
  <2>3. QED
    BY <1>1, <1>2, <2>1, <2>2 DEF TokensCurrent
<1>11. LoginsApart'
  <2>1. SUFFICES ASSUME NEW y \in Handler, handler'[y].for = "login", handler'[y].at \in {"bind", "granted"}
                 PROVE  /\ cookie.session # handler'[y].session
                        /\ \A x \in Handler : x # y /\ handler'[x].at \in Owns =>
                                                handler'[x].session # handler'[y].session
    BY <1>0 DEF LoginsApart
  <2>2. \A x \in Handler : /\ handler'[x].for = handler[x].for /\ handler'[x].session = handler[x].session
                           /\ handler'[x].at \in Owns => handler[x].at \in Owns
    BY <1>0, <1>1 DEF Owns, RefreshStep
  <2>3. handler[y].for = "login" /\ handler[y].at \in {"bind", "granted"}
    BY <1>0, <1>1, <1>4, <2>1
  <2>4. QED
    BY <2>2, <2>3 DEF LoginsApart
<1>12. CookieCurrent'
  <2>1. SUFFICES ASSUME cookie # NoCookie
                 PROVE  CookieCurrent'
    BY <1>0 DEF CookieCurrent
  <2>2. CASE handler[h].at = "bind"
    <3>1. cookie.session # handler[h].session /\ cookie.session \in DOMAIN sessions
      BY <1>3, <2>1, <2>2 DEF LoginsApart, SessionsTypes, CookieTyped, CookieFits
    <3>2. sessions'[cookie.session].hash = sessions[cookie.session].hash
      BY <1>2, <3>1
    <3>3. \A x \in Handler : handler[x].at = "granted" => handler'[x] = handler[x]
      BY <1>1, <2>2
    <3>4. QED
      BY <1>0, <3>2, <3>3 DEF CookieCurrent
  <2>3. CASE handler[h].at = "rotate"
    <3>1. CASE cookie.session = handler[h].session
      BY <1>0, <1>1, <1>4, <2>3, <3>1 DEF CookieCurrent
    <3>2. CASE cookie.session # handler[h].session
      <4>1. cookie.session \in DOMAIN sessions
        BY <2>1 DEF SessionsTypes, CookieTyped, CookieFits
      <4>2. sessions'[cookie.session].hash = sessions[cookie.session].hash
        BY <1>2, <3>2, <4>1
      <4>3. \A x \in Handler : ~ (handler[x].for = "refresh" /\ handler[x].at = "granted")
        BY <1>4, <2>3 DEF OneRefresh
      <4>4. QED
        BY <1>0, <2>1, <4>2, <4>3 DEF CookieCurrent
    <3>3. QED
      BY <3>1, <3>2
  <2>4. QED
    BY <1>0, <2>2, <2>3
<1>13. QED
  BY <1>6, <1>7, <1>8, <1>9, <1>10, <1>11, <1>12

(* The answer arrives. *)
LEMMA AnswerKeepsRules ==
    ASSUME SessionsTypes, SessionsTypes', Rules, NEW h \in Handler, Arrive(h)
    PROVE  Rules'
<1> USE DEF Rules, browserVars, historyVars, budgetVars
<1>0. UNCHANGED sessions /\ handler[h].at \in Answer /\ \A x \in Handler : handler'[x] = IF x = h THEN Free ELSE handler[x]
  BY DEF Arrive, Done, SessionsTypes, HandlersFit
<1>1. Free.for = "none" /\ Free.tab = NoTab /\ Free.at = "idle"
  BY DEF Free
<1>2. \A x \in Handler : /\ handler'[x].for # "none" => x # h /\ handler'[x] = handler[x]
                         /\ handler'[x].tab # NoTab => x # h /\ handler'[x] = handler[x]
                         /\ handler'[x].at \in Owns \cup {"kill"} => x # h /\ handler'[x] = handler[x]
  BY <1>0, <1>1 DEF Owns, RefreshStep
<1>3. NoneReused'
  BY <1>0 DEF NoneReused
<1>4. OneRefresh'
  BY <1>2 DEF OneRefresh
<1>5. TabsApart'
  BY <1>2 DEF TabsApart
<1>6. TokensCurrent'
  BY <1>0, <1>2 DEF TokensCurrent, Owns, RefreshStep
<1>7. \A u \in Tab : u # handler[h].tab => tab'[u] = tab[u]
  <2>1. tab \in [Tab -> TabState]
    BY DEF SessionsTypes, TablesTyped
  <2>2. QED
    BY <2>1 DEF Arrive, SignOff
<1>8. TabsWait'
  <2>1. SUFFICES ASSUME NEW x \in Handler, handler'[x].for # "none"
                 PROVE  handler'[x].tab \in Tab /\ tab'[handler'[x].tab].at = "waiting"
    BY DEF TabsWait
  <2>2. x # h /\ handler'[x] = handler[x]
    BY <1>2, <2>1
  <2>3. handler[x].tab \in Tab /\ tab[handler[x].tab].at = "waiting"
    BY <2>1, <2>2 DEF TabsWait
  <2>4. handler[x].tab # handler[h].tab
    BY <2>2, <2>3, SessionAssumption DEF TabsApart
  <2>5. QED
    BY <1>7, <2>2, <2>3, <2>4
<1>9. CASE handler[h].at = "granted"
  <2>1. handler[h].for # "none" /\ handler[h].session \in DOMAIN sessions
    BY <1>9 DEF SessionsTypes, HandlersFit, Fits
  <2>2. handler[h].tab \in Tab
    BY <2>1 DEF TabsWait
  <2>3. cookie' = [session |-> handler[h].session, token |-> handler[h].token]
    BY <1>9, <2>2, SessionAssumption DEF Arrive
  <2>4. cookie'.session = handler[h].session /\ cookie'.token = handler[h].token
    BY <2>3
  <2>5. CookieCurrent'
    BY <1>0, <1>9, <2>4 DEF CookieCurrent, TokensCurrent
  <2>6. LoginsApart'
    <3>1. SUFFICES ASSUME NEW y \in Handler, handler'[y].for = "login", handler'[y].at \in {"bind", "granted"}
                   PROVE  /\ cookie'.session # handler'[y].session
                          /\ \A x \in Handler : x # y /\ handler'[x].at \in Owns =>
                                                  handler'[x].session # handler'[y].session
      BY DEF LoginsApart
    <3>2. y # h /\ handler'[y] = handler[y]
      BY <1>2, <3>1
    <3>3. \A x \in Handler : x # y /\ handler[x].at \in Owns => handler[x].session # handler[y].session
      BY <3>1, <3>2 DEF LoginsApart
    <3>4. handler[h].session # handler[y].session
      BY <1>9, <3>2, <3>3 DEF Owns
    <3>5. QED
      BY <1>2, <2>4, <3>2, <3>3, <3>4
  <2>7. QED
    BY <1>3, <1>4, <1>5, <1>6, <1>8, <2>5, <2>6
<1>10. CASE handler[h].at # "granted"
  <2>1. cookie' = cookie \/ cookie' = NoCookie
    BY <1>10 DEF Arrive
  <2>2. CookieCurrent'
    <3>1. CASE cookie' = NoCookie
      BY <3>1 DEF CookieCurrent
    <3>2. CASE cookie' = cookie
      BY <1>0, <1>10, <3>2 DEF CookieCurrent
    <3>3. QED
      BY <2>1, <3>1, <3>2
  <2>3. LoginsApart'
    <3>1. SUFFICES ASSUME NEW y \in Handler, handler'[y].for = "login", handler'[y].at \in {"bind", "granted"}
                   PROVE  /\ cookie'.session # handler'[y].session
                          /\ \A x \in Handler : x # y /\ handler'[x].at \in Owns =>
                                                  handler'[x].session # handler'[y].session
      BY DEF LoginsApart
    <3>2. y # h /\ handler'[y] = handler[y]
      BY <1>2, <3>1
    <3>3. /\ cookie.session # handler[y].session
          /\ \A x \in Handler : x # y /\ handler[x].at \in Owns => handler[x].session # handler[y].session
      BY <3>1, <3>2 DEF LoginsApart
    <3>4. handler[y].session \in DOMAIN sessions
      BY <3>1, <3>2 DEF SessionsTypes, HandlersFit, Fits
    <3>5. 0 \notin DOMAIN sessions
      BY SessionRows DEF SessionsTypes
    <3>6. cookie'.session # handler[y].session
      BY <2>1, <3>3, <3>4, <3>5 DEF NoCookie
    <3>7. QED
      BY <1>2, <3>2, <3>3, <3>6
  <2>4. QED
    BY <1>3, <1>4, <1>5, <1>6, <1>8, <2>2, <2>3
<1>11. QED
  BY <1>9, <1>10

LEMMA ReuseStep ==
    ASSUME ReuseInv, [Next]_vars
    PROVE  ReuseInv'
<1> USE DEF browserVars, historyVars, budgetVars
<1>0. SessionsTypes /\ SessionsTypes'
  BY TypeStep DEF ReuseInv
<1> SUFFICES ASSUME Calm' PROVE Rules'
  BY <1>0 DEF ReuseInv
<1>a. Rules /\ Calm
  BY <1>0, CalmBefore DEF ReuseInv
<1>b. \A h \in Handler : handler[h] \in HandlerState /\ Fits(handler[h])
  BY <1>0 DEF SessionsTypes, HandlersFit
<1>c. ASSUME UNCHANGED <<cookie, tab, sessions>>, \A x \in Handler : Tame(x)
      PROVE  Rules'
  BY <1>0, <1>a, <1>c, TameKeepsRules
<1>d. ASSUME NEW which, sessions' = Revoked(which)
      PROVE  /\ DOMAIN sessions' = DOMAIN sessions
             /\ \A s \in DOMAIN sessions : /\ sessions'[s].hash = sessions[s].hash
                                           /\ sessions'[s].reused = sessions[s].reused
  BY <1>0, <1>d, SessionRows DEF Revoked, Session, SessionsTypes
<1>e. ASSUME NEW h \in Handler, NEW step, handler[h].at # "granted", Goto(h, step),
             step \notin Owns \cup {"kill"} \/ (step \in {"owner", "rotate"} /\ handler[h].at \in Owns)
      PROVE  \A x \in Handler : Tame(x)
  BY <1>b, <1>e, <1>0 DEF Goto, Tame, Owns, RefreshStep, HandlerState, SessionsTypes, HandlersFit
<1>f. ASSUME NEW h \in Handler, handler[h].at # "granted", Done(h)
      PROVE  \A x \in Handler : Tame(x)
  BY <1>f, <1>0 DEF Done, Free, Tame, Owns, RefreshStep, SessionsTypes, HandlersFit
<1>g. ASSUME NEW h \in Handler, NEW r, Begin(h, r), r.for = "none", r.tab = NoTab,
             r.at \in {"revokeAll", "expireLinks", "reset"}
      PROVE  \A x \in Handler : Tame(x)
  BY <1>g, <1>0 DEF Begin, Awaits, Tame, Owns, RefreshStep, SessionsTypes, HandlersFit
<1>1. ASSUME NEW h \in Handler, NEW t \in Tab, StartRefresh(h, t)
      PROVE  Rules'
  <2>1. PICK r : r = [Free EXCEPT !.at = "session", !.for = "refresh", !.tab = t,
                                  !.session = cookie.session, !.token = cookie.token]
    OBVIOUS
  <2>2. /\ r.at = "session" /\ r.for = "refresh" /\ r.tab = t
        /\ r.session = cookie.session /\ r.token = cookie.token
    BY <2>1 DEF Free
  <2>3. /\ handler[h].at = "idle" /\ handler' = [handler EXCEPT ![h] = r] /\ UNCHANGED <<cookie, sessions>>
        /\ tab[t].at # "waiting" /\ tab' = [tab EXCEPT ![t].at = "waiting"] /\ cookie # NoCookie
    BY <1>1, <2>1 DEF StartRefresh, Begin, Awaits
  <2>4. \A x \in Handler : handler[x].for = "refresh" => handler[x].tab = t
    BY <1>1 DEF StartRefresh, Calm, UnderWay
  <2>5. QED
    BY <1>0, <1>a, <2>2, <2>3, <2>4, RequestKeepsRules
<1>2. ASSUME NEW h \in Handler, NEW t \in Tab, Login(h, t)
      PROVE  Rules'
  <2>1. PICK typed \in {0, user.password} :
          Begin(h, [Free EXCEPT !.at = "account", !.for = "login", !.tab = t, !.typed = typed])
    BY <1>2 DEF Login
  <2>2. PICK r : r = [Free EXCEPT !.at = "account", !.for = "login", !.tab = t, !.typed = typed]
    OBVIOUS
  <2>3. r.at = "account" /\ r.for = "login" /\ r.tab = t
    BY <2>2 DEF Free
  <2>4. /\ handler[h].at = "idle" /\ handler' = [handler EXCEPT ![h] = r] /\ UNCHANGED <<cookie, sessions>>
        /\ tab[t].at # "waiting" /\ tab' = [tab EXCEPT ![t].at = "waiting"]
    BY <1>2, <2>1, <2>2 DEF Login, Begin, Awaits
  <2>5. r.at \notin RefreshStep
    BY <2>3 DEF RefreshStep
  <2>6. QED
    BY <1>0, <1>a, <2>3, <2>4, <2>5, RequestKeepsRules
<1>3. ASSUME NEW h \in Handler, NEW t \in Tab, StartLogout(h, t)
      PROVE  Rules'
  <2>1. PICK step \in {"logout", "logoutAll"} :
          Begin(h, [Free EXCEPT !.at = step, !.for = "logout", !.tab = t, !.session = tab[t].session])
    BY <1>3 DEF StartLogout
  <2>2. PICK r : r = [Free EXCEPT !.at = step, !.for = "logout", !.tab = t, !.session = tab[t].session]
    OBVIOUS
  <2>3. r.at = step /\ r.for = "logout" /\ r.tab = t
    BY <2>2 DEF Free
  <2>4. /\ handler[h].at = "idle" /\ handler' = [handler EXCEPT ![h] = r] /\ UNCHANGED <<cookie, sessions>>
        /\ tab[t].at # "waiting" /\ tab' = [tab EXCEPT ![t].at = "waiting"]
    BY <1>3, <2>1, <2>2 DEF StartLogout, Begin, Awaits
  <2>5. r.at \notin RefreshStep
    BY <2>3 DEF RefreshStep
  <2>6. QED
    BY <1>0, <1>a, <2>3, <2>4, <2>5, RequestKeepsRules
<1>4. ASSUME NEW h \in Handler, NEW l \in DOMAIN links, FindLink(h, l)
      PROVE  Rules'
  <2>1. PICK r : r = [Free EXCEPT !.at = "reset", !.link = l]
    OBVIOUS
  <2>2. r.for = "none" /\ r.tab = NoTab /\ r.at = "reset"
    BY <2>1 DEF Free
  <2>3. Begin(h, r) /\ UNCHANGED <<cookie, tab, sessions>>
    BY <1>4, <2>1 DEF FindLink
  <2>4. QED
    BY <1>c, <1>g, <2>2, <2>3
<1>5. ASSUME NEW h \in Handler, FindByEmail(h)
      PROVE  Rules'
  <2>1. PICK at \in {"refused", "fail", "clear", "create"} :
          handler' = [handler EXCEPT ![h].seen = user, ![h].at = at]
    BY <1>0, <1>5 DEF FindByEmail, SessionsTypes, TablesTyped, User
  <2>2. \A x \in Handler : Tame(x)
    <3>1. handler[h].at = "account"
      BY <1>5 DEF FindByEmail, Awaits
    <3>2. /\ \A x \in Handler \ {h} : handler'[x] = handler[x]
          /\ handler'[h].at = at /\ handler'[h].for = handler[h].for
          /\ handler'[h].tab = handler[h].tab /\ handler'[h].session = handler[h].session
      BY <1>0, <1>b, <2>1 DEF HandlerState, SessionsTypes, HandlersFit
    <3>3. QED
      BY <3>1, <3>2 DEF Tame, Owns, RefreshStep
  <2>3. QED
    BY <1>5, <1>c, <2>2 DEF FindByEmail
<1>6. ASSUME NEW h \in Handler, RegisterFailedLogin(h)
      PROVE  Rules'
  BY <1>6, <1>c, <1>e DEF RegisterFailedLogin, Awaits, Refuse, Owns, RefreshStep
<1>7. ASSUME NEW h \in Handler, ClearFailures(h)
      PROVE  Rules'
  BY <1>7, <1>c, <1>e DEF ClearFailures, Awaits, Owns, RefreshStep
<1>8. ASSUME NEW h \in Handler, FindSession(h)
      PROVE  Rules'
  <2>1. handler[h].at = "session" /\ handler[h].session \in DOMAIN sessions
    BY <1>8, <1>b DEF FindSession, Awaits, Fits, RefreshStep
  <2>2. sessions[handler[h].session].hash = handler[h].token
    BY <1>a, <2>1 DEF Rules, TokensCurrent
  <2>3. sessions[handler[h].session].revoked \in BOOLEAN /\ sessions[handler[h].session].expired \in BOOLEAN
    BY <1>0, <2>1, SessionRows DEF Session, SessionsTypes
  <2>4. Goto(h, "refused") \/ Goto(h, "owner")
    BY <1>8, <2>2, <2>3 DEF FindSession
  <2>5. \A x \in Handler : Tame(x)
    BY <1>e, <2>1, <2>4 DEF Owns, RefreshStep
  <2>6. QED
    BY <1>8, <1>c, <2>5 DEF FindSession
<1>9. ASSUME NEW h \in Handler, KillSession(h)
      PROVE  Rules'
  BY <1>9, <1>a DEF KillSession, Awaits, Rules, TokensCurrent
<1>10. ASSUME NEW h \in Handler, FindOwner(h)
      PROVE  Rules'
  <2>1. \A x \in Handler : Tame(x)
    BY <1>10, <1>e DEF FindOwner, Awaits, Refuse, Owns, RefreshStep
  <2>2. QED
    BY <1>10, <1>c, <2>1 DEF FindOwner
<1>11. ASSUME NEW h \in Handler, CreateSession(h)
       PROVE  Rules'
  BY <1>0, <1>a, <1>11, CreateKeepsRules
<1>12. ASSUME NEW h \in Handler, BindToken(h) \/ RotateToken(h)
       PROVE  Rules'
  BY <1>0, <1>a, <1>12, GrantKeepsRules
<1>13. ASSUME NEW h \in Handler, Arrive(h)
       PROVE  Rules'
  BY <1>0, <1>a, <1>13, AnswerKeepsRules
<1>14. ASSUME NEW h \in Handler, Logout(h)
       PROVE  Rules'
  <2>1. \A x \in Handler : Tame(x)
    BY <1>14, <1>e DEF Logout, Owns, RefreshStep
  <2>2. PICK which : sessions' = Revoked(which)
    BY <1>14 DEF Logout
  <2>3. UNCHANGED <<cookie, tab>>
    BY <1>14 DEF Logout
  <2>4. QED
    BY <1>0, <1>a, <1>d, <2>1, <2>2, <2>3, TameKeepsRules
<1>15. ASSUME NEW h \in Handler, RevokeAll(h) \/ ResetPassword(h)
       PROVE  Rules'
  <2>1. \A x \in Handler : Tame(x)
    BY <1>15, <1>f DEF RevokeAll, ResetPassword, Awaits
  <2>2. PICK which : sessions' = Revoked(which)
    BY <1>15 DEF RevokeAll, ResetPassword
  <2>3. UNCHANGED <<cookie, tab>>
    BY <1>15 DEF RevokeAll, ResetPassword
  <2>4. QED
    BY <1>0, <1>a, <1>d, <2>1, <2>2, <2>3, TameKeepsRules
<1>16. ASSUME NEW h \in Handler, SetUserSuspended(h) \/ SetOrgInactive(h) \/ ForgotPassword(h)
       PROVE  Rules'
  <2>1. PICK at \in {"revokeAll", "expireLinks"} : Begin(h, [Free EXCEPT !.at = at])
    BY <1>16 DEF SetUserSuspended, SetOrgInactive, ForgotPassword
  <2>2. PICK r : r = [Free EXCEPT !.at = at]
    OBVIOUS
  <2>3. r.for = "none" /\ r.tab = NoTab /\ r.at = at
    BY <2>2 DEF Free
  <2>4. Begin(h, r)
    BY <2>1, <2>2
  <2>5. \A x \in Handler : Tame(x)
    BY <1>g, <2>3, <2>4
  <2>6. QED
    BY <1>16, <1>c, <2>5 DEF SetUserSuspended, SetOrgInactive, ForgotPassword
<1>17. ASSUME NEW h \in Handler, ConsumeOldLinks(h) \/ CreateLink(h)
       PROVE  Rules'
  <2>1. \A x \in Handler : Tame(x)
    BY <1>17, <1>e, <1>f DEF ConsumeOldLinks, CreateLink, Awaits, Owns, RefreshStep
  <2>2. QED
    BY <1>17, <1>c, <2>1 DEF ConsumeOldLinks, CreateLink
<1>18. ASSUME NEW h \in Handler, Fail(h)
       PROVE  Rules'
  BY <1>0, <1>18, SessionAssumption DEF Fail, Fault, Calm, SessionsTypes, TablesTyped
<1>19. ASSUME NEW t \in Tab, tab[t].at # "waiting"
       PROVE  \A x \in Handler : handler[x].tab # t
  BY <1>19, <1>a, <1>b, SessionAssumption DEF Rules, TabsWait, Fits
<1>20. ASSUME NEW t \in Tab, UNCHANGED <<cookie, sessions, handler>>, tab[t].at # "waiting",
              \A u \in Tab \ {t} : tab'[u] = tab[u]
       PROVE  Rules'
  <2>1. TabsWait'
    <3>1. SUFFICES ASSUME NEW x \in Handler, handler[x].for # "none"
                   PROVE  handler[x].tab \in Tab /\ tab'[handler[x].tab].at = "waiting"
      BY <1>20 DEF TabsWait
    <3>2. handler[x].tab \in Tab /\ handler[x].tab # t /\ tab[handler[x].tab].at = "waiting"
      BY <1>19, <1>20, <1>a, <3>1 DEF Rules, TabsWait
    <3>3. QED
      BY <1>20, <3>2
  <2>2. QED
    BY <1>20, <1>a, <2>1
       DEF Rules, NoneReused, OneRefresh, TabsApart, TokensCurrent, LoginsApart, CookieCurrent
<1>21. ASSUME NEW t \in Tab, FindNoCookie(t)
       PROVE  Rules'
  <2>1. UNCHANGED <<cookie, sessions, handler>> /\ tab[t].at # "waiting" /\ \A u \in Tab \ {t} : tab'[u] = tab[u]
    BY <1>0, <1>21 DEF FindNoCookie, SignOff, SessionsTypes, TablesTyped
  <2>2. QED
    BY <1>20, <2>1
<1>22. ASSUME NEW t \in Tab, Reload(t)
       PROVE  Rules'
  <2>1. tab[t].at # "waiting"
    BY <1>0, <1>22, SessionAssumption DEF Reload, Fault, Calm, SessionsTypes, TablesTyped
  <2>2. UNCHANGED handler
    BY <1>0, <1>19, <1>22, <2>1 DEF Reload, SessionsTypes, HandlersFit
  <2>3. UNCHANGED <<cookie, sessions>> /\ \A u \in Tab \ {t} : tab'[u] = tab[u]
    BY <1>0, <1>22 DEF Reload, SessionsTypes, TablesTyped
  <2>4. QED
    BY <1>20, <2>1, <2>2, <2>3
<1>23. ASSUME NEW s \in DOMAIN sessions, RevokeSession(s)
       PROVE  Rules'
  <2>1. sessions' = Revoked({s}) /\ UNCHANGED <<cookie, tab>> /\ \A x \in Handler : Tame(x)
    BY <1>23 DEF RevokeSession, Tame
  <2>2. QED
    BY <1>0, <1>a, <1>d, <2>1, TameKeepsRules
<1>24. ASSUME NEW s \in DOMAIN sessions, Expire(s)
       PROVE  Rules'
  <2>1. UNCHANGED <<cookie, tab>> /\ \A x \in Handler : Tame(x)
    BY <1>24 DEF Expire, Tame
  <2>2. \A i \in DOMAIN sessions : sessions[i] \in Session
    BY <1>0, SessionRows DEF SessionsTypes
  <2>3. /\ DOMAIN sessions' = DOMAIN sessions
        /\ \A i \in DOMAIN sessions : /\ sessions'[i].hash = sessions[i].hash
                                      /\ sessions'[i].reused = sessions[i].reused
    BY <1>24, <2>2 DEF Expire, Session
  <2>4. QED
    BY <1>0, <1>a, <2>1, <2>3, TameKeepsRules
<1>25. CASE Reinstate \/ LockLapses \/ UNCHANGED vars
  <2>1. UNCHANGED <<cookie, tab, sessions, handler>>
    BY <1>25 DEF Reinstate, LockLapses, vars
  <2>2. QED
    BY <1>c, <2>1 DEF Tame
<1>26. ASSUME NEW h \in Handler, ServerProgress(h)
       PROVE  Rules'
  BY <1>5, <1>6, <1>7, <1>8, <1>9, <1>10, <1>11, <1>12, <1>14, <1>15, <1>17, <1>26 DEF ServerProgress
<1>27. QED
  BY <1>1, <1>2, <1>3, <1>4, <1>13, <1>16, <1>18, <1>21, <1>22, <1>23, <1>24, <1>25, <1>26 DEF Next

------------------------------------------------------------------------------
(* Every row keeps its type, the browser's cookie is that of a session the *)
(* server created, and the handler that writes a row still finds it.       *)
THEOREM SessionsTypeTheorem == Spec => []SessionsTypeOK
<1>1. Spec => []SessionsTypes
  BY InitTypes, TypeStep, PTL DEF Spec
<1>2. QED
  BY <1>1, TypesEnough, PTL

(* No step gives a revoked session back, whatever a handler had read of it *)
(* before it was revoked.                                                  *)
THEOREM RevokedForGoodTheorem == Spec => RevokedForGood
<1> DEFINE Kept == \A s \in DOMAIN sessions : sessions[s].revoked => sessions'[s].revoked
<1>1. ASSUME SessionsTypes, [Next]_vars PROVE [Kept]_vars
  BY <1>1, RowsStep DEF RowsKept
<1> HIDE DEF Kept
<1>2. Spec => [][Kept]_vars
  BY <1>1, InitTypes, TypeStep, PTL DEF Spec
<1>3. QED
  BY <1>2 DEF Kept, RevokedForGood

(* A reset ends every session that was opened with an older password, but  *)
(* that of a login that had compared it already.                           *)
THEOREM ResetEndsTheorem == Spec => []ResetEndsSessions
<1>1. Init => SessionsTypes /\ ResetEndsSessions
  BY InitTypes DEF Init, ResetEndsSessions
<1>2. QED
  BY <1>1, TypeStep, ResetEndsStep, PTL DEF Spec

(* A link sets one password at most, however many handlers follow it, as   *)
(* long as no two of them do so at once.                                   *)
THEOREM ResetLinksTheorem == Spec => []ResetLinksWorkOnce
<1>1. Init => LinksInv
  BY InitTypes DEF Init, LinksInv, Free
<1>2. LinksInv => ResetLinksWorkOnce
  BY DEF LinksInv, ResetLinksWorkOnce
<1>3. QED
  BY <1>1, <1>2, LinksStep, PTL DEF Spec

(* The lock is the work of MaxFailed wrong passwords, and each of them is  *)
(* counted, unless two logins counted on from the same read or one failed. *)
THEOREM LockedByFailuresTheorem == Spec => []LockedByFailures
<1>1. Init => LockInv /\ CountInv
  BY InitTypes DEF Init, LockInv, CountInv, Free, NewUser
<1>2. LockInv /\ CountInv => LockedByFailures
  <2>1. SUFFICES ASSUME LockInv, CountInv PROVE LockedByFailures
    OBVIOUS
  <2>2. faults \in Nat
    BY <2>1 DEF LockInv, SessionsTypes, TablesTyped
  <2>3. faults = 0 \/ faults > 0
    BY <2>2
  <2>4. QED
    BY <2>1, <2>3 DEF LockInv, CountInv, LockedByFailures, Awaits
<1>3. QED
  BY <1>1, <1>2, LockStep, CountStep, PTL DEF Spec

(* The reuse detection ends no session of a browser whose tabs refresh one *)
(* at a time and that loses no answer.                                     *)
THEOREM ReuseTheorem == Spec => []ReuseMeansCrossing
<1>1. Init => ReuseInv
  BY InitTypes DEF Init, ReuseInv, Rules, NoneReused, OneRefresh, TabsWait, TabsApart, TokensCurrent,
     LoginsApart, CookieCurrent, Free
<1>2. ReuseInv => ReuseMeansCrossing
  <2>1. SUFFICES ASSUME ReuseInv PROVE ReuseMeansCrossing
    OBVIOUS
  <2>2. faults \in Nat
    BY <2>1 DEF ReuseInv, SessionsTypes, TablesTyped
  <2>3. QED
    BY <2>1, <2>2 DEF ReuseInv, Rules, NoneReused, Calm, ReuseMeansCrossing
<1>3. QED
  BY <1>1, <1>2, ReuseStep, PTL DEF Spec
==============================================================================
