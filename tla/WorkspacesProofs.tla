--------------------------- MODULE WorkspacesProofs ---------------------------
(***************************************************************************)
(* Proofs about Workspaces, for any number of workspaces, identities and   *)
(* concurrent handlers, any caps, days and bounds.                         *)
(***************************************************************************)
EXTENDS Workspaces, FiniteSetTheorems, SequenceTheorems, TLAPS

(* What a handler in state s has in hand at each of its awaits. *)
Fits(s) ==
    /\ s.at \in {"cap", "archive", "claim"} =>
         s.for = "connect" /\ s.org \in Org /\ s.account \in Identity
    /\ s.at \in {"remove", "sync"} => s.account \in Identity
    /\ s.at \in {"ruleCap", "build"} =>
         s.for = "build" /\ s.org \in Org /\ s.account \in Identity
    /\ s.at = "edit" => s.row \in DOMAIN automations
    /\ s.at = "renew" => s.for = "renewal"
    /\ s.at # "renew" => s.held = Nothing

Placed == \A h \in Handler : Fits(handler[h])

WorkspacesTypes == AccountsTypeOK /\ Placed

------------------------------------------------------------------------------
LEMMA HandlerCount == Cardinality(Handler) \in Nat
BY AccountAssumption, FS_CardinalityType

LEMMA FreeFits == Free \in HandlerState /\ Fits(Free) /\ Fits(Free)'
BY DEF Free, Fits, Nothing, HandlerState, Request

LEMMA InitTypes == Init => WorkspacesTypes
<1> SUFFICES ASSUME Init PROVE WorkspacesTypes
  OBVIOUS
<1>1. AccountsTypeOK
  BY HandlerCount, FreeFits, AccountAssumption
     DEF Init, AccountsTypeOK, NoAccount, Account, Status, Told
<1>2. Placed
  BY FreeFits DEF Init, Placed
<1>3. QED
  BY <1>1, <1>2 DEF WorkspacesTypes

------------------------------------------------------------------------------
(* A step of one handler keeps what the others have in hand: automations   *)
(* are added and never taken away.                                         *)
HandlersFit == handler \in [Handler -> HandlerState] /\ Placed

Grows == DOMAIN automations \subseteq DOMAIN automations'

LEMMA HandlerMoves ==
    ASSUME HandlersFit, Grows, NEW h \in Handler, NEW r \in HandlerState, Fits(r)',
           handler' = [handler EXCEPT ![h] = r]
    PROVE  HandlersFit'
<1>1. handler' \in [Handler -> HandlerState]
  BY DEF HandlersFit
<1>2. \A x \in Handler : handler'[x] = IF x = h THEN r ELSE handler[x]
  BY DEF HandlersFit
<1>3. ASSUME NEW s, Fits(s) PROVE Fits(s)'
  BY <1>3 DEF Fits, Grows
<1>4. Placed'
  BY <1>2, <1>3 DEF Placed, HandlersFit
<1>5. QED
  BY <1>1, <1>4 DEF HandlersFit

LEMMA HandlerEnds ==
    ASSUME HandlersFit, Grows, NEW h \in Handler, Done(h)
    PROVE  HandlersFit'
BY HandlerMoves, FreeFits DEF Done

(* The steps of a handler that stay within one request.                    *)
LEMMA HandlerGoes ==
    ASSUME HandlersFit, Grows, NEW h \in Handler, NEW step,
           \/ handler[h].at = "cap" /\ step \in {"archive", "claim"}
           \/ handler[h].at = "archive" /\ step = "claim"
           \/ handler[h].at = "ruleCap" /\ step = "build",
           Goto(h, step)
    PROVE  HandlersFit'
<1>1. handler[h] \in HandlerState /\ Fits(handler[h])
  BY DEF HandlersFit, Placed
<1>2. [handler[h] EXCEPT !.at = step] \in HandlerState
  BY <1>1 DEF HandlerState
<1>3. PICK r \in HandlerState : r = [handler[h] EXCEPT !.at = step]
  BY <1>2
<1>4. Fits(r)'
  BY <1>1, <1>3 DEF Fits, HandlerState, Grows
<1>5. handler' = [handler EXCEPT ![h] = r]
  BY <1>3 DEF Goto
<1>6. QED
  BY <1>4, <1>5, HandlerMoves

(* One token less is held. *)
LEMMA HandlerRenews ==
    ASSUME HandlersFit, Grows, NEW h \in Handler, NEW i \in Identity, handler[h].at = "renew",
           handler' = [handler EXCEPT ![h].held[i] = NoOrg]
    PROVE  HandlersFit'
<1>1. handler[h] \in HandlerState /\ Fits(handler[h])
  BY DEF HandlersFit, Placed
<1>2. [handler[h] EXCEPT !.held = [@ EXCEPT ![i] = NoOrg]] \in HandlerState
  BY <1>1 DEF HandlerState
<1>3. PICK r \in HandlerState : r = [handler[h] EXCEPT !.held = [@ EXCEPT ![i] = NoOrg]]
  BY <1>2
<1>4. Fits(r)'
  BY <1>1, <1>3 DEF Fits, HandlerState, Grows
<1>5. handler' = [handler EXCEPT ![h] = r]
  BY <1>3
<1>6. QED
  BY <1>4, <1>5, HandlerMoves

TablesTyped ==
    /\ accounts \in [Identity -> Account]
    /\ automations \in Seq(Automation)
    /\ scans \in 0..Cardinality(Handler)
    /\ crossed \subseteq Told
    /\ {refused, passed, flagged} \subseteq SUBSET Identity
    /\ faults \in 0..MaxUpsets /\ edits \in 0..MaxUpsets

LEMMA TypesSplit ==
    /\ WorkspacesTypes <=> TablesTyped /\ HandlersFit
    /\ WorkspacesTypes' <=> TablesTyped' /\ HandlersFit'
BY DEF WorkspacesTypes, AccountsTypeOK, TablesTyped, HandlersFit

(* What a handler in state s finds in its row. *)
LEMMA InHand ==
    ASSUME WorkspacesTypes, NEW h \in Handler
    PROVE  handler[h] \in HandlerState /\ Fits(handler[h])
BY DEF WorkspacesTypes, AccountsTypeOK, Placed

LEMMA Budgets ==
    ASSUME TablesTyped, Edit \/ Fault
    PROVE  faults' \in 0..MaxUpsets /\ edits' \in 0..MaxUpsets
BY AccountAssumption DEF TablesTyped, Edit, Fault

LEMMA Rows ==
    ASSUME TablesTyped
    PROVE  /\ \A i \in Identity : accounts[i] \in Account
           /\ automations \in [1..Len(automations) -> Automation] /\ Len(automations) \in Nat
           /\ \A f : f \in [1..Len(automations) -> Automation] => f \in Seq(Automation)
<1>1. automations \in [1..Len(automations) -> Automation] /\ Len(automations) \in Nat
  BY LenProperties DEF TablesTyped
<1>2. QED
  BY <1>1, SeqDef DEF TablesTyped

LEMMA RowWritten ==
    ASSUME TablesTyped, NEW i \in Identity, NEW live \in BOOLEAN, NEW status \in Status,
           NEW token \in Org \cup {NoOrg}
    PROVE  /\ [accounts EXCEPT ![i].live = live, ![i].status = status, ![i].touched = "today"]
                \in [Identity -> Account]
           /\ [accounts EXCEPT ![i].status = status, ![i].touched = "today"] \in [Identity -> Account]
           /\ [accounts EXCEPT ![i].token = token, ![i].left = TokenDays, ![i].touched = "today"]
                \in [Identity -> Account]
<1>1. accounts[i] \in Account
  BY Rows
<1>2. /\ [accounts[i] EXCEPT !.live = live, !.status = status, !.touched = "today"] \in Account
      /\ [accounts[i] EXCEPT !.status = status, !.touched = "today"] \in Account
      /\ [accounts[i] EXCEPT !.token = token, !.left = TokenDays, !.touched = "today"] \in Account
  <2>1. TokenDays \in 0..TokenDays
    BY AccountAssumption
  <2>2. [accounts[i] EXCEPT !.live = live, !.status = status, !.touched = "today"] \in Account
    BY <1>1 DEF Account
  <2>3. [accounts[i] EXCEPT !.status = status, !.touched = "today"] \in Account
    BY <1>1 DEF Account
  <2>4. [accounts[i] EXCEPT !.token = token, !.left = TokenDays, !.touched = "today"] \in Account
    BY <1>1, <2>1 DEF Account
  <2>5. QED
    BY <2>2, <2>3, <2>4
<1>3. \A row \in Account : [accounts EXCEPT ![i] = row] \in [Identity -> Account]
  BY DEF TablesTyped
<1>4. /\ [accounts EXCEPT ![i].live = live, ![i].status = status, ![i].touched = "today"] =
           [accounts EXCEPT ![i] = [accounts[i] EXCEPT !.live = live, !.status = status, !.touched = "today"]]
      /\ [accounts EXCEPT ![i].status = status, ![i].touched = "today"] =
           [accounts EXCEPT ![i] = [accounts[i] EXCEPT !.status = status, !.touched = "today"]]
      /\ [accounts EXCEPT ![i].token = token, ![i].left = TokenDays, ![i].touched = "today"] =
           [accounts EXCEPT ![i] =
                [accounts[i] EXCEPT !.token = token, !.left = TokenDays, !.touched = "today"]]
  BY DEF TablesTyped
<1>5. QED
  BY <1>2, <1>3, <1>4

(* No step leaves the types, nor a handler without what its next await     *)
(* reads.                                                                  *)
LEMMA TypeStep ==
    ASSUME WorkspacesTypes, [Next]_vars
    PROVE  WorkspacesTypes'
<1> USE HandlerCount, AccountAssumption DEF TablesTyped, Grows, tokenVars, budgetVars
<1>0. TablesTyped /\ HandlersFit
  BY TypesSplit
<1> SUFFICES TablesTyped' /\ HandlersFit'
  BY TypesSplit
<1>1. ASSUME NEW h \in Handler, NEW o \in Org, NEW i \in Identity, FindExisting(h, o, i)
      PROVE  TablesTyped' /\ HandlersFit'
  <2>1. PICK r : r = [Free EXCEPT !.at = IF accounts[i].live /\ accounts[i].org = o THEN "claim" ELSE "cap",
                        !.for = "connect", !.org = o, !.account = i, !.seen = accounts[i].org]
    OBVIOUS
  <2>2. accounts[i].org \in Org \cup {NoOrg}
    BY <1>0 DEF Account
  <2>3. r \in HandlerState /\ Fits(r)'
    BY <2>1, <2>2 DEF Free, Nothing, HandlerState, Request, Fits
  <2>4. handler' = [handler EXCEPT ![h] = r]
    BY <1>1, <2>1 DEF FindExisting, Begin
  <2>5. UNCHANGED <<accounts, automations, scans, crossed, tokenVars, budgetVars>>
    BY <1>1 DEF FindExisting
  <2>6. QED
    BY <1>0, <2>3, <2>4, <2>5, HandlerMoves
<1>2. ASSUME NEW h \in Handler, NEW o \in Org, NEW i \in Identity, FindAccount(h, o, i)
      PROVE  TablesTyped' /\ HandlersFit'
  <2>1. PICK request \in {"removal", "sync"} :
          Begin(h, [Free EXCEPT !.at = IF request = "sync" THEN "sync" ELSE "remove",
                                !.for = request, !.org = o, !.account = i])
    BY <1>2 DEF FindAccount
  <2>2. PICK r : r = [Free EXCEPT !.at = IF request = "sync" THEN "sync" ELSE "remove",
                                  !.for = request, !.org = o, !.account = i]
    OBVIOUS
  <2>3. r \in HandlerState /\ Fits(r)'
    BY <2>2 DEF Free, Nothing, HandlerState, Request, Fits
  <2>4. handler' = [handler EXCEPT ![h] = r]
    BY <2>1, <2>2 DEF Begin
  <2>5. UNCHANGED <<accounts, automations, scans, crossed, tokenVars>> /\ Edit
    BY <1>2 DEF FindAccount
  <2>6. QED
    BY <1>0, <2>3, <2>4, <2>5, HandlerMoves, Budgets
<1>3. ASSUME NEW h \in Handler, NEW o \in Org, NEW i \in Identity, FindAccountFor(h, o, i)
      PROVE  TablesTyped' /\ HandlersFit'
  <2>1. PICK kind \in {"rule", "workflow"}, active \in BOOLEAN :
          Begin(h, [Free EXCEPT !.at = IF kind = "rule" /\ active THEN "ruleCap" ELSE "build",
                                !.for = "build", !.org = o, !.account = i, !.kind = kind,
                                !.row = IF kind = "rule" /\ active THEN 1 ELSE 0])
    BY <1>3 DEF FindAccountFor
  <2>2. PICK r : r = [Free EXCEPT !.at = IF kind = "rule" /\ active THEN "ruleCap" ELSE "build",
                                  !.for = "build", !.org = o, !.account = i, !.kind = kind,
                                  !.row = IF kind = "rule" /\ active THEN 1 ELSE 0]
    OBVIOUS
  <2>3. r \in HandlerState /\ Fits(r)'
    BY <2>2 DEF Free, Nothing, HandlerState, Request, Fits
  <2>4. handler' = [handler EXCEPT ![h] = r]
    BY <2>1, <2>2 DEF Begin
  <2>5. UNCHANGED <<accounts, automations, scans, crossed, tokenVars, budgetVars>>
    BY <1>3 DEF FindAccountFor
  <2>6. QED
    BY <1>0, <2>3, <2>4, <2>5, HandlerMoves
<1>4. ASSUME NEW h \in Handler, NEW a \in DOMAIN automations, FindAutomation(h, a)
      PROVE  TablesTyped' /\ HandlersFit'
  <2>1. PICK r : r = [Free EXCEPT !.at = "edit", !.for = "edit", !.org = automations[a].org, !.row = a]
    OBVIOUS
  <2>2. automations[a].org \in Org /\ a \in Nat
    BY <1>0, Rows, SMTT(30) DEF Automation
  <2>3. UNCHANGED <<accounts, automations, scans, crossed, tokenVars>> /\ Edit
    BY <1>4 DEF FindAutomation
  <2>4. r \in HandlerState /\ Fits(r)'
    BY <2>1, <2>2, <2>3 DEF Free, Nothing, HandlerState, Request, Fits
  <2>5. handler' = [handler EXCEPT ![h] = r]
    BY <1>4, <2>1 DEF FindAutomation, Begin
  <2>6. QED
    BY <1>0, <2>3, <2>4, <2>5, HandlerMoves, Budgets
<1>5. ASSUME NEW h \in Handler, NEW i \in Identity, RefreshRefused(h, i)
      PROVE  TablesTyped' /\ HandlersFit'
  BY <1>0, <1>5, HandlerRenews, Budgets DEF RefreshRefused, Awaits
<1>6. ASSUME NEW h \in Handler, StartScan(h)
      PROVE  TablesTyped' /\ HandlersFit'
  <2>1. PICK young \in SUBSET Listed :
          /\ passed' = passed \cup {i \in Identity \ (Listed \ young) :
                                  accounts[i].live /\ accounts[i].left <= RefreshDays}
          /\ Begin(h, [Free EXCEPT !.at = "renew", !.for = "renewal",
                !.held = [i \in Identity |-> IF i \in Listed \ young THEN accounts[i].token ELSE NoOrg]])
    BY <1>6 DEF StartScan
  <2>2. PICK r : r = [Free EXCEPT !.at = "renew", !.for = "renewal",
                !.held = [i \in Identity |-> IF i \in Listed \ young THEN accounts[i].token ELSE NoOrg]]
    OBVIOUS
  <2>3. \A i \in Identity : accounts[i].token \in Org \cup {NoOrg}
    BY <1>0 DEF Account
  <2>4. r \in HandlerState /\ Fits(r)'
    BY <2>2, <2>3 DEF Free, HandlerState, Request, Fits
  <2>5. handler' = [handler EXCEPT ![h] = r]
    BY <2>1, <2>2 DEF Begin
  <2>6. /\ UNCHANGED <<accounts, automations, crossed, refused, flagged, budgetVars>>
        /\ scans < Cardinality(Handler) /\ scans' = scans + 1
    BY <1>6 DEF StartScan
  <2>7. HandlersFit'
    BY <1>0, <2>4, <2>5, <2>6, HandlerMoves
  <2>8. QED
    BY <1>0, <2>1, <2>6, <2>7
<1>7. ASSUME NEW h \in Handler, AssertCanConnect(h)
      PROVE  TablesTyped' /\ HandlersFit'
  BY <1>0, <1>7, HandlerEnds, HandlerGoes DEF AssertCanConnect, Awaits
<1>8. ASSUME NEW h \in Handler, ArchiveRules(h)
      PROVE  TablesTyped' /\ HandlersFit'
  <2>1. automations' \in [1..Len(automations) -> Automation]
    <3>1. \A a \in 1..Len(automations) :
            [automations[a] EXCEPT !.active = FALSE, !.live = FALSE] \in Automation
      BY <1>0, Rows, ZenonT(60) DEF Automation
    <3>2. DOMAIN automations = 1..Len(automations)
      BY <1>0, Rows
    <3>3. QED
      BY <1>0, <1>8, <3>1, <3>2, Rows DEF ArchiveRules
  <2>0. automations' \in Seq(Automation) /\ Grows
    BY <1>0, <2>1, Rows
  <2>2. HandlersFit'
    BY <1>0, <1>8, <2>0, HandlerGoes DEF ArchiveRules, Awaits
  <2>3. QED
    BY <1>0, <1>8, <2>0, <2>2 DEF ArchiveRules, Cross, Told
<1>9. ASSUME NEW h \in Handler, Claim(h)
      PROVE  TablesTyped' /\ HandlersFit'
  <2>1. handler[h].org \in Org /\ handler[h].account \in Identity
    BY <1>9, InHand DEF Claim, Awaits, Fits
  <2>2. accounts' \in [Identity -> Account]
    BY <1>0, <1>9, <2>1 DEF Claim, Account, Status
  <2>3. HandlersFit'
    BY <1>0, <1>9, HandlerEnds DEF Claim
  <2>4. QED
    BY <1>0, <1>9, <2>2, <2>3 DEF Claim, Cross, Told
<1>10. ASSUME NEW h \in Handler, Disconnect(h)
       PROVE  TablesTyped' /\ HandlersFit'
  <2>0. handler[h].account \in Identity
    BY <1>10, InHand DEF Disconnect, Awaits, Fits
  <2>1. accounts' \in [Identity -> Account]
    BY <1>0, <1>10, <2>0, RowWritten DEF Disconnect, Status
  <2>2. QED
    BY <1>0, <1>10, <2>1, HandlerEnds DEF Disconnect
<1>11. ASSUME NEW h \in Handler, SyncProfile(h)
       PROVE  TablesTyped' /\ HandlersFit'
  <2>0. handler[h].account \in Identity
    BY <1>11, InHand DEF SyncProfile, Awaits, Fits
  <2>1. accounts' \in [Identity -> Account]
    <3>1. PICK status \in Status :
            accounts' = [accounts EXCEPT ![handler[h].account].status = status,
                                         ![handler[h].account].touched = "today"]
      BY <1>11 DEF SyncProfile, Status
    <3>2. QED
      BY <1>0, <2>0, <3>1, RowWritten
  <2>2. QED
    BY <1>0, <1>11, <2>1, HandlerEnds DEF SyncProfile
<1>12. ASSUME NEW h \in Handler, NEW i \in Identity, RefreshToken(h, i)
       PROVE  TablesTyped' /\ HandlersFit'
  <2>1. handler[h].held[i] \in Org \cup {NoOrg}
    BY InHand DEF HandlerState
  <2>2. accounts' \in [Identity -> Account]
    <3>1. PICK token \in Org \cup {NoOrg} : token = handler[h].held[i]
      BY <2>1
    <3>2. accounts' = [accounts EXCEPT ![i].token = token, ![i].left = TokenDays, ![i].touched = "today"]
      BY <1>12, <3>1 DEF RefreshToken
    <3>3. QED
      BY <1>0, <3>2, RowWritten DEF Status
  <2>3. QED
    BY <1>0, <1>12, <2>2, HandlerRenews DEF RefreshToken, Awaits
<1>13. ASSUME NEW h \in Handler, FlagExpiring(h)
       PROVE  TablesTyped' /\ HandlersFit'
  <2>1. accounts' \in [Identity -> Account] /\ Expiring \subseteq Identity
    <3>1. \A i \in Identity :
            [accounts[i] EXCEPT !.status = "NEEDS_RECONNECT", !.touched = "today"] \in Account
      BY <1>0, Rows DEF Account, Status
    <3>2. QED
      BY <1>0, <1>13, <3>1 DEF FlagExpiring, FlagAll, Expiring
  <2>2. QED
    BY <1>0, <1>13, <2>1, HandlerEnds DEF FlagExpiring, FlagAll
<1>14. ASSUME NEW h \in Handler, AssertCanCreateActiveRule(h)
       PROVE  TablesTyped' /\ HandlersFit'
  BY <1>0, <1>14, HandlerEnds, HandlerGoes DEF AssertCanCreateActiveRule, Awaits
<1>15. ASSUME NEW h \in Handler, Create(h)
       PROVE  TablesTyped' /\ HandlersFit'
  <2>1. /\ handler[h].org \in Org /\ handler[h].account \in Identity
        /\ handler[h].kind \in {"rule", "workflow"}
    BY <1>15, InHand DEF Create, Awaits, Fits, HandlerState
  <2>2. [kind |-> handler[h].kind, org |-> handler[h].org, account |-> handler[h].account,
         active |-> handler[h].row = 1, live |-> TRUE] \in Automation
    BY <2>1 DEF Automation
  <2>3. automations' \in Seq(Automation) /\ Grows
    BY <1>0, <1>15, <2>2 DEF Create
  <2>4. QED
    BY <1>0, <1>15, <2>3, HandlerEnds DEF Create
<1>16. ASSUME NEW h \in Handler, EditAutomation(h)
       PROVE  TablesTyped' /\ HandlersFit'
  <2>1. handler[h].row \in DOMAIN automations
    BY <1>16, InHand DEF EditAutomation, Awaits, Fits
  <2>2. automations' \in [1..Len(automations) -> Automation]
    <3>1. PICK a \in 1..Len(automations), active \in BOOLEAN :
            \/ automations' = [automations EXCEPT ![a].active = active]
            \/ automations' = [automations EXCEPT ![a].active = FALSE, ![a].live = FALSE]
      BY <1>0, <1>16, <2>1, Rows DEF EditAutomation
    <3>2. automations[a] \in Automation
      BY <1>0, Rows
    <3>3. /\ [automations[a] EXCEPT !.active = active] \in Automation
          /\ [automations[a] EXCEPT !.active = FALSE, !.live = FALSE] \in Automation
      BY <3>2 DEF Automation
    <3>4. QED
      BY <1>0, <3>1, <3>3, Rows
  <2>3. automations' \in Seq(Automation) /\ Grows
    BY <1>0, <2>2, Rows
  <2>4. QED
    BY <1>0, <1>16, <2>3, HandlerEnds DEF EditAutomation
<1>17. ASSUME NEW h \in Handler, Fail(h)
       PROVE  TablesTyped' /\ HandlersFit'
  BY <1>0, <1>17, HandlerEnds DEF Fail, Fault
<1>18. ASSUME UNCHANGED <<automations, handler>> PROVE HandlersFit'
  BY <1>0, <1>18 DEF HandlersFit, Placed, Fits
<1>19. ASSUME NEW i \in Identity, FlagByWorker(i)
       PROVE  TablesTyped' /\ HandlersFit'
  <2>1. accounts' \in [Identity -> Account]
    BY <1>0, <1>19, RowWritten DEF FlagByWorker, Status
  <2>2. QED
    BY <1>0, <1>18, <1>19, <2>1 DEF FlagByWorker, Edit
<1>20. CASE Tick
  <2>1. accounts' \in [Identity -> Account]
    <3>1. SUFFICES ASSUME NEW i \in Identity PROVE accounts'[i] \in Account
      BY <1>20 DEF Tick
    <3>2. accounts[i] \in Account
      BY <1>0, Rows
    <3>3. Older[accounts[i].touched] \in {"today", "yesterday", "before"}
      BY <3>2 DEF Account, Older
    <3>4. (IF accounts[i].left = 0 THEN 0 ELSE accounts[i].left - 1) \in 0..TokenDays
      BY <3>2 DEF Account
    <3>5. accounts'[i] = [accounts[i] EXCEPT
                !.left = IF accounts[i].left = 0 THEN 0 ELSE accounts[i].left - 1,
                !.touched = Older[accounts[i].touched]]
      BY <1>20 DEF Tick
    <3>6. QED
      BY <3>2, <3>3, <3>4, <3>5 DEF Account
  <2>2. faults' \in 0..MaxUpsets /\ edits' \in 0..MaxUpsets
    BY <1>0, <1>20, Budgets DEF Tick
  <2>3. /\ UNCHANGED <<automations, handler, crossed, tokenVars>> /\ scans' = 0
    BY <1>20 DEF Tick
  <2>4. QED
    BY <1>0, <1>18, <2>1, <2>2, <2>3
<1>21. CASE UNCHANGED vars
  BY <1>0, <1>18, <1>21 DEF vars
<1>22. QED
  BY <1>1, <1>2, <1>3, <1>4, <1>5, <1>6, <1>7, <1>8, <1>9, <1>10, <1>11, <1>12, <1>13, <1>14,
     <1>15, <1>16, <1>17, <1>19, <1>20, <1>21 DEF Next, AccountProgress

------------------------------------------------------------------------------
(* Who owns what, while nothing crossed                                    *)

Uncrossed == {"connect", "build"} \cap crossed = {}

(* A callback finds the row at its claim as it read it. *)
ClaimsMatch ==
    "connect" \notin crossed => \A h \in Handler :
        LET s == handler[h] IN
        s.at \in {"cap", "archive", "claim"} =>
            /\ accounts[s.account].org = s.seen
            /\ s.seen # s.org => ~ accounts[s.account].live

(* What is being built is built in the workspace that has the account. *)
BuildsMatch ==
    "build" \notin crossed => \A h \in Handler :
        LET s == handler[h] IN
        s.at \in {"ruleCap", "build"} => accounts[s.account].org = s.org

(* A callback that is about to take an account over has left no rule on    *)
(* it, and nobody is making one.                                           *)
Swept ==
    Uncrossed => \A h \in Handler :
        LET s == handler[h] IN
        s.at = "claim" /\ s.seen \notin {NoOrg, s.org} =>
            /\ \A a \in DOMAIN automations :
                 automations[a].kind = "rule" /\ automations[a].live =>
                     automations[a].account # s.account
            /\ \A x \in Handler :
                 handler[x].at \in {"ruleCap", "build"} => handler[x].account # s.account

(* A rule that is not archived belongs to the workspace of its account. *)
Owned ==
    Uncrossed => \A a \in DOMAIN automations :
        automations[a].kind = "rule" /\ automations[a].live =>
            accounts[automations[a].account].org = automations[a].org

OwnersInv == WorkspacesTypes /\ ClaimsMatch /\ BuildsMatch /\ Swept /\ Owned

(* Most steps move no account to another workspace, bring no rule back and *)
(* leave no handler about to do so.                                        *)
Quiet ==
    /\ \A i \in Identity :
         accounts'[i].org = accounts[i].org /\ (accounts'[i].live => accounts[i].live)
    /\ DOMAIN automations' = DOMAIN automations
    /\ \A a \in DOMAIN automations :
         /\ automations'[a].kind = automations[a].kind
         /\ automations'[a].org = automations[a].org
         /\ automations'[a].account = automations[a].account
         /\ automations'[a].live => automations[a].live
    /\ \A x \in Handler :
         \/ handler'[x] = handler[x]
         \/ handler'[x].at \notin {"cap", "archive", "claim", "ruleCap", "build"}
    /\ crossed' = crossed

LEMMA QuietSteps ==
    ASSUME WorkspacesTypes, [Next]_vars
    PROVE  \/ Quiet
           \/ \E h \in Handler :
               \/ \E o \in Org, i \in Identity : FindExisting(h, o, i) \/ FindAccountFor(h, o, i)
               \/ AssertCanConnect(h) \/ ArchiveRules(h) \/ Claim(h)
               \/ AssertCanCreateActiveRule(h) \/ Create(h)
<1>0. TablesTyped /\ HandlersFit
  BY TypesSplit
<1> USE DEF Quiet
<1>1. ASSUME NEW h \in Handler, NEW o \in Org, NEW i \in Identity, FindAccount(h, o, i)
      PROVE  Quiet
  BY <1>0, <1>1 DEF FindAccount, Begin, Free, HandlersFit
<1>2. ASSUME NEW h \in Handler, NEW a \in DOMAIN automations, FindAutomation(h, a)
      PROVE  Quiet
  BY <1>0, <1>2 DEF FindAutomation, Begin, Free, HandlersFit
<1>3. ASSUME NEW h \in Handler, NEW i \in Identity, RefreshRefused(h, i)
      PROVE  Quiet
  BY <1>0, <1>3 DEF RefreshRefused, Awaits, HandlersFit, HandlerState
<1>4. ASSUME NEW h \in Handler, StartScan(h)
      PROVE  Quiet
  BY <1>0, <1>4 DEF StartScan, Begin, Free, HandlersFit
<1>5. ASSUME NEW h \in Handler, Disconnect(h)
      PROVE  Quiet
  BY <1>0, <1>5, Rows DEF Disconnect, Done, Free, HandlersFit, TablesTyped, Account
<1>6. ASSUME NEW h \in Handler, SyncProfile(h)
      PROVE  Quiet
  BY <1>0, <1>6, Rows DEF SyncProfile, Done, Free, HandlersFit, TablesTyped, Account
<1>7. ASSUME NEW h \in Handler, NEW i \in Identity, RefreshToken(h, i)
      PROVE  Quiet
  BY <1>0, <1>7, Rows DEF RefreshToken, Awaits, HandlersFit, HandlerState, TablesTyped, Account
<1>8. ASSUME NEW h \in Handler, FlagExpiring(h)
      PROVE  Quiet
  BY <1>0, <1>8, Rows DEF FlagExpiring, FlagAll, Done, Free, HandlersFit, Account
<1>9. ASSUME NEW h \in Handler, EditAutomation(h)
      PROVE  Quiet
  <2>1. /\ \A x \in Handler : handler'[x] = handler[x] \/ handler'[x].at = "idle"
        /\ UNCHANGED <<accounts, crossed>>
    BY <1>0, <1>9 DEF EditAutomation, Done, Free, HandlersFit
  <2>2. PICK a \in Nat, active \in BOOLEAN :
          \/ automations' = [automations EXCEPT ![a].active = active]
          \/ automations' = [automations EXCEPT ![a].active = FALSE, ![a].live = FALSE]
    BY <1>0, <1>9 DEF EditAutomation, HandlersFit, HandlerState
  <2>3. \A b \in DOMAIN automations : automations[b] \in Automation
    BY <1>0, Rows
  <2>4. QED
    BY <2>1, <2>2, <2>3 DEF Automation
<1>10. ASSUME NEW h \in Handler, Fail(h)
       PROVE  Quiet
  BY <1>0, <1>10 DEF Fail, Done, Free, HandlersFit
<1>11. ASSUME NEW i \in Identity, FlagByWorker(i)
       PROVE  Quiet
  BY <1>0, <1>11, Rows DEF FlagByWorker, TablesTyped, Account
<1>12. CASE Tick
  BY <1>0, <1>12, Rows DEF Tick, Account
<1>13. CASE UNCHANGED vars
  BY <1>13 DEF vars
<1>14. QED
  BY <1>1, <1>2, <1>3, <1>4, <1>5, <1>6, <1>7, <1>8, <1>9, <1>10, <1>11, <1>12, <1>13
     DEF Next, AccountProgress

(* Whatever is under way on an account is told of when it changes hands. *)
LEMMA CrossTells ==
    ASSUME WorkspacesTypes, NEW h \in Handler, NEW i \in Identity, Cross(h, i)
    PROVE  /\ crossed \subseteq crossed'
           /\ \A x \in Handler \ {h} :
                /\ handler[x].at \in {"cap", "archive", "claim"} /\ handler[x].account = i =>
                     "connect" \in crossed'
                /\ handler[x].at \in {"ruleCap", "build"} /\ handler[x].account = i =>
                     "build" \in crossed'
                /\ handler[x].held[i] # NoOrg => "renewal" \in crossed'
<1>1. \A x \in Handler : Fits(handler[x])
  BY InHand
<1>2. \A x \in Handler : handler[x].held[i] # NoOrg => handler[x].for = "renewal"
  BY <1>1 DEF Fits, Nothing
<1>3. QED
  BY <1>1, <1>2 DEF Cross, UnderWay, Told, Fits

LEMMA InitOwners == Init => OwnersInv
BY InitTypes DEF Init, OwnersInv, ClaimsMatch, BuildsMatch, Swept, Owned, Free

LEMMA OwnersStep ==
    ASSUME OwnersInv, [Next]_vars
    PROVE  OwnersInv'
<1>0. WorkspacesTypes /\ WorkspacesTypes' /\ TablesTyped /\ HandlersFit
  BY TypeStep, TypesSplit DEF OwnersInv
<1> DEFINE Matches == ClaimsMatch /\ BuildsMatch /\ Swept /\ Owned
<1> SUFFICES Matches'
  BY <1>0 DEF OwnersInv
<1>a. \A x \in Handler : handler[x] \in HandlerState /\ Fits(handler[x])
  BY <1>0, InHand
<1>b. \A a \in DOMAIN automations : automations[a] \in Automation
  BY <1>0, Rows
<1> USE DEF OwnersInv, ClaimsMatch, BuildsMatch, Swept, Owned
<1>1. CASE Quiet
  BY <1>a, <1>b, <1>1 DEF Quiet, Uncrossed, Fits, Automation
<1>2. ASSUME NEW h \in Handler, NEW o \in Org, NEW i \in Identity, FindExisting(h, o, i)
      PROVE  Matches'
  BY <1>0, <1>a, <1>b, <1>2 DEF FindExisting, Begin, Free, HandlersFit, Uncrossed
<1>3. ASSUME NEW h \in Handler, NEW o \in Org, NEW i \in Identity, FindAccountFor(h, o, i)
      PROVE  Matches'
  BY <1>0, <1>a, <1>b, <1>3 DEF FindAccountFor, Begin, Free, HandlersFit, Uncrossed, LiveOf
<1>4. ASSUME NEW h \in Handler, AssertCanConnect(h)
      PROVE  Matches'
  <2>1. UNCHANGED <<accounts, automations, crossed>> /\ handler[h].at = "cap"
    BY <1>4 DEF AssertCanConnect, Awaits
  <2>2. CASE Done(h)
    BY <1>0, <1>a, <1>b, <2>1, <2>2 DEF Done, Free, HandlersFit, Uncrossed
  <2>3. CASE Goto(h, "claim") /\ handler[h].seen \in {NoOrg, handler[h].org}
    BY <1>0, <1>a, <1>b, <2>1, <2>3 DEF Goto, HandlersFit, HandlerState, Uncrossed
  <2>4. CASE Goto(h, "archive")
    BY <1>0, <1>a, <1>b, <2>1, <2>4 DEF Goto, HandlersFit, HandlerState, Uncrossed
  <2>5. QED
    BY <1>4, <2>2, <2>3, <2>4 DEF AssertCanConnect
<1>5. ASSUME NEW h \in Handler, ArchiveRules(h)
      PROVE  Matches'
  <2> DEFINE i == handler[h].account
  <2>1. /\ handler[h].at = "archive" /\ i \in Identity /\ accounts' = accounts
        /\ Cross(h, i)
    BY <1>a, <1>5 DEF ArchiveRules, Awaits, Fits
  <2>2. \A x \in Handler : handler'[x] = IF x = h THEN [handler[h] EXCEPT !.at = "claim"] ELSE handler[x]
    BY <1>0, <1>5 DEF ArchiveRules, Goto, HandlersFit
  <2>3. /\ DOMAIN automations' = DOMAIN automations
        /\ \A a \in DOMAIN automations :
             /\ automations'[a].kind = automations[a].kind
             /\ automations'[a].org = automations[a].org
             /\ automations'[a].account = automations[a].account
             /\ automations'[a].live => automations[a].live
             /\ automations[a].kind = "rule" /\ automations[a].account = i => ~ automations'[a].live
    BY <1>b, <1>5 DEF ArchiveRules, Automation
  <2>4. /\ crossed \subseteq crossed'
        /\ "build" \notin crossed' => \A x \in Handler :
              handler'[x].at \in {"ruleCap", "build"} => handler'[x].account # i
    BY <1>0, <1>a, <2>1, <2>2, CrossTells DEF HandlerState
  <2>5. ClaimsMatch' /\ BuildsMatch' /\ Owned'
    BY <1>a, <2>1, <2>2, <2>3, <2>4 DEF HandlerState, Uncrossed
  <2>6. Swept'
    BY <1>a, <2>1, <2>2, <2>3, <2>4 DEF HandlerState, Uncrossed
  <2>7. QED
    BY <2>5, <2>6
<1>6. ASSUME NEW h \in Handler, Claim(h)
      PROVE  Matches'
  <2> DEFINE s == handler[h]
             i == s.account
  <2>1. /\ s.at = "claim" /\ s.org \in Org /\ i \in Identity /\ automations' = automations
        /\ Cross(h, i)
    BY <1>a, <1>6 DEF Claim, Awaits, Fits
  <2>2. \A x \in Handler : handler'[x] = IF x = h THEN Free ELSE handler[x]
    BY <1>0, <1>6 DEF Claim, Done, HandlersFit
  <2>3. \A j \in Identity : /\ j # i => accounts'[j] = accounts[j]
                            /\ accounts'[i].org = s.org
    BY <1>0, <1>6, <2>1 DEF Claim, TablesTyped
  <2>4. /\ crossed \subseteq crossed'
        /\ "connect" \notin crossed' => \A x \in Handler :
              handler'[x].at \in {"cap", "archive", "claim"} => handler'[x].account # i
        /\ "build" \notin crossed' => \A x \in Handler :
              handler'[x].at \in {"ruleCap", "build"} => handler'[x].account # i
    BY <1>0, <2>1, <2>2, CrossTells DEF Free
  <2>5. \A x \in Handler : handler'[x].at \in {"cap", "archive", "claim", "ruleCap", "build"} =>
            handler'[x] = handler[x] /\ handler[x].account \in Identity
    BY <1>a, <2>2 DEF Free, Fits
  <2>6. ClaimsMatch'
    BY <2>3, <2>4, <2>5
  <2>7. BuildsMatch'
    BY <2>3, <2>4, <2>5
  <2>8. Swept'
    BY <2>1, <2>4, <2>5, <2>2 DEF Uncrossed
  <2>9. Owned'
    <3>1. SUFFICES ASSUME Uncrossed', NEW a \in DOMAIN automations,
                          automations[a].kind = "rule", automations[a].live
                   PROVE  accounts'[automations[a].account].org = automations[a].org
      BY <2>1
    <3>2. Uncrossed
      BY <2>4, <3>1 DEF Uncrossed
    <3>3. accounts[automations[a].account].org = automations[a].org
      BY <3>1, <3>2
    <3>4. accounts[i].org = s.seen
      BY <2>1, <3>2 DEF Uncrossed
    <3>5. automations[a].account = i => s.seen = s.org
      BY <1>b, <2>1, <3>1, <3>2, <3>3, <3>4, AccountAssumption DEF Automation
    <3>6. QED
      BY <1>b, <2>3, <3>3, <3>4, <3>5 DEF Automation
  <2>10. QED
    BY <2>6, <2>7, <2>8, <2>9
<1>7. ASSUME NEW h \in Handler, AssertCanCreateActiveRule(h)
      PROVE  Matches'
  BY <1>0, <1>a, <1>b, <1>7
     DEF AssertCanCreateActiveRule, Awaits, Goto, Done, Free, HandlersFit, HandlerState, Uncrossed
<1>8. ASSUME NEW h \in Handler, Create(h)
      PROVE  Matches'
  BY <1>0, <1>a, <1>b, <1>8 DEF Create, Awaits, Done, Free, HandlersFit, Uncrossed, TablesTyped
<1>9. QED
  BY <1>0, <1>1, <1>2, <1>3, <1>4, <1>5, <1>6, <1>7, <1>8, QuietSteps

------------------------------------------------------------------------------
(* The tokens                                                              *)

(* While no renewal crossed, a row has its own workspace's token, and so   *)
(* has a scan that is to renew it.                                         *)
TokensMatch ==
    "renewal" \notin crossed => \A i \in Identity :
        /\ accounts[i].token = accounts[i].org
        /\ \A h \in Handler : handler[h].held[i] \in {NoOrg, accounts[i].org}

TokensInv == WorkspacesTypes /\ TokensMatch

LEMMA TokensStep ==
    ASSUME TokensInv, [Next]_vars
    PROVE  TokensInv'
<1>0. WorkspacesTypes /\ WorkspacesTypes' /\ TablesTyped /\ HandlersFit
  BY TypeStep, TypesSplit DEF TokensInv
<1> SUFFICES TokensMatch'
  BY <1>0 DEF TokensInv
<1>a. \A x \in Handler : handler[x] \in HandlerState /\ Fits(handler[x])
  BY <1>0, InHand
<1> USE DEF TokensInv, TokensMatch
<1>1. ASSUME NEW h \in Handler, NEW i \in Identity, RefreshToken(h, i)
      PROVE  TokensMatch'
  BY <1>0, <1>a, <1>1 DEF RefreshToken, HandlersFit, TablesTyped, HandlerState, Account
<1>2. ASSUME NEW h \in Handler, Claim(h)
      PROVE  TokensMatch'
  <2> DEFINE s == handler[h]
             i == s.account
  <2>1. s.at = "claim" /\ s.org \in Org /\ i \in Identity /\ Cross(h, i)
    BY <1>a, <1>2 DEF Claim, Awaits, Fits
  <2>2. \A x \in Handler : handler'[x] = IF x = h THEN Free ELSE handler[x]
    BY <1>0, <1>2 DEF Claim, Done, HandlersFit
  <2>3. \A j \in Identity : /\ j # i => accounts'[j] = accounts[j]
                            /\ accounts'[i].org = s.org /\ accounts'[i].token = s.org
    BY <1>0, <1>2, <2>1 DEF Claim, TablesTyped
  <2>4. /\ crossed \subseteq crossed'
        /\ "renewal" \notin crossed' => \A x \in Handler : handler'[x].held[i] = NoOrg
    BY <1>0, <2>1, <2>2, CrossTells DEF Free, Nothing
  <2>5. QED
    BY <2>2, <2>3, <2>4 DEF Free, Nothing
<1>3. ASSUME NEW h \in Handler, StartScan(h)
      PROVE  TokensMatch'
  BY <1>0, <1>a, <1>3 DEF StartScan, Begin, Free, HandlersFit
<1>4. ASSUME NEW h \in Handler, ArchiveRules(h)
      PROVE  TokensMatch'
  BY <1>0, <1>a, <1>4, ZenonT(60) DEF ArchiveRules, Goto, Cross, HandlersFit, HandlerState
<1>5. ASSUME /\ \A i \in Identity : accounts'[i].org = accounts[i].org /\ accounts'[i].token = accounts[i].token
             /\ \A x \in Handler : handler'[x].held \in {handler[x].held, Nothing}
             /\ crossed' = crossed
      PROVE  TokensMatch'
  BY <1>5 DEF Nothing
<1>6. ASSUME NEW h \in Handler, NEW o \in Org, NEW i \in Identity,
             FindExisting(h, o, i) \/ FindAccount(h, o, i) \/ FindAccountFor(h, o, i)
      PROVE  TokensMatch'
  <2>1. CASE FindExisting(h, o, i)
    BY <1>0, <1>5, <2>1 DEF FindExisting, Begin, Free, HandlersFit
  <2>2. CASE FindAccount(h, o, i)
    BY <1>0, <1>5, <2>2 DEF FindAccount, Begin, Free, HandlersFit
  <2>3. CASE FindAccountFor(h, o, i)
    BY <1>0, <1>5, <2>3 DEF FindAccountFor, Begin, Free, HandlersFit
  <2>4. QED
    BY <1>6, <2>1, <2>2, <2>3
<1>7. ASSUME NEW h \in Handler, NEW a \in DOMAIN automations, FindAutomation(h, a)
      PROVE  TokensMatch'
  BY <1>0, <1>5, <1>7 DEF FindAutomation, Begin, Free, HandlersFit
<1>8. ASSUME NEW h \in Handler, NEW i \in Identity, RefreshRefused(h, i)
      PROVE  TokensMatch'
  BY <1>0, <1>a, <1>8 DEF RefreshRefused, HandlersFit, HandlerState
<1>9. ASSUME NEW h \in Handler, AssertCanConnect(h) \/ AssertCanCreateActiveRule(h)
      PROVE  TokensMatch'
  <2>1. \A x \in Handler : handler'[x].held \in {handler[x].held, Nothing}
    BY <1>0, <1>a, <1>9
       DEF AssertCanConnect, AssertCanCreateActiveRule, Goto, Done, Free, HandlersFit, HandlerState
  <2>2. QED
    BY <1>5, <1>9, <2>1 DEF AssertCanConnect, AssertCanCreateActiveRule
<1>10. ASSUME NEW h \in Handler, Create(h) \/ EditAutomation(h) \/ Fail(h)
       PROVE  TokensMatch'
  BY <1>0, <1>5, <1>10 DEF Create, EditAutomation, Fail, Done, Free, HandlersFit
<1>11. ASSUME NEW h \in Handler, Disconnect(h) \/ SyncProfile(h) \/ FlagExpiring(h)
       PROVE  TokensMatch'
  <2>1. \A i \in Identity : accounts'[i].org = accounts[i].org /\ accounts'[i].token = accounts[i].token
    <3>1. CASE Disconnect(h)
      BY <1>0, <3>1, Rows DEF Disconnect, TablesTyped, Account
    <3>2. CASE SyncProfile(h)
      BY <1>0, <3>2, Rows DEF SyncProfile, TablesTyped, Account
    <3>3. CASE FlagExpiring(h)
      BY <1>0, <3>3, Rows DEF FlagExpiring, FlagAll, TablesTyped, Account
    <3>4. QED
      BY <1>11, <3>1, <3>2, <3>3
  <2>2. Done(h) /\ crossed' = crossed
    BY <1>11 DEF Disconnect, SyncProfile, FlagExpiring, FlagAll
  <2>3. QED
    BY <1>0, <1>5, <2>1, <2>2 DEF Done, Free, HandlersFit
<1>12. ASSUME NEW i \in Identity, FlagByWorker(i)
       PROVE  TokensMatch'
  BY <1>0, <1>5, <1>12, Rows DEF FlagByWorker, TablesTyped, Account
<1>13. CASE Tick
  BY <1>0, <1>5, <1>13, Rows, ZenonT(60) DEF Tick, Account
<1>14. CASE UNCHANGED vars
  BY <1>14 DEF vars
<1>15. QED
  BY <1>1, <1>2, <1>3, <1>4, <1>6, <1>7, <1>8, <1>9, <1>10, <1>11, <1>12, <1>13, <1>14
     DEF Next, AccountProgress

(* A scan that no longer holds the token of a live account near its expiry *)
(* tried it and was refused, or had passed it by.                          *)
ScansTell ==
    \A i \in Identity :
        /\ accounts[i].live => accounts[i].token # NoOrg
        /\ \A h \in Handler :
             /\ handler[h].at = "renew" /\ handler[h].held[i] = NoOrg
             /\ accounts[i].live /\ accounts[i].left <= RefreshDays
             => i \in refused \/ i \in passed

FlagsInv == WorkspacesTypes /\ ScansTell /\ FlagsAreEarned

LEMMA FlagsStep ==
    ASSUME FlagsInv, [Next]_vars
    PROVE  FlagsInv'
<1>0. WorkspacesTypes /\ WorkspacesTypes' /\ TablesTyped /\ HandlersFit
  BY TypeStep, TypesSplit DEF FlagsInv
<1> DEFINE Flags == ScansTell /\ FlagsAreEarned
<1> SUFFICES Flags'
  BY <1>0 DEF FlagsInv
<1>a. \A x \in Handler : handler[x] \in HandlerState /\ Fits(handler[x])
  BY <1>0, InHand
<1>b. \A i \in Identity : accounts[i] \in Account
  BY <1>0, Rows
<1> USE AccountAssumption DEF FlagsInv, ScansTell, FlagsAreEarned
<1>1. ASSUME NEW h \in Handler, NEW i \in Identity, RefreshToken(h, i)
      PROVE  Flags'
  BY <1>0, <1>a, <1>1 DEF RefreshToken, HandlersFit, TablesTyped, HandlerState, Account
<1>2. ASSUME NEW h \in Handler, Claim(h)
      PROVE  Flags'
  <2> DEFINE s == handler[h]
             i == s.account
  <2>1. s.at = "claim" /\ s.org \in Org /\ i \in Identity
    BY <1>a, <1>2 DEF Claim, Awaits, Fits
  <2>2. \A x \in Handler : handler'[x] = IF x = h THEN Free ELSE handler[x]
    BY <1>0, <1>2 DEF Claim, Done, HandlersFit
  <2>3. \A j \in Identity : /\ j # i => accounts'[j] = accounts[j]
                            /\ accounts'[i].left = TokenDays /\ accounts'[i].token = s.org
    BY <1>0, <1>2, <2>1 DEF Claim, TablesTyped
  <2>4. refused' = refused \ {i} /\ passed' = passed \ {i} /\ flagged' = flagged \ {i}
    BY <1>2 DEF Claim
  <2>5. QED
    BY <2>1, <2>2, <2>3, <2>4 DEF Free
<1>3. ASSUME NEW h \in Handler, StartScan(h)
      PROVE  Flags'
  BY <1>0, <1>a, <1>b, <1>3 DEF StartScan, Begin, Free, HandlersFit, Listed
<1>4. ASSUME NEW h \in Handler, FlagExpiring(h)
      PROVE  Flags'
  <2>1. \A i \in Identity : /\ accounts'[i].live = accounts[i].live /\ accounts'[i].token = accounts[i].token
                            /\ accounts'[i].left = accounts[i].left
    BY <1>b, <1>4 DEF FlagExpiring, FlagAll, Account
  <2>2. \A x \in Handler : handler'[x] = IF x = h THEN Free ELSE handler[x]
    BY <1>0, <1>4 DEF FlagExpiring, FlagAll, Done, HandlersFit
  <2>3. /\ flagged' = flagged \cup Expiring /\ UNCHANGED <<refused, passed>>
        /\ handler[h].at = "renew" /\ handler[h].held = Nothing
    BY <1>4 DEF FlagExpiring, FlagAll, Awaits
  <2>4. \A i \in Expiring : i \in refused \/ i \in passed
    BY <1>b, <2>3 DEF Expiring, Nothing, Account
  <2>5. QED
    BY <2>1, <2>2, <2>3, <2>4 DEF Free
<1>5. ASSUME NEW h \in Handler, NEW i \in Identity, RefreshRefused(h, i)
      PROVE  Flags'
  BY <1>0, <1>a, <1>5 DEF RefreshRefused, HandlersFit, HandlerState
<1>6. CASE Tick
  BY <1>0, <1>b, <1>6 DEF Tick, Awaits, tokenVars, Account
<1>7. ASSUME /\ \A i \in Identity : /\ accounts'[i].live => accounts[i].live
                                    /\ accounts'[i].token = accounts[i].token
                                    /\ accounts'[i].left = accounts[i].left
             /\ \A x \in Handler : handler'[x] = handler[x] \/ handler'[x].at # "renew"
             /\ UNCHANGED tokenVars
      PROVE  Flags'
  BY <1>7 DEF tokenVars
<1>8. ASSUME NEW h \in Handler, NEW o \in Org, NEW i \in Identity,
             FindExisting(h, o, i) \/ FindAccount(h, o, i) \/ FindAccountFor(h, o, i)
      PROVE  Flags'
  <2>1. CASE FindExisting(h, o, i)
    BY <1>0, <1>7, <2>1 DEF FindExisting, Begin, Free, HandlersFit
  <2>2. CASE FindAccount(h, o, i)
    BY <1>0, <1>7, <2>2 DEF FindAccount, Begin, Free, HandlersFit
  <2>3. CASE FindAccountFor(h, o, i)
    BY <1>0, <1>7, <2>3 DEF FindAccountFor, Begin, Free, HandlersFit
  <2>4. QED
    BY <1>8, <2>1, <2>2, <2>3
<1>9. ASSUME NEW h \in Handler, NEW a \in DOMAIN automations, FindAutomation(h, a)
      PROVE  Flags'
  BY <1>0, <1>7, <1>9 DEF FindAutomation, Begin, Free, HandlersFit
<1>10. ASSUME NEW h \in Handler, AssertCanConnect(h) \/ AssertCanCreateActiveRule(h) \/ ArchiveRules(h)
       PROVE  Flags'
  <2>1. \A x \in Handler : handler'[x] = handler[x] \/ handler'[x].at # "renew"
    <3>1. ASSUME NEW step \in {"archive", "claim", "build"}, Goto(h, step)
          PROVE  \A x \in Handler : handler'[x] = handler[x] \/ handler'[x].at # "renew"
      BY <1>0, <1>a, <3>1 DEF Goto, HandlersFit, HandlerState
    <3>2. ASSUME Done(h)
          PROVE  \A x \in Handler : handler'[x] = handler[x] \/ handler'[x].at # "renew"
      BY <1>0, <3>2 DEF Done, Free, HandlersFit
    <3>3. QED
      BY <1>10, <3>1, <3>2 DEF AssertCanConnect, AssertCanCreateActiveRule, ArchiveRules
  <2>2. QED
    BY <1>7, <1>10, <2>1 DEF AssertCanConnect, AssertCanCreateActiveRule, ArchiveRules
<1>11. ASSUME NEW h \in Handler, Create(h) \/ EditAutomation(h) \/ Fail(h)
       PROVE  Flags'
  BY <1>0, <1>7, <1>11 DEF Create, EditAutomation, Fail, Done, Free, HandlersFit
<1>12. ASSUME NEW h \in Handler, Disconnect(h) \/ SyncProfile(h)
       PROVE  Flags'
  <2>1. \A i \in Identity : /\ accounts'[i].live => accounts[i].live
                            /\ accounts'[i].token = accounts[i].token
                            /\ accounts'[i].left = accounts[i].left
    <3>1. CASE Disconnect(h)
      BY <1>0, <3>1, Rows DEF Disconnect, TablesTyped, Account
    <3>2. CASE SyncProfile(h)
      BY <1>0, <3>2, Rows DEF SyncProfile, TablesTyped, Account
    <3>3. QED
      BY <1>12, <3>1, <3>2
  <2>2. QED
    BY <1>0, <1>7, <1>12, <2>1 DEF Disconnect, SyncProfile, Done, Free, HandlersFit
<1>13. ASSUME NEW i \in Identity, FlagByWorker(i)
       PROVE  Flags'
  BY <1>0, <1>b, <1>7, <1>13 DEF FlagByWorker, TablesTyped, Account
<1>14. CASE UNCHANGED vars
  BY <1>7, <1>14 DEF vars
<1>15. QED
  BY <1>1, <1>2, <1>3, <1>4, <1>5, <1>6, <1>8, <1>9, <1>10, <1>11, <1>12, <1>13, <1>14
     DEF Next, AccountProgress

------------------------------------------------------------------------------
(* Every table and every handler keeps its types, and no handler reaches   *)
(* an await without what it reads there: no matter how many requests and   *)
(* scans cross, and which of them fail.                                    *)
THEOREM AccountsTypeTheorem == Spec => []AccountsTypeOK
<1>1. Spec => []WorkspacesTypes
  BY InitTypes, TypeStep, PTL DEF Spec
<1>2. WorkspacesTypes => AccountsTypeOK
  BY DEF WorkspacesTypes
<1>3. QED
  BY <1>1, <1>2, PTL

(* What a claim and the making of a rule have read still holds when they   *)
(* write, unless one of them was crossed, and what a claim has swept stays *)
(* swept: the invariant that the next two theorems follow from.            *)
THEOREM OwnersInvariant == Spec => []OwnersInv
BY InitOwners, OwnersStep, PTL DEF Spec

(* No active rule of another workspace is on a live account, unless a      *)
(* claim crossed another claim or the making of a rule: what the archiving *)
(* of the old workspace's rules is there for.                              *)
THEOREM RulesFollowAccountTheorem == Spec => []RulesFollowAccount
<1>1. ASSUME OwnersInv PROVE RulesFollowAccount
  BY <1>1 DEF OwnersInv, Owned, Uncrossed, RulesFollowAccount, Foreign
<1>2. QED
  BY <1>1, OwnersInvariant, PTL

(* A live account changes its workspace only when two callbacks crossed:   *)
(* the conflict check is made on the row that the upsert still finds.      *)
THEOREM TakeoversCrossTheorem == Spec => TakeoversCross
<1> DEFINE Kept == \A i \in Identity :
        accounts[i].live /\ accounts'[i].live /\ accounts'[i].org # accounts[i].org
            => "connect" \in crossed
<1>1. ASSUME OwnersInv, [Next]_vars PROVE Kept
  <2>0. WorkspacesTypes /\ TablesTyped
    BY <1>1, TypesSplit DEF OwnersInv
  <2>1. ASSUME NEW h \in Handler, Claim(h) PROVE Kept
    <3>1. /\ handler[h].at = "claim" /\ handler[h].account \in Identity
          /\ \A j \in Identity : accounts'[j] = IF j = handler[h].account THEN accounts'[j] ELSE accounts[j]
          /\ accounts'[handler[h].account].org = handler[h].org
      BY <2>0, <2>1, InHand DEF Claim, Awaits, Fits, TablesTyped
    <3>2. QED
      BY <1>1, <3>1 DEF OwnersInv, ClaimsMatch
  <2>2. ASSUME UNCHANGED accounts PROVE Kept
    BY <2>2
  <2>3. CASE Quiet
    BY <2>3 DEF Quiet
  <2>4. QED
    BY <1>1, <2>0, <2>1, <2>2, <2>3, QuietSteps
       DEF FindExisting, FindAccountFor, AssertCanConnect, ArchiveRules, AssertCanCreateActiveRule, Create
<1>2. ASSUME OwnersInv, [Next]_vars PROVE [Kept]_vars
  BY <1>1, <1>2
<1> HIDE DEF Kept
<1>3. Spec => [][Kept]_vars
  BY <1>2, OwnersInvariant, PTL DEF Spec
<1>4. QED
  BY <1>3 DEF Kept, TakeoversCross

(* A live account has a token that its own workspace authorised, unless it *)
(* was connected while a scan was renewing the one it had before.          *)
THEOREM TokensFitTheorem == Spec => []TokensFitWorkspace
<1>1. Init => TokensInv
  BY InitTypes DEF Init, TokensInv, TokensMatch, NoAccount, Free, Nothing
<1>2. TokensInv => TokensFitWorkspace
  BY DEF TokensInv, TokensMatch, TokensFitWorkspace
<1>3. QED
  BY <1>1, <1>2, TokensStep, PTL DEF Spec

(* A scan flags no account that renews cleanly. *)
THEOREM FlagsAreEarnedTheorem == Spec => []FlagsAreEarned
<1>1. Init => FlagsInv
  BY InitTypes DEF Init, FlagsInv, ScansTell, FlagsAreEarned, NoAccount, Free
<1>2. FlagsInv => FlagsAreEarned
  BY DEF FlagsInv
<1>3. QED
  BY <1>1, <1>2, FlagsStep, PTL DEF Spec
==============================================================================
