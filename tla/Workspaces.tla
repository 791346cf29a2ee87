------------------------------ MODULE Workspaces ------------------------------
(***************************************************************************)
(* Workspaces that connect, build on, remove and take over Instagram       *)
(* accounts: growasy-api src/modules/automation/automation-rules.service   *)
(* and workflows.service beside InstagramAccounts.  The workers fire every *)
(* active automation of a live account, whichever workspace made it        *)
(* (webhook-processing.processor.ts, workflow-engine.ts).                  *)
(***************************************************************************)
EXTENDS InstagramAccounts

(* A rule wants an account that is connected, a workflow a live one. *)
FindAccountFor(h, o, i) ==
    /\ i \in LiveOf(o)
    /\ Len(automations) < MaxAutomations
    /\ \E kind \in {"rule", "workflow"} :
        /\ kind = "rule" => accounts[i].status = "CONNECTED"
        /\ \E active \in BOOLEAN :
            Begin(h, [Free EXCEPT !.at = IF kind = "rule" /\ active THEN "ruleCap" ELSE "build",
                                  !.for = "build", !.org = o, !.account = i, !.kind = kind,
                                  !.row = IF kind = "rule" /\ active THEN 1 ELSE 0])
    /\ UNCHANGED <<accounts, automations, scans, crossed, tokenVars, budgetVars>>

ActiveRules(o) == {a \in DOMAIN automations :
    automations[a].kind = "rule" /\ automations[a].org = o /\ automations[a].active /\ automations[a].live}

AssertCanCreateActiveRule(h) ==
    /\ Awaits(h, "ruleCap")
    /\ IF Cardinality(ActiveRules(handler[h].org)) >= MaxRules THEN Done(h) ELSE Goto(h, "build")
    /\ UNCHANGED <<accounts, automations, scans, crossed, tokenVars, budgetVars>>

(* A workflow begins as a draft.  At the bound the insert fails. *)
Create(h) ==
    LET s == handler[h] IN
    /\ Awaits(h, "build")
    /\ automations' = IF Len(automations) = MaxAutomations THEN automations
                      ELSE Append(automations, [kind |-> s.kind, org |-> s.org, account |-> s.account,
                                                active |-> s.row = 1, live |-> TRUE])
    /\ Done(h)
    /\ UNCHANGED <<accounts, scans, crossed, tokenVars, budgetVars>>

(* Found in its workspace, whatever became of the account ... *)
FindAutomation(h, a) ==
    /\ Edit
    /\ automations[a].live
    /\ Begin(h, [Free EXCEPT !.at = "edit", !.for = "edit", !.org = automations[a].org, !.row = a])
    /\ UNCHANGED <<accounts, automations, scans, crossed, tokenVars>>

(* ... and activated, paused or removed by its id. *)
EditAutomation(h) ==
    LET a == handler[h].row IN
    /\ Awaits(h, "edit")
    /\ \/ \E active \in BOOLEAN : automations' = [automations EXCEPT ![a].active = active]
       \/ automations' = [automations EXCEPT ![a].active = FALSE, ![a].live = FALSE]
    /\ Done(h)
    /\ UNCHANGED <<accounts, scans, crossed, tokenVars, budgetVars>>

------------------------------------------------------------------------------
(* A night passes.  The scan runs in it, unless the API is down. *)
Older == [today |-> "yesterday", yesterday |-> "before", before |-> "before"]

Tick ==
    /\ \E i \in Identity : accounts[i].left > 0
    /\ \A h \in Handler : Awaits(h, "idle")
    /\ IF scans > 0 THEN UNCHANGED budgetVars ELSE Fault
    /\ scans' = 0
    /\ accounts' = [i \in Identity |-> [accounts[i] EXCEPT
            !.left = IF @ = 0 THEN 0 ELSE @ - 1, !.touched = Older[@]]]
    /\ UNCHANGED <<automations, handler, crossed, tokenVars>>

(* The awaited call throws, or the process stops. *)
Fail(h) ==
    /\ ~ Awaits(h, "idle")
    /\ Fault
    /\ Done(h)
    /\ UNCHANGED <<accounts, automations, scans, crossed, tokenVars>>

Next ==
    \/ \E h \in Handler :
        \/ \E o \in Org, i \in Identity : FindExisting(h, o, i) \/ FindAccount(h, o, i) \/ FindAccountFor(h, o, i)
        \/ \E a \in DOMAIN automations : FindAutomation(h, a)
        \/ \E i \in Identity : RefreshRefused(h, i)
        \/ StartScan(h) \/ AccountProgress(h)
        \/ AssertCanCreateActiveRule(h) \/ Create(h) \/ EditAutomation(h) \/ Fail(h)
    \/ \E i \in Identity : FlagByWorker(i)
    \/ Tick

Spec == Init /\ [][Next]_vars

------------------------------------------------------------------------------
(* Properties                                                              *)

Foreign(a) ==
    /\ automations[a].live /\ automations[a].active
    /\ accounts[automations[a].account].live
    /\ accounts[automations[a].account].org # automations[a].org

(* instagram-accounts.service.ts: old rules are archived "so they can't    *)
(* fire on the account once it lives under the new org".  No active rule   *)
(* of another workspace is ever on a live account, whatever is connected,  *)
(* removed, edited and taken over in which order, unless the account was   *)
(* claimed while another claim or the making of a rule was under way.      *)
RulesFollowAccount ==
    \A a \in DOMAIN automations :
        automations[a].kind = "rule" /\ Foreign(a) => crossed \cap {"connect", "build"} # {}

(* instagram-accounts.service.ts: "Claim the row for the connecting        *)
(* workspace (safe: a LIVE account in another org was already rejected     *)
(* above)".  A live account changes its workspace only when two callbacks  *)
(* for it crossed.                                                         *)
TakeoversCross ==
    [][\A i \in Identity :
        accounts[i].live /\ accounts'[i].live /\ accounts'[i].org # accounts[i].org
            => "connect" \in crossed]_vars

(* The token of a live account is one that its own workspace authorised,   *)
(* unless the account was connected while a scan was renewing the one it   *)
(* had before: the renewal is written by id.                               *)
TokensFitWorkspace ==
    \A i \in Identity : accounts[i].live => accounts[i].token = accounts[i].org \/ "renewal" \in crossed

(* instagram-token-monitor.service.ts: "an account that renews cleanly     *)
(* never shows the customer a reconnect prompt".  A scan flags an account  *)
(* only when Meta refused to renew its token, or when a scan did not try,  *)
(* because the row had just been written, was not CONNECTED when it was    *)
(* listed, or held a token that had run out.                               *)
FlagsAreEarned == \A i \in flagged : i \in refused \/ i \in passed
==============================================================================
