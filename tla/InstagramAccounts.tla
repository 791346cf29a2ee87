--------------------------- MODULE InstagramAccounts ---------------------------
(***************************************************************************)
(* The handlers of growasy-api                                             *)
(* src/modules/instagram/instagram-accounts.service.ts and of its token    *)
(* monitor: one action per awaited read or write.  The calls to Meta that  *)
(* lie between them keep nothing here.                                     *)
(***************************************************************************)
EXTENDS AccountState

LiveOf(o) == {i \in Identity : accounts[i].live /\ accounts[i].org = o}

------------------------------------------------------------------------------
(* handleOAuthCallback                                                     *)

(* Mutant: an account that another workspace has live is taken from it.    *)
FindRemovedOrLive(h, o, i) ==
    LET existing == accounts[i] IN
    /\ Begin(h, [Free EXCEPT !.at = IF existing.live /\ existing.org = o THEN "claim" ELSE "cap",
                             !.for = "connect", !.org = o, !.account = i, !.seen = existing.org])
    /\ UNCHANGED <<accounts, automations, scans, crossed, tokenVars, budgetVars>>

(* "A LIVE account in a different workspace is a hard conflict".  A        *)
(* reconnect of the workspace's own account is not counted again.          *)
FindExisting(h, o, i) ==
    LET existing == accounts[i] IN
    /\ existing.live => existing.org = o
    /\ Begin(h, [Free EXCEPT !.at = IF existing.live THEN "claim" ELSE "cap", !.for = "connect",
                             !.org = o, !.account = i, !.seen = existing.org])
    /\ UNCHANGED <<accounts, automations, scans, crossed, tokenVars, budgetVars>>

AtAccountCap(o) == Cardinality(LiveOf(o)) >= MaxAccounts

AssertCanConnect(h) ==
    LET s == handler[h] IN
    /\ Awaits(h, "cap")
    /\ IF AtAccountCap(s.org) THEN Done(h)
       ELSE Goto(h, IF s.seen \in {NoOrg, s.org} THEN "claim" ELSE "archive")
    /\ UNCHANGED <<accounts, automations, scans, crossed, tokenVars, budgetVars>>

(* Mutant: the rules are paused and not removed, their workspace can start *)
(* them again.                                                             *)
PauseRules(h) ==
    LET i == handler[h].account IN
    /\ Awaits(h, "archive")
    /\ automations' = [a \in DOMAIN automations |->
            IF automations[a].kind = "rule" /\ automations[a].account = i
            THEN [automations[a] EXCEPT !.active = FALSE] ELSE automations[a]]
    /\ Goto(h, "claim")
    /\ Cross(h, i)
    /\ UNCHANGED <<accounts, scans, tokenVars, budgetVars>>

(* "archive that workspace's now-dead automation rules": rules only, its   *)
(* workflows stay as they are.                                             *)
ArchiveRules(h) ==
    LET i == handler[h].account IN
    /\ Awaits(h, "archive")
    /\ automations' = [a \in DOMAIN automations |->
            IF automations[a].kind = "rule" /\ automations[a].account = i
            THEN [automations[a] EXCEPT !.active = FALSE, !.live = FALSE] ELSE automations[a]]
    /\ Goto(h, "claim")
    /\ Cross(h, i)
    /\ UNCHANGED <<accounts, scans, tokenVars, budgetVars>>

(* Mutant: what was removed keeps the token that it had. *)
ClaimOldToken(h) ==
    LET s == handler[h] IN
    /\ Awaits(h, "claim")
    /\ accounts' = [accounts EXCEPT ![s.account] =
            [org |-> s.org, live |-> TRUE, status |-> "CONNECTED",
             token |-> IF @.token = NoOrg THEN s.org ELSE @.token,
             left |-> TokenDays, touched |-> "today"]]
    /\ Cross(h, s.account)
    /\ refused' = refused \ {s.account} /\ passed' = passed \ {s.account} /\ flagged' = flagged \ {s.account}
    /\ Done(h)
    /\ UNCHANGED <<automations, scans, budgetVars>>

(* The upsert, on the unique identity: whatever the row is by now.         *)
Claim(h) ==
    LET s == handler[h] IN
    /\ Awaits(h, "claim")
    /\ accounts' = [accounts EXCEPT ![s.account] =
            [org |-> s.org, live |-> TRUE, status |-> "CONNECTED", token |-> s.org,
             left |-> TokenDays, touched |-> "today"]]
    /\ Cross(h, s.account)
    /\ refused' = refused \ {s.account}
    /\ passed' = passed \ {s.account}
    /\ flagged' = flagged \ {s.account}
    /\ Done(h)
    /\ UNCHANGED <<automations, scans, budgetVars>>

------------------------------------------------------------------------------
(* disconnect and syncProfile: the row is found in its workspace, and      *)
(* after a call to Meta updated by its id.                                 *)

FindAccount(h, o, i) ==
    /\ Edit
    /\ i \in LiveOf(o)
    /\ \E request \in {"removal", "sync"} :
        Begin(h, [Free EXCEPT !.at = IF request = "sync" THEN "sync" ELSE "remove",
                              !.for = request, !.org = o, !.account = i])
    /\ UNCHANGED <<accounts, automations, scans, crossed, tokenVars>>

Disconnect(h) ==
    LET i == handler[h].account IN
    /\ Awaits(h, "remove")
    /\ accounts' = [accounts EXCEPT ![i].live = FALSE, ![i].status = "DISCONNECTED",
                                    ![i].touched = "today"]
    /\ Done(h)
    /\ UNCHANGED <<automations, scans, crossed, tokenVars, budgetVars>>

(* Meta answers with the profile, or refuses the token. *)
SyncProfile(h) ==
    LET i == handler[h].account IN
    /\ Awaits(h, "sync")
    /\ \E status \in {"CONNECTED", "ERROR"} :
        /\ status = "CONNECTED" => accounts[i].left > 0
        /\ accounts' = [accounts EXCEPT ![i].status = status, ![i].touched = "today"]
    /\ Done(h)
    /\ UNCHANGED <<automations, scans, crossed, tokenVars, budgetVars>>

(* The workers flag an account whose token Meta did not take. *)
FlagByWorker(i) ==
    /\ Edit
    /\ accounts[i].org # NoOrg
    /\ accounts' = [accounts EXCEPT ![i].status = "NEEDS_RECONNECT", ![i].touched = "today"]
    /\ UNCHANGED <<automations, handler, scans, crossed, tokenVars>>

------------------------------------------------------------------------------
(* scanTokens                                                              *)

Listed == {i \in Identity : accounts[i].live /\ accounts[i].status = "CONNECTED"
                            /\ accounts[i].left \in 1..RefreshDays}

(* What was written yesterday may or may not be 25 hours old. *)
MayBeYoung(i) == accounts[i].touched \in {"today", "yesterday"}
Young(i) == accounts[i].touched = "today"

(* Each process scans once a night. *)
StartScan(h) ==
    /\ scans < Cardinality(Handler)
    /\ scans' = scans + 1
    /\ \E young \in SUBSET Listed :
        /\ \A i \in Listed : (Young(i) => i \in young) /\ (i \in young => MayBeYoung(i))
        /\ passed' = passed \cup {i \in Identity \ (Listed \ young) :
                                accounts[i].live /\ accounts[i].left <= RefreshDays}
        /\ Begin(h, [Free EXCEPT !.at = "renew", !.for = "renewal",
                    !.held = [i \in Identity |-> IF i \in Listed \ young THEN accounts[i].token ELSE NoOrg]])
    /\ UNCHANGED <<accounts, automations, crossed, refused, flagged, budgetVars>>

(* Mutant: the days of the new token are added to those of the old. *)
RefreshTokenAdding(h, i) ==
    /\ Awaits(h, "renew")
    /\ handler[h].held[i] # NoOrg
    /\ accounts' = [accounts EXCEPT ![i].token = handler[h].held[i], ![i].left = @ + TokenDays,
                                    ![i].touched = "today"]
    /\ handler' = [handler EXCEPT ![h].held[i] = NoOrg]
    /\ refused' = refused \ {i} /\ passed' = passed \ {i} /\ flagged' = flagged \ {i}
    /\ UNCHANGED <<automations, scans, crossed, budgetVars>>

(* The new token and its expiry, and not the status. *)
RefreshToken(h, i) ==
    /\ Awaits(h, "renew")
    /\ handler[h].held[i] # NoOrg
    /\ accounts' = [accounts EXCEPT ![i].token = handler[h].held[i], ![i].left = TokenDays,
                                    ![i].touched = "today"]
    /\ handler' = [handler EXCEPT ![h].held[i] = NoOrg]
    /\ refused' = refused \ {i}
    /\ passed' = passed \ {i}
    /\ flagged' = flagged \ {i}
    /\ UNCHANGED <<automations, scans, crossed, budgetVars>>

(* "a revoked token, a changed password, or an account that lost the       *)
(* permission": the scan goes on with the next account.                    *)
RefreshRefused(h, i) ==
    /\ Edit
    /\ Awaits(h, "renew")
    /\ handler[h].held[i] # NoOrg
    /\ handler' = [handler EXCEPT ![h].held[i] = NoOrg]
    /\ refused' = refused \cup {i}
    /\ UNCHANGED <<accounts, automations, scans, crossed, passed, flagged>>

Expiring == {i \in Identity : accounts[i].live /\ accounts[i].status = "CONNECTED"
                              /\ accounts[i].left <= WarnDays}

FlagAll(h, which) ==
    /\ accounts' = [i \in Identity |-> IF i \in which
            THEN [accounts[i] EXCEPT !.status = "NEEDS_RECONNECT", !.touched = "today"]
            ELSE accounts[i]]
    /\ flagged' = flagged \cup which
    /\ Done(h)
    /\ UNCHANGED <<automations, scans, crossed, refused, passed, budgetVars>>

(* Mutant: the flagging pass does not wait for the renewals. *)
FlagExpiringAtOnce(h) == Awaits(h, "renew") /\ FlagAll(h, Expiring)

(* "Anything still near expiry after the refresh pass", in one update.     *)
FlagExpiring(h) ==
    /\ Awaits(h, "renew")
    /\ handler[h].held = Nothing
    /\ FlagAll(h, Expiring)

AccountProgress(h) ==
    \/ AssertCanConnect(h) \/ ArchiveRules(h) \/ Claim(h) \/ Disconnect(h) \/ SyncProfile(h)
    \/ \E i \in Identity : RefreshToken(h, i)
    \/ FlagExpiring(h)
==============================================================================
