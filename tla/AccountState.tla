----------------------------- MODULE AccountState -----------------------------
(***************************************************************************)
(* Instagram accounts and the automations built on them (growasy-api       *)
(* src/modules/instagram, automation and workflows), as several workspaces *)
(* share them: "one Instagram identity can only be connected to one        *)
(* workspace at a time".  The API runs as a cluster, so requests and the   *)
(* nightly token scans of several processes cross each other.              *)
(*                                                                         *)
(* An account is the one row of its Instagram identity.  Plans stay as     *)
(* they are.  What is kept of a token is who authorised it and how many    *)
(* days it has left.                                                       *)
(***************************************************************************)
EXTENDS Integers, Sequences, FiniteSets

CONSTANTS
    Handler,        \* concurrent requests and scans
    Org, NoOrg,     \* workspaces
    Identity,       \* Instagram identities (instagramBusinessId)
    MaxAccounts,    \* maxInstagramAccounts of every plan
    MaxRules,       \* maxAutomations of every plan
    TokenDays,      \* life of a long-lived token
    RefreshDays,    \* REFRESH_WINDOW_MS
    WarnDays,       \* RECONNECT_WARNING_WINDOW_MS
    MaxAutomations, \* bounds: automations ever created,
    MaxUpsets       \* faults, and what users and Meta change

ASSUME AccountAssumption ==
    /\ NoOrg \notin Org /\ IsFiniteSet(Handler) /\ IsFiniteSet(Identity)
    /\ {MaxAccounts, MaxRules, MaxAutomations, MaxUpsets} \subseteq Nat
    /\ {TokenDays, RefreshDays, WarnDays} \subseteq Nat
    /\ WarnDays < RefreshDays /\ RefreshDays < TokenDays

VARIABLES
    accounts,       \* instagram_accounts, by identity
    automations,    \* automation_rules and workflows, in the order they were created
    handler,        \* what each handler awaits, and its locals
    scans,          \* token scans begun today
    \* History, read by no action of the code
    crossed,        \* what was under way on an account while it was taken over or connected
    refused, passed, flagged, \* of each token: Meta refused to renew it, a scan
                    \* did not try, a scan flagged its account
    faults, edits

tokenVars == <<refused, passed, flagged>>
budgetVars == <<faults, edits>>
vars == <<accounts, automations, handler, scans, crossed, tokenVars, budgetVars>>

Status == {"CONNECTED", "NEEDS_RECONNECT", "ERROR", "DISCONNECTED"}

(* org is NoOrg while there is no row.  touched tells how long ago         *)
(* updatedAt is; the scan skips what was written in the last 25 hours.     *)
Account == [org : Org \cup {NoOrg}, live : BOOLEAN, status : Status,
            token : Org \cup {NoOrg}, left : 0..TokenDays,
            touched : {"today", "yesterday", "before"}]

Automation == [kind : {"rule", "workflow"}, org : Org, account : Identity,
               active : BOOLEAN, live : BOOLEAN]

Request == {"connect", "removal", "sync", "build", "edit"}

(* held: the tokens a scan has read and not yet renewed, by who authorised *)
(* them.                                                                   *)
HandlerState == [at : {"idle", "cap", "archive", "claim", "remove", "sync", "ruleCap", "build",
                       "edit", "renew"},
                 for : Request \cup {"none", "renewal"},
                 org : Org \cup {NoOrg}, account : Identity \cup {NoOrg},
                 seen : Org \cup {NoOrg}, kind : {"rule", "workflow"}, row : Nat,
                 held : [Identity -> Org \cup {NoOrg}]]

(* What may be told of in crossed. *)
Told == {"connect", "build", "renewal"}

Nothing == [i \in Identity |-> NoOrg]

Free == [at |-> "idle", for |-> "none", org |-> NoOrg, account |-> NoOrg, seen |-> NoOrg,
         kind |-> "rule", row |-> 0, held |-> Nothing]

AccountsTypeOK ==
    /\ accounts \in [Identity -> Account]
    /\ automations \in Seq(Automation)
    /\ handler \in [Handler -> HandlerState]
    /\ scans \in 0..Cardinality(Handler)
    /\ crossed \subseteq Told
    /\ {refused, passed, flagged} \subseteq SUBSET Identity
    /\ faults \in 0..MaxUpsets /\ edits \in 0..MaxUpsets

NoAccount == [org |-> NoOrg, live |-> FALSE, status |-> "DISCONNECTED", token |-> NoOrg,
              left |-> 0, touched |-> "before"]

Init ==
    /\ accounts = [i \in Identity |-> NoAccount]
    /\ automations = <<>>
    /\ handler = [h \in Handler |-> Free]
    /\ scans = 0
    /\ crossed = {}
    /\ refused = {} /\ passed = {} /\ flagged = {}
    /\ faults = 0 /\ edits = 0

------------------------------------------------------------------------------
Awaits(h, step) == handler[h].at = step
Goto(h, step) == handler' = [handler EXCEPT ![h].at = step]
Done(h) == handler' = [handler EXCEPT ![h] = Free]
Begin(h, state) == Awaits(h, "idle") /\ handler' = [handler EXCEPT ![h] = state]

(* What a request or a scan holds of an account it has read. *)
UnderWay(h, i) == handler[h].account = i \/ handler[h].held[i] # NoOrg

Cross(h, i) ==
    crossed' = crossed \cup (Told \cap {handler[x].for : x \in {x \in Handler \ {h} : UnderWay(x, i)}})

Fault == faults + edits < MaxUpsets /\ faults' = faults + 1 /\ UNCHANGED edits
Edit == faults + edits < MaxUpsets /\ edits' = edits + 1 /\ UNCHANGED faults
==============================================================================
