------------------------- MODULE AutomationExecution -------------------------
(***************************************************************************)
(* Stage 2 (growasy-worker/src/queues/automation-execution.processor.ts):  *)
(* one action per awaited call of processAutomationExecution and           *)
(* processSendLeadReply.  Their quota calls are the actions of DmQuota.    *)
(* Every rule has a DM text (the API's DTO requires one), so willSendDm is *)
(* always true; the public comment reply changes no state and its failure  *)
(* is swallowed, so it has no action.                                      *)
(***************************************************************************)
EXTENDS PipelineState

RuleOf(w) == worker[w].job.rule

(* The rule is read with its account: deletedAt of the rule counts, its    *)
(* status does not; of the account only the status is looked at.           *)
LoadRule(w) ==
    /\ Awaits(w, "load")
    /\ IF ruleStatus[RuleOf(w)] = "ARCHIVED" THEN Goto(w, "finish")
       ELSE IF account.status # "CONNECTED" THEN Write(w, "mark", "needs_reconnect")
       ELSE Goto(w, "consent")
    /\ UNCHANGED <<job, rowVars, tenantVars, outVars, budgetVars, quotaVars>>

(* Mutant: the opt-out is not looked at. *)
CheckNoConsent(w) ==
    /\ Awaits(w, "consent")
    /\ Goto(w, "cap")
    /\ UNCHANGED <<job, rowVars, tenantVars, outVars, budgetVars, quotaVars>>

CheckConsent(w) ==
    /\ Awaits(w, "consent")
    /\ IF contact = "unsubscribed" THEN Write(w, "mark", "unsubscribed") ELSE Goto(w, "cap")
    /\ UNCHANGED <<job, rowVars, tenantVars, outVars, budgetVars, quotaVars>>

(* The per-contact cap counts the ledger rows marked dmSent. *)
RecentDms == Cardinality({e \in Event : ledger[e].sent})

CheckContactCap(w) ==
    /\ Awaits(w, "cap")
    /\ IF RecentDms >= Config[RuleOf(w)].cap THEN Write(w, "mark", "rate_limited")
       ELSE Goto(w, "quota")
    /\ UNCHANGED <<job, rowVars, tenantVars, outVars, budgetVars, quotaVars>>

GetDmQuota(w) ==
    /\ Awaits(w, "quota")
    /\ ReadQuota(w)
    /\ Goto(w, "reserve")
    /\ UNCHANGED <<job, rowVars, tenantVars, outVars, budgetVars>>

IncrementDmUsage(w) ==
    /\ Awaits(w, "reserve")
    /\ Reserve(w)
    /\ Goto(w, IF sender'[w].at = "over" THEN "release" ELSE "send")
    /\ UNCHANGED <<job, rowVars, tenantVars, outVars, budgetVars>>

(* The slot goes back when it was over the cap, and when the send failed. *)
DecrementDmUsage(w) ==
    /\ Awaits(w, "release")
    /\ Release(w)
    /\ worker' = [worker EXCEPT ![w] =
         IF sender[w].at = "over"
         THEN [@ EXCEPT !.at = "mark", !.note = "plan_limit_reached", !.period = sender[w].period]
         ELSE IF worker[w].error = "auth"
         THEN [@ EXCEPT !.at = "flag", !.note = "needs_reconnect"]
         ELSE [@ EXCEPT !.at = "mark", !.note = "failed"]]
    /\ UNCHANGED <<job, rowVars, tenantVars, outVars, budgetVars>>

(* Mutant: a client that repeats the request when the answer is slow. *)
SendDmRepeated(w) ==
    /\ Awaits(w, "send")
    /\ delivered' = [delivered EXCEPT ![EventOf(w)] = @ + 1]
    /\ \/ Write(w, IF Config[RuleOf(w)].collects THEN "open" ELSE "mark", "dm_sent")
       \/ UNCHANGED worker
    /\ UNCHANGED <<job, rowVars, tenantVars, replied, handed, budgetVars, quotaVars>>

(* Sent: a rule that collects emails opens a capture before the ledger is  *)
(* marked.                                                                 *)
SendDm(w) ==
    /\ Awaits(w, "send")
    /\ delivered' = [delivered EXCEPT ![EventOf(w)] = @ + 1]
    /\ Write(w, IF Config[RuleOf(w)].collects THEN "open" ELSE "mark", "dm_sent")
    /\ UNCHANGED <<job, rowVars, tenantVars, replied, handed, budgetVars, quotaVars>>

(* Meta refuses the token, throttles, or answers with another error; the   *)
(* answer to a message that did arrive may be lost on the way (timeout).   *)
SendDmFails(w) ==
    /\ Awaits(w, "send")
    /\ Fault
    /\ \E error \in {"auth", "limited", "other"} :
        /\ worker' = [worker EXCEPT ![w].at = "release", ![w].error = error]
        /\ \/ UNCHANGED delivered
           \/ /\ error = "other"
              /\ delivered' = [delivered EXCEPT ![EventOf(w)] = @ + 1]
    /\ UNCHANGED <<job, rowVars, tenantVars, replied, handed, quotaVars>>

(* openLeadCapture: a fresh trigger restarts the window and the attempts. *)
OpenLeadCapture(w) ==
    /\ Awaits(w, "open")
    /\ capture' = [status |-> "AWAITING", attempts |-> 0, rule |-> RuleOf(w), open |-> TRUE]
    /\ Goto(w, "mark")
    /\ UNCHANGED <<job, ledger, contact, notices, tenantVars, outVars, budgetVars, quotaVars>>

AfterMark(w) ==
    CASE worker[w].note = "plan_limit_reached" -> "findNotice"
      [] worker[w].note = "failed" /\ worker[w].error = "limited" -> "throttled"
      [] worker[w].note = "failed" /\ worker[w].error # "limited" -> "rethrow"
      [] OTHER -> "finish"

(* Mutant: every outcome is written with dmSent set. *)
SentAlways(before, note) == TRUE

Sent(before, note) == before \/ note = "dm_sent"

(* markProcessed: dmSent is set by the successful send and left alone by   *)
(* every other outcome, which it survives.                                 *)
MarkProcessed(w) ==
    LET note == worker[w].note IN
    /\ Awaits(w, "mark")
    /\ ledger' = [ledger EXCEPT ![EventOf(w)].outcome = note,
                                ![EventOf(w)].sent = Sent(@, note)]
    /\ Goto(w, AfterMark(w))
    /\ IF note = "dm_sent" THEN Keep(w) ELSE UNCHANGED quotaVars
    /\ UNCHANGED <<job, contact, capture, notices, tenantVars, outVars, budgetVars>>

(* The account is flagged whatever became of it since its token was read. *)
FlagAccount(w) ==
    /\ Awaits(w, "flag")
    /\ account' = [account EXCEPT !.status = "NEEDS_RECONNECT"]
    /\ Goto(w, IF worker[w].job.queue = "execution" THEN "mark" ELSE "finish")
    /\ UNCHANGED <<job, rowVars, orgActive, ruleStatus, outVars, budgetVars, quotaVars>>

(* notifyMonthlyDmLimit looks for the period's notification ... *)
FindNotice(w) ==
    /\ Awaits(w, "findNotice")
    /\ Goto(w, IF notices[worker[w].period] > 0 THEN "finish" ELSE "notice")
    /\ UNCHANGED <<job, rowVars, tenantVars, outVars, budgetVars, quotaVars>>

(* ... and creates it. *)
CreateNotice(w) ==
    /\ Awaits(w, "notice")
    /\ notices' = [notices EXCEPT ![worker[w].period] = @ + 1]
    /\ Goto(w, "finish")
    /\ UNCHANGED <<job, ledger, contact, capture, tenantVars, outVars, budgetVars, quotaVars>>

------------------------------------------------------------------------------
(* processSendLeadReply                                                    *)

LoadAccount(w) ==
    /\ Awaits(w, "account")
    /\ Goto(w, IF account.live /\ account.status = "CONNECTED" THEN "replyQuota" ELSE "finish")
    /\ UNCHANGED <<job, rowVars, tenantVars, outVars, budgetVars, quotaVars>>

(* Only the billing period is used, never the cap. *)
GetReplyPeriod(w) ==
    /\ Awaits(w, "replyQuota")
    /\ ReadQuota(w)
    /\ Goto(w, "replySend")
    /\ UNCHANGED <<job, rowVars, tenantVars, outVars, budgetVars>>

(* Mutant: a reply that is not charged. *)
SendReplyFree(w) ==
    /\ Awaits(w, "replySend")
    /\ Abandon(w)
    /\ replied' = [replied EXCEPT ![EventOf(w)] = @ + 1]
    /\ Goto(w, "finish")
    /\ UNCHANGED <<job, rowVars, tenantVars, delivered, handed, budgetVars>>

SendReply(w) ==
    /\ Awaits(w, "replySend")
    /\ SendUncapped(w)
    /\ replied' = [replied EXCEPT ![EventOf(w)] = @ + 1]
    /\ Goto(w, "charge")
    /\ UNCHANGED <<job, rowVars, tenantVars, delivered, handed, budgetVars>>

SendReplyFails(w) ==
    /\ Awaits(w, "replySend")
    /\ Fault
    /\ Abandon(w)
    /\ \/ /\ Goto(w, "flag")
          /\ UNCHANGED replied
       \/ /\ Goto(w, "throttled")
          /\ UNCHANGED replied
       \/ /\ Goto(w, "rethrow")
          /\ replied' \in {replied, [replied EXCEPT ![EventOf(w)] = @ + 1]}
    /\ UNCHANGED <<job, rowVars, tenantVars, delivered, handed>>

ChargeReply(w) ==
    /\ Awaits(w, "charge")
    /\ Charge(w)
    /\ Goto(w, "finish")
    /\ UNCHANGED <<job, rowVars, tenantVars, outVars, budgetVars>>

ExecutionProgress(w) ==
    \/ LoadRule(w) \/ CheckConsent(w) \/ CheckContactCap(w) \/ GetDmQuota(w)
    \/ IncrementDmUsage(w) \/ DecrementDmUsage(w) \/ SendDm(w) \/ OpenLeadCapture(w)
    \/ MarkProcessed(w) \/ FlagAccount(w) \/ FindNotice(w) \/ CreateNotice(w)
    \/ LoadAccount(w) \/ GetReplyPeriod(w) \/ SendReply(w) \/ ChargeReply(w)

ExecutionFault(w) == SendDmFails(w) \/ SendReplyFails(w)
==============================================================================
