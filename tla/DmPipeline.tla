------------------------------ MODULE DmPipeline -----------------------------
(***************************************************************************)
(* The whole path from a Meta webhook to a DM: deliveries and redeliveries *)
(* enqueued by the API, workers that take, settle, lose and retry jobs,    *)
(* the two stages, and the users, admins and cron jobs that change the     *)
(* rows the stages read.                                                   *)
(***************************************************************************)
EXTENDS WebhookProcessing, AutomationExecution

------------------------------------------------------------------------------
(* The API and BullMQ                                                      *)

(* The webhook receiver enqueues an event each time Meta delivers it. *)
Deliver(e) ==
    /\ job[WebhookJob(e)].state = "absent"
    /\ job' = [job EXCEPT ![WebhookJob(e)] = Bull!Added(@)]
    /\ UNCHANGED <<worker, rowVars, tenantVars, outVars, budgetVars, quotaVars>>

(* removeOnComplete and removeOnFail: settled jobs are forgotten in time. *)
Evict(id) ==
    /\ job[id].state \in {"completed", "failed"}
    /\ job' = [job EXCEPT ![id] = Bull!Absent]
    /\ UNCHANGED <<worker, rowVars, tenantVars, outVars, budgetVars, quotaVars>>

Entry(id) ==
    CASE id.queue = "webhook" -> "dedup"
      [] id.queue = "execution" -> "load"
      [] id.queue = "reply" -> "account"

Take(w, id) ==
    /\ Awaits(w, "idle")
    /\ job[id].state = "waiting"
    /\ job' = [job EXCEPT ![id] = Bull!Taken(@, w)]
    /\ worker' = [worker EXCEPT ![w] =
         [Free EXCEPT !.at = Entry(id), !.job = id, !.stopped = contact = "unsubscribed"]]
    /\ UNCHANGED <<rowVars, tenantVars, outVars, budgetVars, quotaVars>>

(* The handler returned or threw: BullMQ settles the job if the lock holds. *)
Settle(w) ==
    LET id == worker[w].job
        settled == CASE Awaits(w, "finish") -> Bull!Completed(job[id], w)
                     [] Awaits(w, "rethrow") -> Bull!Failed(job[id], w, Attempts(id))
                     [] Awaits(w, "throttled") -> Bull!RateLimited(job[id], w) IN
    /\ worker[w].at \in Settling
    /\ job' = [job EXCEPT ![id] = settled]
    /\ worker' = [worker EXCEPT ![w] = Free]
    /\ UNCHANGED <<rowVars, tenantVars, outVars, budgetVars, quotaVars>>

(* What a handler still holds of the quota goes with it. *)
LoseSlot(w) == IF sender[w].at = "idle" THEN UNCHANGED quotaVars ELSE Abandon(w)

(* The awaited call throws.  Inside the try block of stage 2 the handler   *)
(* goes on to give its slot back; anywhere else the error leaves it.       *)
Caught(w) == Awaits(w, "open") \/ (Awaits(w, "mark") /\ worker[w].note = "dm_sent")

(* Mutant: the error is logged and swallowed. *)
ThrowSwallowed(w) ==
    /\ worker[w].at \notin Settling \cup {"idle", "send", "replySend"}
    /\ Fault
    /\ Goto(w, "finish") /\ LoseSlot(w)
    /\ UNCHANGED <<job, rowVars, tenantVars, outVars>>

Throw(w) ==
    /\ worker[w].at \notin Settling \cup {"idle", "send", "replySend"}
    /\ Fault
    /\ IF Caught(w)
       THEN /\ worker' = [worker EXCEPT ![w].at = "release", ![w].error = "other"]
            /\ UNCHANGED quotaVars
       ELSE Goto(w, "rethrow") /\ LoseSlot(w)
    /\ UNCHANGED <<job, rowVars, tenantVars, outVars>>

(* The process dies: its job stays active until its lock expires. *)
Crash(w) ==
    /\ ~ Awaits(w, "idle")
    /\ Fault
    /\ worker' = [worker EXCEPT ![w] = Free]
    /\ LoseSlot(w)
    /\ UNCHANGED <<job, rowVars, tenantVars, outVars>>

Working(id) == \E w \in Worker : job[id].owner = w /\ worker[w].job = id

(* The lock of a dead worker expires ... *)
Recover(id) ==
    /\ job[id].state = "active"
    /\ ~ Working(id)
    /\ job' = [job EXCEPT ![id] = Bull!Stalled(@)]
    /\ UNCHANGED <<worker, rowVars, tenantVars, outVars, budgetVars, quotaVars>>

(* ... as does that of one that is only slow, and goes on working. *)
LoseLock(id) ==
    /\ job[id].state = "active"
    /\ Working(id)
    /\ Fault
    /\ job' = [job EXCEPT ![id] = Bull!Stalled(@)]
    /\ UNCHANGED <<worker, rowVars, tenantVars, outVars, quotaVars>>

------------------------------------------------------------------------------
(* Users, admins and cron jobs                                             *)

(* Connecting makes the row CONNECTED and live.  A profile sync looks for a *)
(* live row, asks Meta, and writes CONNECTED or ERROR whatever became of   *)
(* the row meanwhile.  The token monitor writes NEEDS_RECONNECT, and       *)
(* disconnecting sets deletedAt.                                           *)
ChangeAccount ==
    /\ Edit
    /\ \/ account' = [status |-> "CONNECTED", live |-> TRUE]
       \/ account.live /\ account' = [status |-> "DISCONNECTED", live |-> FALSE]
       \/ \E status \in {"CONNECTED", "ERROR"} : account' = [account EXCEPT !.status = status]
       \/ /\ account = [status |-> "CONNECTED", live |-> TRUE]
          /\ account' = [account EXCEPT !.status = "NEEDS_RECONNECT"]
    /\ UNCHANGED <<job, worker, rowVars, orgActive, ruleStatus, outVars, quotaVars>>

(* setOrgActive of the admin console. *)
SetOrgActive ==
    /\ Edit
    /\ orgActive' = ~ orgActive
    /\ UNCHANGED <<job, worker, rowVars, account, ruleStatus, outVars, quotaVars>>

(* Rules are activated, paused and removed; removal is final.  PAUSED       *)
(* stands for every status but ACTIVE, ARCHIVED for deletedAt being set.   *)
ChangeRule(r) ==
    /\ Edit
    /\ ruleStatus[r] # "ARCHIVED"
    /\ \E status \in {"ACTIVE", "PAUSED", "ARCHIVED"} : ruleStatus' = [ruleStatus EXCEPT ![r] = status]
    /\ UNCHANGED <<job, worker, rowVars, account, orgActive, outVars, quotaVars>>

(* 24 hours pass after the capture was opened. *)
CaptureLapses ==
    /\ capture.open
    /\ Edit
    /\ capture' = [capture EXCEPT !.open = FALSE]
    /\ UNCHANGED <<job, worker, ledger, contact, notices, tenantVars, outVars, quotaVars>>

(* The subscription row changes: see DmQuota. *)
ChangeSubscription ==
    /\ Edit
    /\ ChangePlan
    /\ UNCHANGED <<job, worker, rowVars, tenantVars, outVars>>

------------------------------------------------------------------------------
Progress(w) == WebhookProcessingStep(w) \/ ExecutionProgress(w) \/ Settle(w)

Environment ==
    \/ ChangeAccount \/ SetOrgActive \/ CaptureLapses \/ ChangeSubscription
    \/ \E r \in Rule : ChangeRule(r)

Next ==
    \/ \E e \in Event : Deliver(e)
    \/ \E id \in JobId : Evict(id) \/ Recover(id) \/ LoseLock(id)
    \/ \E w \in Worker :
        \/ \E id \in JobId : Take(w, id)
        \/ Progress(w) \/ ExecutionFault(w) \/ Throw(w) \/ Crash(w)
    \/ Environment

Init == StateInit /\ QuotaInit

Spec == Init /\ [][Next]_vars

(* Workers keep running, no waiting job is passed over for ever, and       *)
(* BullMQ's stalled-job check keeps running.  Nothing is assumed of Meta,  *)
(* of users, of evictions, or of faults.                                   *)
Fairness ==
    /\ \A w \in Worker : WF_vars(Progress(w))
    /\ \A id \in JobId :
        /\ SF_vars(\E w \in Worker : Take(w, id))
        /\ WF_vars(Recover(id))

FairSpec == Spec /\ Fairness

------------------------------------------------------------------------------
(* Properties                                                              *)

PipelineTypeOK == StateTypeOK /\ QuotaTypeOK

(* Duplicated and concurrent deliveries, retries and evicted jobs never    *)
(* settle an event twice, change the rule it was matched to, or create a   *)
(* second execution job: the promise of the ledger's unique key together   *)
(* with BullMQ's job ids.                                                  *)
Claim == INSTANCE EventClaim WITH
    decided <- {e \in Event : ledger[e].outcome # "none"},
    owner <- [e \in Event |-> IF ledger[e].outcome = "lead_capture" THEN NoRule
                              ELSE ledger[e].rule],
    jobs <- handed

EventsClaimedOnce == Claim!ClaimSpec

(* Each DM an event gets beyond its first costs a fault: a failed call, a  *)
(* crash or an expired lock.  Concurrency, redelivery and eviction alone   *)
(* never send one twice.                                                   *)
DuplicatesCostFaults == \A e \in Event : delivered[e] <= 1 + faults

(* Attempts whose DM is out, not yet entered in the books. *)
InFlight == {w \in Worker : Awaits(w, "open") \/ (Awaits(w, "mark") /\ worker[w].note = "dm_sent")
                             \/ Awaits(w, "charge")}

(* What f counts, one by one, and how much that is.                        *)
Units(f) == UNION {{x} \X (1..f[x]) : x \in DOMAIN f}
Total(f) == Cardinality(Units(f))

(* Every DM and every lead reply that reached the contact is charged to    *)
(* the organisation's month, but for one per fault.                        *)
EveryDmCharged ==
    Total(delivered) + Total(replied)
      <= Total(sent) + Total(replies) + Cardinality(InFlight) + faults

(* The ledger marks a DM as sent only if one was, and once stage 2 is done *)
(* with the event it is marked, unless a fault came between.               *)
LedgerTellsTheTruth ==
    \A e \in Event :
        /\ ledger[e].sent => delivered[e] > 0
        /\ ledger[e].outcome = "dm_sent" => ledger[e].sent
        /\ delivered[e] > 0 =>
             ledger[e].sent \/ faults > 0 \/ \E w \in InFlight : EventOf(w) = e

(* An attempt to run a rule that began after the contact said STOP, and    *)
(* before any captured email subscribed them again, sends nothing.         *)
StopIsHeeded == \A w \in Worker : Awaits(w, "send") => ~ worker[w].stopped

(* A webhook job is done only when its event is settled, and a matched     *)
(* event whose job is done was handed off, unless a fault intervened.      *)
DoneMeansSettled ==
    \A e \in Event : job[WebhookJob(e)].state = "completed" =>
        /\ ledger[e].outcome # "none"
        /\ ledger[e].outcome = "matched" => handed[e] # <<>> \/ faults > 0

(* A STOP whose job is done holds: neither what was matched before it nor  *)
(* what comes after brings the contact back, but an email they leave in a  *)
(* lead capture.  A fault between the ledger row and the contact loses it. *)
StopStays ==
    \A e \in Event :
        job[WebhookJob(e)].state = "completed" /\ ledger[e].outcome = "opted_out" =>
            \/ contact = "unsubscribed"
            \/ \E answer \in Event : Kind[answer].email /\ ledger[answer].outcome = "lead_capture"
            \/ faults > 0

(* Answers without an email that captures took. *)
WrongAnswers == {e \in Event : ledger[e].outcome = "lead_capture" /\ ~ Kind[e].email}

(* No answer costs a contact two attempts: whatever is redelivered,        *)
(* retried or taken up again while a handler that lost its lock goes on,   *)
(* the row never counts more of them than the ledger has.                  *)
AnswersCountOnce == capture.attempts <= Cardinality(WrongAnswers)

------------------------------------------------------------------------------
(* What the comments of the code promise                                   *)

(* webhook-processing.processor.ts: "on failure we simply rethrow so       *)
(* BullMQ's own retry logic runs", so a matched event whose job is done    *)
(* has had its execution job enqueued.                                     *)
MatchIsHandedOff ==
    \A e \in Event :
        job[WebhookJob(e)].state = "completed" /\ ledger[e].outcome = "matched"
            => handed[e] # <<>>

(* automation-execution.processor.ts: "never message a contact who         *)
(* unsubscribed (replied STOP)", here of the replies of a lead capture     *)
(* taken up after the contact said so.                                     *)
NoReplyAfterStop == \A w \in Worker : Awaits(w, "replySend") => ~ worker[w].stopped

(* lead-capture.ts: "Give up (mark EXPIRED) after this many non-email      *)
(* replies", here of those to the one capture that a single DM opened,     *)
(* once they are dealt with.                                               *)
GivesUpInTime ==
    LET dealtWith == {e \in WrongAnswers : job[WebhookJob(e)].state = "completed"} IN
    Total(delivered) = 1 /\ Cardinality(dealtWith) >= MaxCaptureAttempts
        => capture.status # "AWAITING"

------------------------------------------------------------------------------
(* Liveness                                                                *)

(* Every delivered event is settled in the end, whatever single fault      *)
(* happens on the way: a retry or the stalled-job check gets it through.   *)
EventsSettle ==
    \A e \in Event : job[WebhookJob(e)].state = "waiting" ~> ledger[e].outcome # "none"

(* No job waits, runs or is left locked for ever. *)
JobsEnd ==
    \A id \in JobId : job[id].state \in {"waiting", "active"}
                          ~> job[id].state \in {"completed", "failed", "absent"}
==============================================================================
