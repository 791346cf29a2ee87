----------------------------- MODULE BillingCycle -----------------------------
(***************************************************************************)
(* The nightly scans of growasy-api                                        *)
(* src/modules/billing/billing-cycle.cron.ts: one action per awaited call. *)
(* Each process of the cluster runs all three, on the list it read when it *)
(* started; what is listed of the one organisation is its subscription.    *)
(***************************************************************************)
EXTENDS BillingState

Scan == {"advance", "remind", "lapse"}

ScanUnderWay == \E h \in Handler : handler[h].scan # "none"

(* Mutant: a plan that was cancelled is moved whether its period ended or not. *)
DueAtOnce(kind) ==
    /\ sub.live
    /\ CASE kind = "advance" -> ~ sub.cancel /\ sub.end < today
         [] kind = "remind"  -> sub.cancel /\ today < sub.end /\ sub.end <= today + ReminderDays
         [] kind = "lapse"   -> sub.cancel /\ sub.plan # "free"

(* The where clause of each scan. *)
Due(kind) ==
    /\ sub.live
    /\ CASE kind = "advance" -> ~ sub.cancel /\ sub.end < today
         [] kind = "remind"  -> sub.cancel /\ today < sub.end /\ sub.end <= today + ReminderDays
         [] kind = "lapse"   -> sub.cancel /\ sub.end < today /\ sub.plan # "free"

FirstStep == [advance |-> "roll", remind |-> "mail", lapse |-> "move"]

(* A scan that lists nothing ends where it began. *)
StartScan(h, kind) ==
    /\ Due(kind)
    /\ crowded' = (crowded \/ ScanUnderWay)
    /\ Begin(h, [Free EXCEPT !.at = FirstStep[kind], !.scan = kind, !.seen = sub])
    /\ UNCHANGED <<today, sub, planActive, orders, ledgerVars, noticeVars, grants, boughtUntil,
                   lapses, overtaken, budgetVars>>

(* Whole intervals are added to the end that was listed until the period   *)
(* covers today.  The row is found by its id and not looked at again.      *)
RollPeriod(h) ==
    LET seen == handler[h].seen IN
    /\ Awaits(h, "roll")
    /\ \E end \in today..(today + Days[seen.cycle] - 1) :
        /\ (end - seen.end) % Days[seen.cycle] = 0
        /\ sub' = [sub EXCEPT !.end = end]
    /\ Done(h)
    /\ UNCHANGED <<today, planActive, orders, ledgerVars, noticeVars, historyVars, budgetVars>>

MoveToFree(h) ==
    /\ Awaits(h, "move")
    /\ sub' = [sub EXCEPT !.plan = "free", !.cancel = FALSE, !.live = TRUE,
                         !.end = today + Days["monthly"]]
    /\ lapses' = lapses \cup {handler[h].seen.end}
    /\ Goto(h, "mail")
    /\ UNCHANGED <<today, planActive, orders, ledgerVars, noticeVars, grants, boughtUntil, crowded,
                   overtaken, budgetVars>>

ReasonOf(h) == IF handler[h].scan = "lapse" THEN "plan_expired" ELSE "plan_expiring"

(* Mutant: the job id is the key of the period and nothing else. *)
MailJobByPeriod(h) == <<IF \E r \in Reason : <<r, handler[h].seen.end>> \in mails
                        THEN "plan_expiring" ELSE ReasonOf(h), handler[h].seen.end>>

(* Job id of the mail: the reason, and the end of the period as it was     *)
(* listed.  A job that exists is not added again.                          *)
MailJob(h) == <<ReasonOf(h), handler[h].seen.end>>

QueueMail(h) ==
    /\ Awaits(h, "mail")
    /\ mails' = mails \cup {MailJob(h)}
    /\ Goto(h, "findNotice")
    /\ UNCHANGED <<today, sub, planActive, orders, ledgerVars, notices, historyVars, budgetVars>>

(* Mutant: the notice is written without looking for one. *)
FindNoNotice(h) ==
    /\ Awaits(h, "findNotice")
    /\ Goto(h, "createNotice")
    /\ UNCHANGED <<today, sub, planActive, orders, ledgerVars, noticeVars, historyVars, budgetVars>>

(* A notice of the period is looked for, whatever its reason is. *)
FindNotice(h) ==
    /\ Awaits(h, "findNotice")
    /\ IF \E r \in Reason : notices[<<r, handler[h].seen.end>>] > 0
       THEN Done(h) ELSE Goto(h, "createNotice")
    /\ UNCHANGED <<today, sub, planActive, orders, ledgerVars, noticeVars, historyVars, budgetVars>>

CreateNotice(h) ==
    /\ Awaits(h, "createNotice")
    /\ notices' = [notices EXCEPT ![<<ReasonOf(h), handler[h].seen.end>>] = @ + 1]
    /\ Done(h)
    /\ UNCHANGED <<today, sub, planActive, orders, ledgerVars, mails, historyVars, budgetVars>>

ScanProgress(h) ==
    \/ RollPeriod(h) \/ MoveToFree(h)
    \/ QueueMail(h) \/ FindNotice(h) \/ CreateNotice(h)
==============================================================================
