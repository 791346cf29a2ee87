-------------------------- MODULE WebhookProcessing --------------------------
(***************************************************************************)
(* Stage 1 (growasy-worker/src/queues/webhook-processing.processor.ts):    *)
(* one action per awaited call of processWebhookComment,                   *)
(* processWebhookMessage and handleLeadCaptureReply.  Both kinds of event  *)
(* take the same calls in the same order; a message has three more between *)
(* resolving the account and matching the rules.                           *)
(***************************************************************************)
EXTENDS PipelineState

(* The ledger row is looked up before anything else. *)
Dedup(w) ==
    /\ Awaits(w, "dedup")
    /\ Goto(w, IF ledger[EventOf(w)].outcome = "none" THEN "resolve" ELSE "finish")
    /\ UNCHANGED <<job, rowVars, tenantVars, outVars, budgetVars, quotaVars>>

(* Why an event is not looked at further; the row is read once, so all the *)
(* answers are of the same moment.                                         *)
Refusal(e) ==
    IF ~ account.live THEN "no_account"
    ELSE IF ~ orgActive THEN "org_suspended"
    ELSE IF account.status # "CONNECTED" THEN "needs_reconnect"
    ELSE IF Kind[e].own THEN "self_comment"
    ELSE "none"

(* A whole direct message that says STOP. *)
OptsOut(e) ==
    LET k == Kind[e] IN k.source = "message" /\ ~ k.reply /\ ~ k.mention /\ k.optOut

Resolve(w) ==
    LET e == EventOf(w) IN
    /\ Awaits(w, "resolve")
    /\ IF Refusal(e) # "none" THEN Write(w, "record", Refusal(e))
       ELSE IF OptsOut(e) THEN Write(w, "record", "opted_out")
       ELSE IF Kind[e].source = "message" /\ ~ Kind[e].reply THEN Goto(w, "capture")
       ELSE Goto(w, "rules")
    /\ UNCHANGED <<job, rowVars, tenantVars, outVars, budgetVars, quotaVars>>

(* findActiveCapture: the row is copied into the handler's locals. *)
FindActiveCapture(w) ==
    /\ Awaits(w, "capture")
    /\ worker' = [worker EXCEPT ![w] =
         IF capture.status = "AWAITING" /\ capture.open
         THEN [@ EXCEPT !.at = "record", !.note = "lead_capture",
                        !.attempts = capture.attempts, !.rule = capture.rule]
         ELSE [@ EXCEPT !.at = "rules"]]
    /\ UNCHANGED <<job, rowVars, tenantVars, outVars, budgetVars, quotaVars>>

(* The first matching ACTIVE rule by priority; the database breaks ties. *)
Candidates(e) == {r \in Matches[e] : ruleStatus[r] = "ACTIVE"}
First(rules) == {r \in rules : \A q \in rules : Config[q].priority <= Config[r].priority}

MatchRules(w) ==
    LET rules == Candidates(EventOf(w)) IN
    /\ Awaits(w, "rules")
    /\ \/ /\ rules = {}
          /\ Write(w, "record", "no_match")
       \/ \E r \in First(rules) :
            worker' = [worker EXCEPT ![w].at = "record", ![w].note = "matched", ![w].rule = r]
    /\ UNCHANGED <<job, rowVars, tenantVars, outVars, budgetVars, quotaVars>>

(* What is left to do after the ledger row went in. *)
AfterRecord(note) ==
    CASE note = "opted_out" -> "unsubscribe"
      [] note = "lead_capture" -> "copy"
      [] note = "matched" -> "contact"
      [] OTHER -> "finish"

(* Mutant: the row is upserted, so every delivery believes it created it. *)
RecordedOver(w) ==
    LET e == EventOf(w)
        note == worker[w].note IN
    /\ Awaits(w, "record")
    /\ ledger' = [ledger EXCEPT ![e] = [outcome |-> note, rule |-> worker[w].rule, sent |-> FALSE]]
    /\ Goto(w, AfterRecord(note))
    /\ UNCHANGED <<job, contact, capture, notices, tenantVars, outVars, budgetVars, quotaVars>>

(* recordProcessed: the unique dedupKey lets one delivery create the row;  *)
(* the others take the P2002 answer to mean that it is somebody else's.    *)
RecordProcessed(w) ==
    LET e == EventOf(w)
        note == worker[w].note
        created == ledger[e].outcome = "none" IN
    /\ Awaits(w, "record")
    /\ ledger' = IF created
         THEN [ledger EXCEPT ![e] = [outcome |-> note, rule |-> worker[w].rule, sent |-> FALSE]]
         ELSE ledger
    /\ Goto(w, IF created THEN AfterRecord(note) ELSE "finish")
    /\ UNCHANGED <<job, contact, capture, notices, tenantVars, outVars, budgetVars, quotaVars>>

(* contact.upsert with isSubscribed false. *)
Unsubscribe(w) ==
    /\ Awaits(w, "unsubscribe")
    /\ contact' = "unsubscribed"
    /\ Goto(w, "finish")
    /\ UNCHANGED <<job, ledger, capture, notices, tenantVars, outVars, budgetVars, quotaVars>>

(* Mutant: whoever comes again is subscribed again. *)
UpsertSubscribed(w) ==
    /\ Awaits(w, "contact")
    /\ contact' = "subscribed"
    /\ Goto(w, "handoff")
    /\ UNCHANGED <<job, ledger, capture, notices, tenantVars, outVars, budgetVars, quotaVars>>

(* upsertContact: a new contact is subscribed, an existing one is left so. *)
UpsertContact(w) ==
    /\ Awaits(w, "contact")
    /\ contact' = IF contact = "none" THEN "subscribed" ELSE contact
    /\ Goto(w, "handoff")
    /\ UNCHANGED <<job, ledger, capture, notices, tenantVars, outVars, budgetVars, quotaVars>>

HandOff(w) ==
    LET id == ExecutionJob(EventOf(w), worker[w].rule) IN
    /\ Awaits(w, "handoff")
    /\ job' = [job EXCEPT ![id] = Bull!Added(@)]
    /\ handed' = IF job'[id] = job[id] THEN handed
                 ELSE [handed EXCEPT ![EventOf(w)] = Append(@, id.rule)]
    /\ Goto(w, "finish")
    /\ UNCHANGED <<rowVars, tenantVars, delivered, replied, budgetVars, quotaVars>>

------------------------------------------------------------------------------
(* handleLeadCaptureReply                                                  *)

(* The copy of the replies is read off the rule, if it is still there. *)
ReadReplyCopy(w) ==
    LET r == worker[w].rule IN
    /\ Awaits(w, "copy")
    /\ worker' = [worker EXCEPT
         ![w].at = IF Kind[EventOf(w)].email THEN "email" ELSE "attempt",
         ![w].rule = IF ruleStatus[r] = "ARCHIVED" THEN NoRule ELSE r]
    /\ UNCHANGED <<job, rowVars, tenantVars, outVars, budgetVars, quotaVars>>

(* contact.updateMany: an existing contact becomes subscribed, and nobody  *)
(* has been unsubscribed all along.                                        *)
SaveEmail(w) ==
    /\ Awaits(w, "email")
    /\ contact' = IF contact = "none" THEN "none" ELSE "subscribed"
    /\ worker' = [v \in Worker |->
         [worker[v] EXCEPT !.stopped = FALSE, !.at = IF v = w THEN "close" ELSE @]]
    /\ UNCHANGED <<job, ledger, capture, notices, tenantVars, outVars, budgetVars, quotaVars>>

CompleteCapture(w) ==
    /\ Awaits(w, "close")
    /\ capture' = [capture EXCEPT !.status = "COMPLETED"]
    /\ Goto(w, "reply")
    /\ UNCHANGED <<job, ledger, contact, notices, tenantVars, outVars, budgetVars, quotaVars>>

Exhausted(attempts) == attempts >= MaxCaptureAttempts

(* The attempt is counted from the row as it was read, and the status is   *)
(* written with it.                                                        *)
CountAttempt(w) ==
    LET made == worker[w].attempts + 1 IN
    /\ Awaits(w, "attempt")
    /\ capture' = [capture EXCEPT !.attempts = made,
                     !.status = IF Exhausted(made) THEN "EXPIRED" ELSE "AWAITING"]
    /\ Goto(w, IF Exhausted(made) THEN "finish" ELSE "reply")
    /\ UNCHANGED <<job, ledger, contact, notices, tenantVars, outVars, budgetVars, quotaVars>>

(* A rule without reply texts, or one that is gone, sends nothing. *)
EnqueueReply(w) ==
    LET id == ReplyJob(EventOf(w))
        r == worker[w].rule IN
    /\ Awaits(w, "reply")
    /\ job' = IF r # NoRule /\ Config[r].replies
              THEN [job EXCEPT ![id] = Bull!Added(@)] ELSE job
    /\ Goto(w, "finish")
    /\ UNCHANGED <<rowVars, tenantVars, outVars, budgetVars, quotaVars>>

WebhookProcessingStep(w) ==
    \/ Dedup(w) \/ Resolve(w) \/ FindActiveCapture(w) \/ MatchRules(w)
    \/ RecordProcessed(w) \/ Unsubscribe(w) \/ UpsertContact(w) \/ HandOff(w)
    \/ ReadReplyCopy(w) \/ SaveEmail(w) \/ CompleteCapture(w) \/ CountAttempt(w)
    \/ EnqueueReply(w)
==============================================================================
