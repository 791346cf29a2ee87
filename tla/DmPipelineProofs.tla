--------------------------- MODULE DmPipelineProofs ---------------------------
(***************************************************************************)
(* Proofs about DmPipeline, for any events, rules, workers, plans and      *)
(* bounds: what the pipeline does with the monthly quota, the types of     *)
(* what it keeps, the heeding of STOP and the end of lead captures.        *)
(***************************************************************************)
EXTENDS DmPipeline, DmQuotaProofs

(* The steps of handlers, one disjunct per kind of effect on the quota.    *)
QuotaUntouched(w) ==
    \/ WebhookProcessingStep(w)
    \/ LoadRule(w) \/ CheckConsent(w) \/ CheckContactCap(w) \/ SendDm(w)
    \/ OpenLeadCapture(w) \/ FlagAccount(w) \/ FindNotice(w) \/ CreateNotice(w)
    \/ LoadAccount(w) \/ Settle(w) \/ SendDmFails(w)

LEMMA UntouchedKeeps ==
    ASSUME NEW w \in Worker, QuotaUntouched(w)
    PROVE  UNCHANGED quotaVars
<1>1. CASE WebhookProcessingStep(w)
  BY <1>1 DEF WebhookProcessingStep, Dedup, Resolve, FindActiveCapture, MatchRules,
     RecordProcessed, Unsubscribe, UpsertContact, HandOff, ReadReplyCopy, SaveEmail,
     CompleteCapture, CountAttempt, EnqueueReply
<1>2. QED
  BY <1>1 DEF QuotaUntouched, LoadRule, CheckConsent, CheckContactCap, SendDm,
     OpenLeadCapture, FlagAccount, FindNotice, CreateNotice, LoadAccount, Settle, SendDmFails

(* Each step of the pipeline is a step of the quota's module, or none.     *)
LEMMA QuotaStep ==
    ASSUME [Next]_vars
    PROVE  [QuotaNext]_quotaVars
<1>1. ASSUME NEW e \in Event, Deliver(e) PROVE UNCHANGED quotaVars
  BY <1>1 DEF Deliver
<1>2. ASSUME NEW id \in JobId, Evict(id) \/ Recover(id) \/ LoseLock(id)
      PROVE  UNCHANGED quotaVars
  BY <1>2 DEF Evict, Recover, LoseLock
<1>3. ASSUME NEW w \in Worker, NEW id \in JobId, Take(w, id) PROVE UNCHANGED quotaVars
  BY <1>3 DEF Take
<1>4. ASSUME NEW w \in Worker, Progress(w) \/ ExecutionFault(w) \/ Throw(w) \/ Crash(w)
      PROVE  [QuotaNext]_quotaVars
  <2>1. CASE QuotaUntouched(w)
    BY <2>1, UntouchedKeeps
  <2>2. CASE GetDmQuota(w) \/ GetReplyPeriod(w)
    BY <2>2 DEF GetDmQuota, GetReplyPeriod, QuotaNext, Worker
  <2>3. CASE IncrementDmUsage(w)
    BY <2>3 DEF IncrementDmUsage, QuotaNext, Worker
  <2>4. CASE DecrementDmUsage(w)
    BY <2>4 DEF DecrementDmUsage, QuotaNext, Worker
  <2>5. CASE MarkProcessed(w)
    BY <2>5 DEF MarkProcessed, QuotaNext, Worker
  <2>6. CASE SendReply(w) \/ ChargeReply(w)
    BY <2>6 DEF SendReply, ChargeReply, QuotaNext, Worker
  <2>7. CASE SendReplyFails(w)
    BY <2>7 DEF SendReplyFails, QuotaNext, Worker
  <2>8. CASE Throw(w) \/ Crash(w)
    BY <2>8 DEF Throw, Crash, LoseSlot, QuotaNext, Worker
  <2>9. QED
    BY <1>4, <2>1, <2>2, <2>3, <2>4, <2>5, <2>6, <2>7, <2>8
       DEF Progress, ExecutionProgress, ExecutionFault, QuotaUntouched
<1>5. CASE Environment
  BY <1>5 DEF Environment, ChangeAccount, SetOrgActive, CaptureLapses, ChangeSubscription,
     ChangeRule, QuotaNext
<1>6. CASE UNCHANGED vars
  BY <1>6 DEF vars
<1>7. QED
  BY <1>1, <1>2, <1>3, <1>4, <1>5, <1>6 DEF Next

(* The pipeline uses the counter only as the protocol of usage.ts allows:  *)
(* it implements the quota's specification, so whatever is proved of that  *)
(* holds of the pipeline, crashes in any of its handlers included.         *)
THEOREM PipelineUsesQuota == Spec => QuotaSpec
<1>1. Init => QuotaInit
  BY DEF Init
<1>2. [Next]_vars => [QuotaNext]_quotaVars
  BY QuotaStep
<1>3. QED
  BY <1>1, <1>2, PTL DEF Spec, QuotaSpec

(* However webhook retries, crashed workers and concurrent jobs interleave *)
(* around the three calls of usage.ts, no period is oversold and every     *)
(* unit on its counter has an owner.                                       *)
THEOREM PipelineKeepsQuota == Spec => [](NeverOversold /\ CounterAccountsForAll)
  BY PipelineUsesQuota, NeverOversoldTheorem, CounterTheorem, PTL

------------------------------------------------------------------------------
(* What a worker has in hand                                               *)

(* The DM of a send that went through, not yet in the ledger.              *)
Booking(v) == v.at = "open" \/ (v.at = "mark" /\ v.note = "dm_sent")

(* The locals of handler v fit the step it is at.                          *)
InHand(v) ==
    /\ v.at = "idle" => v = Free
    /\ v.at # "idle" => v.job \in JobId
    /\ v.at \in WebhookStep => v.job.queue = "webhook"
    /\ v.at \in ExecutionStep \ {"flag"} => v.job.queue = "execution"
    /\ v.at \in ReplyStep \ {"flag"} => v.job.queue = "reply"
    /\ v.at = "flag" => v.job.queue \in {"execution", "reply"}
    /\ v.at = "record" =>
         v.note \in {"no_account", "org_suspended", "needs_reconnect", "self_comment",
                     "opted_out", "lead_capture", "no_match", "matched"}
    /\ v.at \in {"contact", "handoff"} \/ (v.at = "record" /\ v.note = "matched")
         => v.rule \in Rule
    /\ v.at = "mark" =>
         v.note \in {"needs_reconnect", "unsubscribed", "rate_limited",
                     "plan_limit_reached", "dm_sent", "failed"}
    /\ v.at = "open" => v.note = "dm_sent"
    /\ v.at = "flag" /\ v.job.queue = "execution" => v.note = "needs_reconnect"
    /\ v.at \in {"findNotice", "notice"} \/ (v.at = "mark" /\ v.note = "plan_limit_reached")
         => v.period \in Period

(* What such a handler holds of the quota.                                 *)
SlotStages(v) ==
    CASE v.at \in {"reserve", "replySend"} -> {"quoted"}
      [] v.at \in {"send", "open"} -> {"held"}
      [] v.at = "mark" -> IF v.note = "dm_sent" THEN {"held"} ELSE {"idle"}
      [] v.at = "release" -> {"over", "held"}
      [] v.at = "charge" -> {"owed"}
      [] OTHER -> {"idle"}

HandsFit ==
    /\ worker \in [Worker -> WorkerState]
    /\ \A w \in Worker : InHand(worker[w]) /\ sender[w].at \in SlotStages(worker[w])

(* Only w moves.                                                           *)
Aside(w) ==
    /\ worker' \in [Worker -> WorkerState]
    /\ \A v \in Worker \ {w} : worker'[v] = worker[v]

(* Handler w goes on to a step with the job it has; Recalls: and with the  *)
(* locals it has.                                                          *)
Moves(w, step) ==
    /\ Aside(w)
    /\ worker'[w].at = step
    /\ worker'[w].job = worker[w].job
    /\ worker'[w].stopped = worker[w].stopped

Recalls(w) ==
    /\ worker'[w].rule = worker[w].rule
    /\ worker'[w].error = worker[w].error
    /\ worker'[w].period = worker[w].period

LEMMA GotoMoves ==
    ASSUME worker \in [Worker -> WorkerState], NEW w \in Worker, NEW step \in Step,
           Goto(w, step)
    PROVE  /\ Moves(w, step) /\ Recalls(w)
           /\ worker'[w].note = worker[w].note
           /\ worker'[w].attempts = worker[w].attempts
<1> DEFINE x == [worker[w] EXCEPT !.at = step]
<1>1. worker[w] \in WorkerState
  OBVIOUS
<1>2. x \in WorkerState /\ x.at = step /\ x.job = worker[w].job
      /\ x.stopped = worker[w].stopped /\ x.rule = worker[w].rule
      /\ x.error = worker[w].error /\ x.period = worker[w].period
      /\ x.note = worker[w].note /\ x.attempts = worker[w].attempts
  BY <1>1 DEF WorkerState
<1>3. worker' = [worker EXCEPT ![w] = x]
  BY DEF Goto
<1> HIDE DEF x
<1>4. QED
  BY <1>2, <1>3 DEF Moves, Recalls, Aside

LEMMA WriteMoves ==
    ASSUME worker \in [Worker -> WorkerState], NEW w \in Worker, NEW step \in Step,
           NEW note \in Outcome, Write(w, step, note)
    PROVE  Moves(w, step) /\ Recalls(w) /\ worker'[w].note = note
<1> DEFINE x == [worker[w] EXCEPT !.at = step, !.note = note]
<1>1. worker[w] \in WorkerState
  OBVIOUS
<1>2. x \in WorkerState /\ x.at = step /\ x.job = worker[w].job
      /\ x.stopped = worker[w].stopped /\ x.rule = worker[w].rule
      /\ x.error = worker[w].error /\ x.period = worker[w].period
      /\ x.note = note
  BY <1>1 DEF WorkerState
<1>3. worker' = [worker EXCEPT ![w] = x]
  BY DEF Write
<1> HIDE DEF x
<1>4. QED
  BY <1>2, <1>3 DEF Moves, Recalls, Aside

LEMMA JobIds ==
    /\ \A e \in Event : WebhookJob(e) \in JobId /\ ReplyJob(e) \in JobId
    /\ \A e \in Event, r \in Rule : ExecutionJob(e, r) \in JobId
    /\ \A id \in JobId :
         /\ id.event \in Event
         /\ id.queue \in {"webhook", "execution", "reply"}
         /\ id.queue = "webhook" => id = WebhookJob(id.event)
         /\ id.queue = "execution" => id.rule \in Rule /\ id = ExecutionJob(id.event, id.rule)
    /\ NoJob \notin JobId
<1>1. /\ \A e \in Event : WebhookJob(e) \in JobId /\ ReplyJob(e) \in JobId
      /\ \A e \in Event, r \in Rule : ExecutionJob(e, r) \in JobId
  BY DEF JobId
<1>2. ASSUME NEW id \in JobId
      PROVE  \/ \E e \in Event : id = WebhookJob(e)
             \/ \E e \in Event, r \in Rule : id = ExecutionJob(e, r)
             \/ \E e \in Event : id = ReplyJob(e)
  BY DEF JobId
<1>3. ASSUME NEW id \in JobId
      PROVE  /\ id.event \in Event
             /\ id.queue \in {"webhook", "execution", "reply"}
             /\ id.queue = "webhook" => id = WebhookJob(id.event)
             /\ id.queue = "execution" => id.rule \in Rule /\ id = ExecutionJob(id.event, id.rule)
  BY <1>2 DEF WebhookJob, ReplyJob, ExecutionJob
<1>4. NoJob \notin JobId
  BY <1>3 DEF NoJob
<1>5. QED
  BY <1>1, <1>3, <1>4

LEMMA FreeFits == Free \in WorkerState /\ InHand(Free) /\ SlotStages(Free) = {"idle"}
  BY JobIds DEF Free, WorkerState, InHand, SlotStages, Step, WebhookStep, ExecutionStep,
     ReplyStep, Settling, Outcome

(* What the steps that write more than at and note do to the locals.       *)
LEMMA CaptureFound ==
    ASSUME worker \in [Worker -> WorkerState], capture \in CaptureRow,
           NEW w \in Worker, FindActiveCapture(w)
    PROVE  \/ Moves(w, "rules") /\ Recalls(w)
           \/ /\ Moves(w, "record")
              /\ worker'[w].note = "lead_capture"
              /\ worker'[w].attempts = capture.attempts
<1>1. CASE capture.status = "AWAITING" /\ capture.open
  <2> DEFINE x == [worker[w] EXCEPT !.at = "record", !.note = "lead_capture",
                      !.attempts = capture.attempts, !.rule = capture.rule]
  <2>1. worker[w] \in WorkerState /\ capture.attempts \in Nat /\ capture.rule \in Rule \cup {NoRule}
    BY DEF CaptureRow
  <2>2. x \in WorkerState /\ x.at = "record" /\ x.job = worker[w].job
        /\ x.stopped = worker[w].stopped /\ x.note = "lead_capture"
        /\ x.attempts = capture.attempts
    BY <2>1 DEF WorkerState, Step, WebhookStep, Outcome
  <2>3. worker' = [worker EXCEPT ![w] = x]
    BY <1>1 DEF FindActiveCapture
  <2> HIDE DEF x
  <2>4. QED
    BY <2>2, <2>3 DEF Moves, Aside
<1>2. CASE ~ (capture.status = "AWAITING" /\ capture.open)
  <2>1. Goto(w, "rules")
    BY <1>2 DEF FindActiveCapture, Goto
  <2>2. QED
    BY <2>1, GotoMoves DEF Step, WebhookStep
<1>3. QED
  BY <1>1, <1>2

LEMMA RuleMatched ==
    ASSUME worker \in [Worker -> WorkerState], NEW w \in Worker, EventOf(w) \in Event,
           MatchRules(w)
    PROVE  /\ Moves(w, "record")
           /\ \/ worker'[w].note = "no_match"
              \/ worker'[w].note = "matched" /\ worker'[w].rule \in Rule
<1>1. CASE Write(w, "record", "no_match")
  BY <1>1, WriteMoves DEF Step, WebhookStep, Outcome
<1>2. CASE \E r \in First(Candidates(EventOf(w))) :
             worker' = [worker EXCEPT ![w].at = "record", ![w].note = "matched", ![w].rule = r]
  <2>1. PICK r \in First(Candidates(EventOf(w))) :
          worker' = [worker EXCEPT ![w].at = "record", ![w].note = "matched", ![w].rule = r]
    BY <1>2
  <2>2. r \in Rule
    BY PipelineAssumption DEF First, Candidates
  <2> DEFINE x == [worker[w] EXCEPT !.at = "record", !.note = "matched", !.rule = r]
  <2>3. worker[w] \in WorkerState
    OBVIOUS
  <2>4. x \in WorkerState /\ x.at = "record" /\ x.job = worker[w].job
        /\ x.stopped = worker[w].stopped /\ x.note = "matched" /\ x.rule = r
    BY <2>2, <2>3 DEF WorkerState, Step, WebhookStep, Outcome
  <2>5. worker' = [worker EXCEPT ![w] = x]
    BY <2>1
  <2> HIDE DEF x
  <2>6. QED
    BY <2>2, <2>4, <2>5 DEF Moves, Aside
<1>3. QED
  BY <1>1, <1>2 DEF MatchRules

LEMMA CopyRead ==
    ASSUME worker \in [Worker -> WorkerState], NEW w \in Worker, ReadReplyCopy(w),
           worker[w].rule \in Rule \cup {NoRule}
    PROVE  \E step \in {"email", "attempt"} :
              /\ Moves(w, step) /\ worker'[w].attempts = worker[w].attempts
              /\ step = "email" <=> Kind[EventOf(w)].email
<1>1. PICK step : step = IF Kind[EventOf(w)].email THEN "email" ELSE "attempt"
  OBVIOUS
<1>2. PICK r : r = IF ruleStatus[worker[w].rule] = "ARCHIVED" THEN NoRule ELSE worker[w].rule
  OBVIOUS
<1> DEFINE x == [worker[w] EXCEPT !.at = step, !.rule = r]
<1>3. /\ worker[w] \in WorkerState
      /\ step \in {"email", "attempt"} /\ r \in Rule \cup {NoRule}
  BY <1>1, <1>2
<1>9. step \in Step
  BY <1>3 DEF Step, WebhookStep
<1>4. x \in WorkerState /\ x.at = step /\ x.job = worker[w].job
      /\ x.stopped = worker[w].stopped /\ x.attempts = worker[w].attempts
  BY <1>3, <1>9 DEF WorkerState
<1>5. worker' = [worker EXCEPT ![w] = x]
  BY <1>1, <1>2 DEF ReadReplyCopy
<1> HIDE DEF x
<1>6. Moves(w, step) /\ worker'[w].attempts = worker[w].attempts
  BY <1>4, <1>5 DEF Moves, Aside
<1>7. QED
  BY <1>1, <1>6

LEMMA EmailSaved ==
    ASSUME worker \in [Worker -> WorkerState], NEW w \in Worker, SaveEmail(w)
    PROVE  /\ worker' \in [Worker -> WorkerState]
           /\ \A v \in Worker :
                /\ worker'[v].at = IF v = w THEN "close" ELSE worker[v].at
                /\ worker'[v].job = worker[v].job /\ worker'[v].rule = worker[v].rule
                /\ worker'[v].note = worker[v].note /\ worker'[v].error = worker[v].error
                /\ worker'[v].period = worker[v].period
                /\ worker'[v].attempts = worker[v].attempts
                /\ worker'[v].stopped = FALSE
                /\ worker[v].at = "idle" /\ worker[v] = Free => worker'[v] = Free
<1> DEFINE x(v) == [worker[v] EXCEPT !.stopped = FALSE, !.at = IF v = w THEN "close" ELSE @]
<1>1. ASSUME NEW v \in Worker
      PROVE  /\ x(v) \in WorkerState
             /\ x(v).at = IF v = w THEN "close" ELSE worker[v].at
             /\ x(v).job = worker[v].job /\ x(v).rule = worker[v].rule
             /\ x(v).note = worker[v].note /\ x(v).error = worker[v].error
             /\ x(v).period = worker[v].period
             /\ x(v).stopped = FALSE
             /\ x(v).attempts = worker[v].attempts
  <2>1. PICK step : step = IF v = w THEN "close" ELSE worker[v].at
    OBVIOUS
  <2>2. worker[v] \in WorkerState
    OBVIOUS
  <2>3. step \in Step
    BY <2>1, <2>2 DEF WorkerState, Step, WebhookStep
  <2>4. x(v) = [worker[v] EXCEPT !.stopped = FALSE, !.at = step]
    BY <2>1
  <2> HIDE DEF x
  <2>5. QED
    BY <2>1, <2>2, <2>3, <2>4 DEF WorkerState
<1>2. ASSUME NEW v \in Worker, worker[v].at = "idle", worker[v] = Free
      PROVE  x(v) = Free
  <2>1. v # w
    BY <1>2 DEF SaveEmail, Awaits
  <2>2. /\ x(v) \in WorkerState
        /\ x(v).at = Free.at /\ x(v).job = Free.job /\ x(v).rule = Free.rule
        /\ x(v).note = Free.note /\ x(v).error = Free.error
        /\ x(v).period = Free.period /\ x(v).attempts = Free.attempts
        /\ x(v).stopped = Free.stopped
    BY <1>1, <1>2, <2>1 DEF Free
  <2> HIDE DEF x
  <2>3. QED
    BY <2>2, FreeFits DEF WorkerState
<1>3. worker' = [v \in Worker |-> x(v)]
  BY DEF SaveEmail
<1> HIDE DEF x
<1>4. QED
  BY <1>1, <1>2, <1>3

LEMMA SlotReturned ==
    ASSUME worker \in [Worker -> WorkerState], QuotaTypeOK, NEW w \in Worker,
           DecrementDmUsage(w)
    PROVE  \E step \in {"mark", "flag"}, note \in {"plan_limit_reached", "needs_reconnect", "failed"} :
              /\ Moves(w, step) /\ worker'[w].note = note
              /\ step = "flag" <=> note = "needs_reconnect"
              /\ note = "plan_limit_reached" => worker'[w].period \in Period
<1>1. worker[w] \in WorkerState /\ sender[w].period \in Period
  BY DEF DecrementDmUsage, Release, QuotaTypeOK, Worker
<1>2. CASE sender[w].at = "over"
  <2> DEFINE x == [worker[w] EXCEPT !.at = "mark", !.note = "plan_limit_reached",
                                    !.period = sender[w].period]
  <2>1. x \in WorkerState /\ x.at = "mark" /\ x.job = worker[w].job
        /\ x.stopped = worker[w].stopped /\ x.note = "plan_limit_reached"
        /\ x.period = sender[w].period
    BY <1>1 DEF WorkerState, Step, ExecutionStep, Outcome
  <2>2. worker' = [worker EXCEPT ![w] = x]
    BY <1>2 DEF DecrementDmUsage
  <2> HIDE DEF x
  <2>3. Moves(w, "mark") /\ worker'[w].note = "plan_limit_reached" /\ worker'[w].period \in Period
    BY <1>1, <2>1, <2>2 DEF Moves, Aside
  <2>4. QED
    BY <2>3
<1>3. CASE sender[w].at # "over" /\ worker[w].error = "auth"
  <2>1. Write(w, "flag", "needs_reconnect")
    BY <1>3 DEF DecrementDmUsage, Write
  <2>2. Moves(w, "flag") /\ worker'[w].note = "needs_reconnect"
    BY <2>1, WriteMoves DEF Step, ExecutionStep, Outcome
  <2>3. QED
    BY <2>2
<1>4. CASE sender[w].at # "over" /\ worker[w].error # "auth"
  <2>1. Write(w, "mark", "failed")
    BY <1>4 DEF DecrementDmUsage, Write
  <2>2. Moves(w, "mark") /\ worker'[w].note = "failed"
    BY <2>1, WriteMoves DEF Step, ExecutionStep, Outcome
  <2>3. QED
    BY <2>2
<1>5. QED
  BY <1>2, <1>3, <1>4

(* An error that the handler catches: it goes on to give the slot back.    *)
LEMMA ErrorCaught ==
    ASSUME worker \in [Worker -> WorkerState], NEW w \in Worker,
           NEW error \in {"auth", "limited", "other"},
           worker' = [worker EXCEPT ![w].at = "release", ![w].error = error]
    PROVE  Moves(w, "release") /\ worker'[w].note = worker[w].note
<1> DEFINE x == [worker[w] EXCEPT !.at = "release", !.error = error]
<1>1. worker[w] \in WorkerState
  OBVIOUS
<1>2. x \in WorkerState /\ x.at = "release" /\ x.job = worker[w].job
      /\ x.stopped = worker[w].stopped /\ x.note = worker[w].note
  BY <1>1 DEF WorkerState, Step, ExecutionStep
<1>3. worker' = [worker EXCEPT ![w] = x]
  OBVIOUS
<1> HIDE DEF x
<1>4. QED
  BY <1>2, <1>3 DEF Moves, Aside

LEMMA HandlerEnds ==
    ASSUME worker \in [Worker -> WorkerState], NEW w \in Worker, Settle(w) \/ Crash(w)
    PROVE  Aside(w) /\ worker'[w] = Free
<1>1. worker' = [worker EXCEPT ![w] = Free]
  BY DEF Settle, Crash
<1>2. QED
  BY <1>1, FreeFits DEF Aside

LEMMA HandlerStarts ==
    ASSUME worker \in [Worker -> WorkerState], NEW w \in Worker, NEW id \in JobId, Take(w, id)
    PROVE  /\ Aside(w)
           /\ worker'[w].at = Entry(id) /\ worker'[w].job = id
           /\ Entry(id) \in {"dedup", "load", "account"}
           /\ Entry(id) = "dedup" => id.queue = "webhook"
           /\ Entry(id) = "load" => id.queue = "execution"
           /\ Entry(id) = "account" => id.queue = "reply"
           /\ worker'[w].stopped = (contact = "unsubscribed")
<1> DEFINE x == [Free EXCEPT !.at = Entry(id), !.job = id, !.stopped = contact = "unsubscribed"]
<1>1. /\ Entry(id) \in {"dedup", "load", "account"}
      /\ Entry(id) = "dedup" => id.queue = "webhook"
      /\ Entry(id) = "load" => id.queue = "execution"
      /\ Entry(id) = "account" => id.queue = "reply"
  BY JobIds DEF Entry
<1>2. PICK stopped \in BOOLEAN : stopped = (contact = "unsubscribed")
  OBVIOUS
<1>3. x = [Free EXCEPT !.at = Entry(id), !.job = id, !.stopped = stopped]
  BY <1>2
<1>4. x \in WorkerState /\ x.at = Entry(id) /\ x.job = id /\ x.stopped = stopped
  <2>1. Entry(id) \in Step /\ id \in JobId \cup {NoJob}
    BY <1>1 DEF Step, WebhookStep, ExecutionStep, ReplyStep
  <2>2. QED
    BY <1>3, <2>1, FreeFits DEF WorkerState
<1>5. worker' = [worker EXCEPT ![w] = x]
  BY DEF Take
<1> HIDE DEF x
<1>6. QED
  BY <1>1, <1>2, <1>4, <1>5 DEF Aside

(* Only the attempt of w moves, to stage.                                  *)
SlotMoves(w, stage) ==
    /\ sender'[w].at = stage
    /\ \A v \in Worker \ {w} : sender'[v] = sender[v]

LEMMA SlotSteps ==
    ASSUME QuotaTypeOK, NEW w \in Worker
    PROVE  /\ ReadQuota(w) => SlotMoves(w, "quoted")
           /\ Reserve(w) => SlotMoves(w, "over") \/ SlotMoves(w, "held")
           /\ Release(w) \/ Keep(w) \/ Charge(w) \/ Abandon(w) => SlotMoves(w, "idle")
           /\ SendUncapped(w) => SlotMoves(w, "owed")
           /\ LoseSlot(w) => SlotMoves(w, "idle")
           /\ UNCHANGED quotaVars => SlotMoves(w, sender[w].at)
<1>1. sender \in [Worker -> Attempt]
  BY DEF QuotaTypeOK, Worker
<1>2. ASSUME NEW stage \in Stage, Stand(w, stage) PROVE SlotMoves(w, stage)
  BY <1>1, <1>2 DEF Stand, SlotMoves, Attempt
<1>3. ASSUME End(w) PROVE SlotMoves(w, "idle")
  BY <1>1, <1>3 DEF End, SlotMoves, Idle
<1>4. ReadQuota(w) => SlotMoves(w, "quoted")
  BY <1>1 DEF ReadQuota, SlotMoves
<1>5. Reserve(w) => SlotMoves(w, "over") \/ SlotMoves(w, "held")
  BY <1>2 DEF Reserve, Stage
<1>6. Release(w) \/ Keep(w) \/ Charge(w) \/ Abandon(w) => SlotMoves(w, "idle")
  BY <1>3 DEF Release, Keep, Charge, Abandon
<1>7. SendUncapped(w) => SlotMoves(w, "owed")
  BY <1>2 DEF SendUncapped, Stage
<1>8. UNCHANGED quotaVars => SlotMoves(w, sender[w].at)
  BY DEF quotaVars, SlotMoves
<1>9. LoseSlot(w) => SlotMoves(w, "idle")
  BY <1>6, <1>8 DEF LoseSlot
<1>10. QED
  BY <1>4, <1>5, <1>6, <1>7, <1>8, <1>9

LEMMA HandsKept ==
    ASSUME HandsFit, NEW w \in Worker, NEW stage, Aside(w), SlotMoves(w, stage),
           InHand(worker'[w]), stage \in SlotStages(worker'[w])
    PROVE  HandsFit'
<1>1. ASSUME NEW v \in Worker
      PROVE  InHand(worker'[v]) /\ sender'[v].at \in SlotStages(worker'[v])
  <2>1. CASE v = w
    BY <2>1 DEF SlotMoves
  <2>2. CASE v # w
    BY <2>2 DEF SlotMoves, Aside, HandsFit
  <2>3. QED
    BY <2>1, <2>2
<1>2. QED
  BY <1>1 DEF HandsFit, Aside

(* Steps that only go on within their stage or end the handler, without    *)
(* the quota.                                                              *)
Plain == {"dedup", "resolve", "capture", "rules", "unsubscribe", "copy", "email", "close",
          "attempt", "reply", "finish", "rethrow", "throttled", "consent", "cap", "quota",
          "replyQuota", "load", "account"}

LEMMA PlainFits ==
    ASSUME NEW v, v.at \in Plain, v.job \in JobId,
           v.at \in WebhookStep => v.job.queue = "webhook",
           v.at \in {"load", "consent", "cap", "quota"} => v.job.queue = "execution",
           v.at \in {"account", "replyQuota"} => v.job.queue = "reply"
    PROVE  InHand(v) /\ SlotStages(v) = {"idle"}
  BY DEF Plain, InHand, SlotStages, WebhookStep, ExecutionStep, ReplyStep, Free

LEMMA InHandJob ==
    ASSUME NEW v, InHand(v), v.at # "idle"
    PROVE  /\ v.job \in JobId
           /\ v.job.event \in Event
           /\ v.job.queue = "execution" => v.job.rule \in Rule
  BY JobIds DEF InHand

(* A step that only moves to one of the plain steps, or to the recording   *)
(* of an outcome, keeps the fit.                                           *)
LEMMA PlainKept ==
    ASSUME HandsFit, QuotaTypeOK, NEW w \in Worker, NEW step \in Plain, Moves(w, step),
           worker[w].at # "idle", SlotMoves(w, "idle"),
           step \in WebhookStep => worker[w].job.queue = "webhook",
           step \in {"load", "consent", "cap", "quota"} => worker[w].job.queue = "execution",
           step \in {"account", "replyQuota"} => worker[w].job.queue = "reply"
    PROVE  HandsFit'
<1>1. worker[w].job \in JobId
  BY InHandJob DEF HandsFit
<1>2. InHand(worker'[w]) /\ SlotStages(worker'[w]) = {"idle"}
  BY <1>1, PlainFits DEF Moves
<1>3. QED
  BY <1>2, HandsKept DEF Moves

LEMMA PlainGoto ==
    ASSUME HandsFit, QuotaTypeOK, NEW w \in Worker, NEW step \in Plain, Goto(w, step),
           worker[w].at # "idle", SlotMoves(w, "idle"),
           step \in WebhookStep => worker[w].job.queue = "webhook",
           step \in {"load", "consent", "cap", "quota"} => worker[w].job.queue = "execution",
           step \in {"account", "replyQuota"} => worker[w].job.queue = "reply"
    PROVE  HandsFit'
<1>1. step \in Step
  BY DEF Plain, Step, WebhookStep, ExecutionStep, ReplyStep, Settling
<1>2. Moves(w, step)
  BY <1>1, GotoMoves DEF HandsFit
<1>3. QED
  BY <1>2, PlainKept

LEMMA RecordKept ==
    ASSUME HandsFit, QuotaTypeOK, NEW w \in Worker, Moves(w, "record"), SlotMoves(w, "idle"),
           worker[w].at \in WebhookStep,
           worker'[w].note \in {"no_account", "org_suspended", "needs_reconnect", "self_comment",
                                "opted_out", "lead_capture", "no_match", "matched"},
           worker'[w].note = "matched" => worker'[w].rule \in Rule
    PROVE  HandsFit'
<1>1. InHand(worker'[w]) /\ SlotStages(worker'[w]) = {"idle"}
  BY DEF Moves, HandsFit, InHand, SlotStages, WebhookStep, ExecutionStep, ReplyStep
<1>2. QED
  BY <1>1, HandsKept DEF Moves

LEMMA MarkKept ==
    ASSUME HandsFit, QuotaTypeOK, NEW w \in Worker, NEW step \in {"mark", "flag"},
           Moves(w, step), SlotMoves(w, "idle"),
           worker[w].at \in ExecutionStep, worker[w].job.queue = "execution",
           worker'[w].note \in {"needs_reconnect", "unsubscribed", "rate_limited",
                                "plan_limit_reached", "failed"},
           step = "flag" => worker'[w].note = "needs_reconnect",
           worker'[w].note = "plan_limit_reached" => worker'[w].period \in Period
    PROVE  HandsFit'
<1>1. InHand(worker'[w]) /\ SlotStages(worker'[w]) = {"idle"}
  BY DEF Moves, HandsFit, InHand, SlotStages, WebhookStep, ExecutionStep, ReplyStep
<1>2. QED
  BY <1>1, HandsKept DEF Moves

(* The other steps of an execution or reply job, by what they hold.        *)
LEMMA HolderKept ==
    ASSUME HandsFit, QuotaTypeOK, NEW w \in Worker, NEW stage,
           NEW step \in {"reserve", "release", "send", "open", "mark", "findNotice", "notice",
                         "replySend", "charge", "flag"},
           Moves(w, step), SlotMoves(w, stage), worker[w].at # "idle",
           stage \in SlotStages(worker'[w]),
           step \in {"replySend", "charge"} => worker[w].job.queue = "reply",
           step = "flag" => worker[w].job.queue = "reply",
           step \notin {"replySend", "charge", "flag"} => worker[w].job.queue = "execution",
           step \in {"open", "mark"} => worker'[w].note = "dm_sent",
           step \in {"findNotice", "notice"} => worker'[w].period \in Period
    PROVE  HandsFit'
<1>1. worker[w].job \in JobId
  BY InHandJob DEF HandsFit
<1>2. InHand(worker'[w])
  BY <1>1 DEF Moves, InHand, WebhookStep, ExecutionStep, ReplyStep
<1>3. QED
  BY <1>2, HandsKept DEF Moves

LEMMA WebhookHands ==
    ASSUME HandsFit, QuotaTypeOK, capture \in CaptureRow,
           NEW w \in Worker, WebhookProcessingStep(w)
    PROVE  HandsFit'
<1> USE DEF WebhookStep, Plain
<1>1. /\ worker \in [Worker -> WorkerState] /\ worker[w] \in WorkerState
      /\ InHand(worker[w]) /\ sender[w].at \in SlotStages(worker[w])
  BY DEF HandsFit
<1>2. ASSUME worker[w].at \in {"dedup", "resolve", "capture", "rules", "record", "contact",
                 "handoff", "unsubscribe", "copy", "email", "close", "attempt", "reply"},
             UNCHANGED quotaVars
      PROVE  /\ worker[w].job.queue = "webhook" /\ worker[w].job \in JobId
             /\ EventOf(w) \in Event
             /\ SlotMoves(w, "idle")
  <2>1. sender[w].at = "idle"
    BY <1>1, <1>2 DEF SlotStages
  <2>2. QED
    BY <1>1, <1>2, <2>1, SlotSteps, InHandJob DEF InHand, EventOf
<1>3. CASE Dedup(w)
  BY <1>2, <1>3, PlainGoto DEF Dedup, Awaits
<1>4. CASE Resolve(w)
  <2>1. worker[w].at = "resolve" /\ UNCHANGED quotaVars
    BY <1>4 DEF Resolve, Awaits
  <2>2. CASE Goto(w, "capture") \/ Goto(w, "rules")
    BY <1>2, <2>1, <2>2, PlainGoto
  <2>3. ASSUME NEW note \in {"no_account", "org_suspended", "needs_reconnect", "self_comment",
                             "opted_out"},
               Write(w, "record", note)
        PROVE  HandsFit'
    <3>1. Moves(w, "record") /\ worker'[w].note = note
      BY <1>1, <2>3, WriteMoves DEF Step, Outcome
    <3>2. QED
      BY <1>2, <2>1, <2>3, <3>1, RecordKept
  <2>4. PICK note : note = Refusal(EventOf(w))
    OBVIOUS
  <2>5. note \in {"no_account", "org_suspended", "needs_reconnect", "self_comment", "none"}
    BY <2>4 DEF Refusal
  <2>6. QED
    BY <1>4, <2>2, <2>3, <2>4, <2>5 DEF Resolve
<1>5. CASE FindActiveCapture(w)
  <2>1. worker[w].at = "capture" /\ UNCHANGED quotaVars
    BY <1>5 DEF FindActiveCapture, Awaits
  <2>2. QED
    BY <1>1, <1>2, <1>5, <2>1, CaptureFound, PlainKept, RecordKept
<1>6. CASE MatchRules(w)
  <2>1. worker[w].at = "rules" /\ UNCHANGED quotaVars
    BY <1>6 DEF MatchRules, Awaits
  <2>2. QED
    BY <1>1, <1>2, <1>6, <2>1, RuleMatched, RecordKept
<1>7. CASE RecordProcessed(w)
  <2>1. worker[w].at = "record" /\ UNCHANGED quotaVars
    BY <1>7 DEF RecordProcessed, Awaits
  <2>2. PICK step : /\ step \in {"unsubscribe", "copy", "contact", "finish"} /\ Goto(w, step)
                    /\ step = "contact" => worker[w].note = "matched"
    BY <1>7 DEF RecordProcessed, AfterRecord
  <2>3. CASE step # "contact"
    BY <1>2, <2>1, <2>2, <2>3, PlainGoto
  <2>4. CASE step = "contact"
    <3>1. Moves(w, "contact") /\ worker'[w].rule \in Rule
      BY <1>1, <2>1, <2>2, <2>4, GotoMoves DEF Step, Recalls, InHand
    <3>2. InHand(worker'[w]) /\ SlotStages(worker'[w]) = {"idle"}
      BY <1>2, <2>1, <3>1 DEF Moves, InHand, SlotStages, ExecutionStep, ReplyStep
    <3>3. QED
      BY <1>2, <2>1, <3>1, <3>2, HandsKept DEF Moves
  <2>5. QED
    BY <2>3, <2>4
<1>8. CASE UpsertContact(w)
  <2>1. worker[w].at = "contact" /\ UNCHANGED quotaVars /\ Goto(w, "handoff")
    BY <1>8 DEF UpsertContact, Awaits
  <2>2. Moves(w, "handoff") /\ worker'[w].rule \in Rule
    BY <1>1, <2>1, GotoMoves DEF Step, Recalls, InHand
  <2>3. InHand(worker'[w]) /\ SlotStages(worker'[w]) = {"idle"}
    BY <1>2, <2>1, <2>2 DEF Moves, InHand, SlotStages, ExecutionStep, ReplyStep
  <2>4. QED
    BY <1>2, <2>1, <2>2, <2>3, HandsKept DEF Moves
<1>9. CASE Unsubscribe(w) \/ HandOff(w) \/ CompleteCapture(w) \/ EnqueueReply(w)
  BY <1>2, <1>9, PlainGoto DEF Unsubscribe, HandOff, CompleteCapture, EnqueueReply, Awaits
<1>10. CASE CountAttempt(w)
  BY <1>2, <1>10, PlainGoto DEF CountAttempt, Awaits
<1>11. CASE ReadReplyCopy(w)
  <2>1. worker[w].at = "copy" /\ UNCHANGED quotaVars
    BY <1>11 DEF ReadReplyCopy, Awaits
  <2>2. worker[w].rule \in Rule \cup {NoRule}
    BY <1>1 DEF WorkerState
  <2>3. QED
    BY <1>1, <1>2, <1>11, <2>1, <2>2, CopyRead, PlainKept
<1>12. CASE SaveEmail(w)
  <2>1. worker[w].at = "email" /\ UNCHANGED quotaVars
    BY <1>12 DEF SaveEmail, Awaits
  <2>2. ASSUME NEW v \in Worker
        PROVE  InHand(worker'[v]) /\ sender'[v].at \in SlotStages(worker'[v])
    <3>1. InHand(worker[v]) /\ sender[v].at \in SlotStages(worker[v]) /\ sender' = sender
      BY <2>1 DEF HandsFit, quotaVars
    <3>2. CASE v = w
      <4>1. worker'[w].at = "close" /\ worker'[w].job = worker[w].job
        BY <1>1, <1>12, EmailSaved
      <4>2. InHand(worker'[w]) /\ SlotStages(worker'[w]) = {"idle"}
        BY <1>2, <2>1, <4>1, PlainFits
      <4>3. QED
        BY <1>2, <2>1, <3>2, <4>2 DEF SlotMoves
    <3>3. CASE v # w
      <4> DEFINE x == worker'[v]
      <4>1. /\ x.at = worker[v].at /\ x.job = worker[v].job /\ x.rule = worker[v].rule
            /\ x.note = worker[v].note /\ x.period = worker[v].period
            /\ worker[v].at = "idle" => x = Free
        BY <1>1, <1>12, <3>1, <3>3, EmailSaved DEF InHand
      <4> HIDE DEF x
      <4>2. InHand(x)
        BY <3>1, <4>1 DEF InHand
      <4>3. SlotStages(x) = SlotStages(worker[v])
        BY <4>1 DEF SlotStages
      <4>4. QED
        BY <3>1, <4>2, <4>3 DEF x
    <3>4. QED
      BY <3>2, <3>3
  <2>3. QED
    BY <1>1, <1>12, <2>2, EmailSaved DEF HandsFit
<1>13. QED
  BY <1>3, <1>4, <1>5, <1>6, <1>7, <1>8, <1>9, <1>10, <1>11, <1>12 DEF WebhookProcessingStep

LEMMA ExecutionHands ==
    ASSUME HandsFit, QuotaTypeOK, NEW w \in Worker, ExecutionProgress(w) \/ ExecutionFault(w)
    PROVE  HandsFit'
<1> USE DEF Plain
<1>1. /\ worker \in [Worker -> WorkerState] /\ worker[w] \in WorkerState
      /\ InHand(worker[w]) /\ sender[w].at \in SlotStages(worker[w])
  BY DEF HandsFit
<1>2. ASSUME worker[w].at \in {"load", "consent", "cap", "quota", "reserve", "release", "send",
                               "open", "mark", "findNotice", "notice"}
      PROVE  worker[w].job.queue = "execution" /\ worker[w].at \in ExecutionStep
  BY <1>1, <1>2 DEF InHand, ExecutionStep
<1>3. ASSUME worker[w].at \in {"account", "replyQuota", "replySend", "charge"}
      PROVE  worker[w].job.queue = "reply"
  BY <1>1, <1>3 DEF InHand, ReplyStep
<1>4. ASSUME worker[w].at \in {"load", "consent", "cap", "quota", "flag", "findNotice", "notice",
                               "account", "replyQuota"},
             UNCHANGED quotaVars
      PROVE  SlotMoves(w, "idle")
  <2>1. sender[w].at = "idle"
    BY <1>1, <1>4 DEF SlotStages
  <2>2. QED
    BY <1>4, <2>1, SlotSteps
<1>5. ASSUME NEW note \in {"needs_reconnect", "unsubscribed", "rate_limited"},
             Write(w, "mark", note), worker[w].at \in {"load", "consent", "cap"},
             UNCHANGED quotaVars
      PROVE  HandsFit'
  <2>1. Moves(w, "mark") /\ worker'[w].note = note
    BY <1>1, <1>5, WriteMoves DEF Step, ExecutionStep, Outcome
  <2>2. QED
    BY <1>2, <1>4, <1>5, <2>1, MarkKept
<1>6. CASE LoadRule(w)
  <2>1. worker[w].at = "load" /\ UNCHANGED quotaVars
    BY <1>6 DEF LoadRule, Awaits
  <2>2. \/ \E step \in {"finish", "consent"} : Goto(w, step)
        \/ Write(w, "mark", "needs_reconnect")
    BY <1>6 DEF LoadRule
  <2>3. ASSUME NEW step \in {"finish", "consent"}, Goto(w, step) PROVE HandsFit'
    BY <1>2, <1>4, <2>1, <2>3, PlainGoto DEF WebhookStep
  <2>4. QED
    BY <1>5, <2>1, <2>2, <2>3
<1>7. CASE CheckConsent(w)
  <2>1. worker[w].at = "consent" /\ UNCHANGED quotaVars
    BY <1>7 DEF CheckConsent, Awaits
  <2>2. Goto(w, "cap") \/ Write(w, "mark", "unsubscribed")
    BY <1>7 DEF CheckConsent
  <2>3. QED
    BY <1>2, <1>4, <1>5, <2>1, <2>2, PlainGoto DEF WebhookStep
<1>8. CASE CheckContactCap(w)
  <2>1. worker[w].at = "cap" /\ UNCHANGED quotaVars
    BY <1>8 DEF CheckContactCap, Awaits
  <2>2. Goto(w, "quota") \/ Write(w, "mark", "rate_limited")
    BY <1>8 DEF CheckContactCap
  <2>3. QED
    BY <1>2, <1>4, <1>5, <2>1, <2>2, PlainGoto DEF WebhookStep
<1>9. CASE GetDmQuota(w) \/ GetReplyPeriod(w)
  <2>1. PICK step \in {"reserve", "replySend"} :
          /\ Goto(w, step) /\ ReadQuota(w)
          /\ step = "reserve" => worker[w].at = "quota"
          /\ step = "replySend" => worker[w].at = "replyQuota"
    BY <1>9 DEF GetDmQuota, GetReplyPeriod, Awaits
  <2>2. Moves(w, step)
    BY <1>1, <2>1, GotoMoves DEF Step, ExecutionStep, ReplyStep
  <2>3. "quoted" \in SlotStages(worker'[w])
    BY <2>1, <2>2 DEF Moves, SlotStages
  <2>4. QED
    BY <1>2, <1>3, <2>1, <2>2, <2>3, SlotSteps, HolderKept
<1>10. CASE IncrementDmUsage(w)
  <2>1. worker[w].at = "reserve"
    BY <1>10 DEF IncrementDmUsage, Awaits
  <2>2. PICK stage \in {"over", "held"} :
          SlotMoves(w, stage) /\ Goto(w, IF stage = "over" THEN "release" ELSE "send")
    BY <1>10, SlotSteps DEF IncrementDmUsage, SlotMoves
  <2>3. PICK step \in {"release", "send"} : step = IF stage = "over" THEN "release" ELSE "send"
    OBVIOUS
  <2>4. Moves(w, step)
    BY <1>1, <2>2, <2>3, GotoMoves DEF Step, ExecutionStep
  <2>5. stage \in SlotStages(worker'[w])
    BY <2>3, <2>4 DEF Moves, SlotStages
  <2>6. QED
    BY <1>2, <2>1, <2>2, <2>4, <2>5, HolderKept
<1>11. CASE DecrementDmUsage(w)
  <2>1. worker[w].at = "release" /\ Release(w)
    BY <1>11 DEF DecrementDmUsage, Awaits
  <2>2. PICK step \in {"mark", "flag"}, note \in {"plan_limit_reached", "needs_reconnect", "failed"} :
          /\ Moves(w, step) /\ worker'[w].note = note
          /\ step = "flag" <=> note = "needs_reconnect"
          /\ note = "plan_limit_reached" => worker'[w].period \in Period
    BY <1>1, <1>11, SlotReturned
  <2>3. QED
    BY <1>2, <2>1, <2>2, SlotSteps, MarkKept
<1>12. CASE SendDm(w)
  <2>1. worker[w].at = "send" /\ UNCHANGED quotaVars
    BY <1>12 DEF SendDm, Awaits
  <2>2. PICK step \in {"open", "mark"} : Write(w, step, "dm_sent")
    BY <1>12 DEF SendDm
  <2>3. Moves(w, step) /\ worker'[w].note = "dm_sent"
    BY <1>1, <2>2, WriteMoves DEF Step, ExecutionStep, Outcome
  <2>4. SlotMoves(w, "held")
    BY <1>1, <2>1, SlotSteps DEF SlotStages
  <2>5. "held" \in SlotStages(worker'[w])
    BY <2>3 DEF Moves, SlotStages
  <2>6. QED
    BY <1>2, <2>1, <2>3, <2>4, <2>5, HolderKept
<1>13. CASE SendDmFails(w)
  <2>1. worker[w].at = "send" /\ UNCHANGED quotaVars
    BY <1>13 DEF SendDmFails, Awaits
  <2>2. Moves(w, "release")
    BY <1>1, <1>13, ErrorCaught DEF SendDmFails
  <2>3. SlotMoves(w, "held")
    BY <1>1, <2>1, SlotSteps DEF SlotStages
  <2>4. "held" \in SlotStages(worker'[w])
    BY <2>2 DEF Moves, SlotStages
  <2>5. QED
    BY <1>2, <2>1, <2>2, <2>3, <2>4, HolderKept
<1>14. CASE OpenLeadCapture(w)
  <2>1. worker[w].at = "open" /\ UNCHANGED quotaVars /\ Goto(w, "mark")
    BY <1>14 DEF OpenLeadCapture, Awaits
  <2>2. Moves(w, "mark") /\ worker'[w].note = "dm_sent"
    BY <1>1, <2>1, GotoMoves DEF Step, ExecutionStep, InHand
  <2>3. SlotMoves(w, "held")
    BY <1>1, <2>1, SlotSteps DEF SlotStages
  <2>4. "held" \in SlotStages(worker'[w])
    BY <2>2 DEF Moves, SlotStages
  <2>5. QED
    BY <1>2, <2>1, <2>2, <2>3, <2>4, HolderKept
<1>15. CASE MarkProcessed(w)
  <2>1. worker[w].at = "mark"
    BY <1>15 DEF MarkProcessed, Awaits
  <2>2. SlotMoves(w, "idle")
    <3>1. CASE worker[w].note = "dm_sent"
      BY <1>15, <3>1, SlotSteps DEF MarkProcessed
    <3>2. CASE worker[w].note # "dm_sent"
      BY <1>1, <1>15, <2>1, <3>2, SlotSteps DEF MarkProcessed, SlotStages
    <3>3. QED
      BY <3>1, <3>2
  <2>3. PICK step \in {"findNotice", "throttled", "rethrow", "finish"} :
          Goto(w, step) /\ (step = "findNotice" => worker[w].note = "plan_limit_reached")
    BY <1>15 DEF MarkProcessed, AfterMark
  <2>4. CASE step # "findNotice"
    BY <1>2, <2>1, <2>2, <2>3, <2>4, PlainGoto DEF WebhookStep
  <2>5. CASE step = "findNotice"
    <3>1. Moves(w, "findNotice") /\ worker'[w].period \in Period
      BY <1>1, <2>1, <2>3, <2>5, GotoMoves DEF Step, ExecutionStep, Recalls, InHand
    <3>2. "idle" \in SlotStages(worker'[w])
      BY <3>1 DEF Moves, SlotStages
    <3>3. QED
      BY <1>2, <2>1, <2>2, <3>1, <3>2, HolderKept
  <2>6. QED
    BY <2>4, <2>5
<1>16. CASE FlagAccount(w)
  <2>1. worker[w].at = "flag" /\ UNCHANGED quotaVars
    BY <1>16 DEF FlagAccount, Awaits
  <2>2. CASE worker[w].job.queue = "execution"
    <3>1. Goto(w, "mark")
      BY <1>16, <2>2 DEF FlagAccount
    <3>2. Moves(w, "mark") /\ worker'[w].note = "needs_reconnect"
      BY <1>1, <2>1, <2>2, <3>1, GotoMoves DEF Step, ExecutionStep, InHand
    <3>3. QED
      BY <1>4, <2>1, <2>2, <3>2, MarkKept DEF ExecutionStep
  <2>3. CASE worker[w].job.queue # "execution"
    <3>1. Goto(w, "finish")
      BY <1>16, <2>3 DEF FlagAccount
    <3>2. QED
      BY <1>4, <2>1, <3>1, PlainGoto DEF WebhookStep
  <2>4. QED
    BY <2>2, <2>3
<1>17. CASE FindNotice(w)
  <2>1. worker[w].at = "findNotice" /\ UNCHANGED quotaVars
    BY <1>17 DEF FindNotice, Awaits
  <2>2. CASE Goto(w, "finish")
    BY <1>4, <2>1, <2>2, PlainGoto DEF WebhookStep
  <2>3. CASE Goto(w, "notice")
    <3>1. Moves(w, "notice") /\ worker'[w].period \in Period
      BY <1>1, <2>1, <2>3, GotoMoves DEF Step, ExecutionStep, Recalls, InHand
    <3>2. "idle" \in SlotStages(worker'[w])
      BY <3>1 DEF Moves, SlotStages
    <3>3. QED
      BY <1>2, <1>4, <2>1, <3>1, <3>2, HolderKept
  <2>4. QED
    BY <1>17, <2>2, <2>3 DEF FindNotice
<1>18. CASE CreateNotice(w)
  <2>1. worker[w].at = "notice" /\ UNCHANGED quotaVars /\ Goto(w, "finish")
    BY <1>18 DEF CreateNotice, Awaits
  <2>2. QED
    BY <1>4, <2>1, PlainGoto DEF WebhookStep
<1>19. CASE LoadAccount(w)
  <2>1. worker[w].at = "account" /\ UNCHANGED quotaVars
    BY <1>19 DEF LoadAccount, Awaits
  <2>2. Goto(w, "replyQuota") \/ Goto(w, "finish")
    BY <1>19 DEF LoadAccount
  <2>3. QED
    BY <1>3, <1>4, <2>1, <2>2, PlainGoto DEF WebhookStep
<1>20. CASE SendReply(w)
  <2>1. worker[w].at = "replySend" /\ SendUncapped(w) /\ Goto(w, "charge")
    BY <1>20 DEF SendReply, Awaits
  <2>2. Moves(w, "charge")
    BY <1>1, <2>1, GotoMoves DEF Step, ReplyStep
  <2>3. "owed" \in SlotStages(worker'[w])
    BY <2>2 DEF Moves, SlotStages
  <2>4. QED
    BY <1>3, <2>1, <2>2, <2>3, SlotSteps, HolderKept
<1>21. CASE ChargeReply(w)
  <2>1. worker[w].at = "charge" /\ Charge(w) /\ Goto(w, "finish")
    BY <1>21 DEF ChargeReply, Awaits
  <2>2. QED
    BY <2>1, SlotSteps, PlainGoto DEF WebhookStep
<1>22. CASE SendReplyFails(w)
  <2>1. worker[w].at = "replySend" /\ SlotMoves(w, "idle")
    BY <1>22, SlotSteps DEF SendReplyFails, Awaits
  <2>2. CASE Goto(w, "flag")
    <3>1. Moves(w, "flag")
      BY <1>1, <2>2, GotoMoves DEF Step, ReplyStep
    <3>2. "idle" \in SlotStages(worker'[w])
      BY <3>1 DEF Moves, SlotStages
    <3>3. QED
      BY <1>3, <2>1, <3>1, <3>2, HolderKept
  <2>3. CASE Goto(w, "throttled") \/ Goto(w, "rethrow")
    BY <2>1, <2>3, PlainGoto DEF WebhookStep
  <2>4. QED
    BY <1>22, <2>2, <2>3 DEF SendReplyFails
<1>23. QED
  BY <1>6, <1>7, <1>8, <1>9, <1>10, <1>11, <1>12, <1>13, <1>14, <1>15, <1>16, <1>17, <1>18,
     <1>19, <1>20, <1>21, <1>22 DEF ExecutionProgress, ExecutionFault

LEMMA HandsStep ==
    ASSUME HandsFit, QuotaTypeOK, capture \in CaptureRow, [Next]_vars
    PROVE  HandsFit'
<1>1. ASSUME UNCHANGED <<worker, quotaVars>> PROVE HandsFit'
  BY <1>1 DEF HandsFit, quotaVars, InHand, SlotStages
<1>2. ASSUME NEW w \in Worker, NEW id \in JobId, Take(w, id) PROVE HandsFit'
  <2>1. sender[w].at = "idle" /\ UNCHANGED quotaVars
    BY <1>2 DEF Take, Awaits, HandsFit, SlotStages
  <2>2. SlotMoves(w, "idle")
    BY <2>1, SlotSteps
  <2>3. InHand(worker'[w]) /\ SlotStages(worker'[w]) = {"idle"}
    BY <1>2, HandlerStarts, PlainFits DEF HandsFit, Plain, WebhookStep
  <2>4. QED
    BY <1>2, <2>2, <2>3, HandlerStarts, HandsKept DEF HandsFit
<1>3. ASSUME NEW w \in Worker, Settle(w) PROVE HandsFit'
  <2>1. sender[w].at = "idle" /\ UNCHANGED quotaVars
    BY <1>3 DEF Settle, Settling, HandsFit, SlotStages
  <2>2. SlotMoves(w, "idle")
    BY <2>1, SlotSteps
  <2>3. QED
    BY <1>3, <2>2, HandlerEnds, FreeFits, HandsKept DEF HandsFit
<1>4. ASSUME NEW w \in Worker, Crash(w) PROVE HandsFit'
  <2>1. SlotMoves(w, "idle")
    BY <1>4, SlotSteps DEF Crash
  <2>2. QED
    BY <1>4, <2>1, HandlerEnds, FreeFits, HandsKept DEF HandsFit
<1>5. ASSUME NEW w \in Worker, Throw(w) PROVE HandsFit'
  <2>1. worker[w].at # "idle" /\ InHand(worker[w]) /\ sender[w].at \in SlotStages(worker[w])
    BY <1>5 DEF Throw, HandsFit
  <2>2. CASE Caught(w)
    <3>1. /\ worker[w].at \in {"open", "mark"} /\ Booking(worker[w])
          /\ worker' = [worker EXCEPT ![w].at = "release", ![w].error = "other"]
          /\ UNCHANGED quotaVars
      BY <1>5, <2>1, <2>2 DEF Throw, Caught, Awaits, Booking, InHand
    <3>2. SlotMoves(w, "held")
      BY <2>1, <3>1, SlotSteps DEF SlotStages, Booking
    <3>3. Moves(w, "release")
      BY <3>1, ErrorCaught DEF HandsFit
    <3>4. "held" \in SlotStages(worker'[w])
      BY <3>3 DEF Moves, SlotStages
    <3>5. worker[w].job.queue = "execution"
      BY <2>1, <3>1 DEF InHand, ExecutionStep
    <3>6. QED
      BY <2>1, <3>2, <3>3, <3>4, <3>5, HolderKept
  <2>3. CASE ~ Caught(w)
    BY <1>5, <2>1, <2>3, SlotSteps, PlainGoto DEF Throw, Plain, WebhookStep
  <2>4. QED
    BY <2>2, <2>3
<1>6. ASSUME NEW e \in Event, Deliver(e) PROVE HandsFit'
  BY <1>1, <1>6 DEF Deliver
<1>7. ASSUME NEW id \in JobId, Evict(id) \/ Recover(id) \/ LoseLock(id) PROVE HandsFit'
  BY <1>1, <1>7 DEF Evict, Recover, LoseLock
<1>8. CASE Environment
  <2>1. UNCHANGED <<worker, sender>>
    BY <1>8 DEF Environment, ChangeAccount, SetOrgActive, CaptureLapses, ChangeSubscription,
       ChangeRule, ChangePlan, quotaVars
  <2>2. QED
    BY <2>1 DEF HandsFit, InHand, SlotStages
<1>9. CASE UNCHANGED vars
  BY <1>1, <1>9 DEF vars
<1>10. QED
  BY <1>2, <1>3, <1>4, <1>5, <1>6, <1>7, <1>8, <1>9, WebhookHands, ExecutionHands
     DEF Next, Progress

------------------------------------------------------------------------------
(* The queues                                                              *)

(* What BullMQ does with a job leaves it a job, and whoever holds the lock *)
(* of a job is the worker it is active with.                               *)
OwnedJob == {j \in Bull!Job : j.state = "active" <=> j.owner \in Worker}

LEMMA AbsentJob == Bull!Absent \in OwnedJob
  BY PipelineAssumption DEF OwnedJob, Bull!Absent, Bull!Job, Bull!JobState

LEMMA JobSteps ==
    ASSUME NEW j \in OwnedJob
    PROVE  /\ Bull!Added(j) \in OwnedJob
           /\ Bull!Stalled(j) \in OwnedJob
           /\ \A w \in Worker :
                /\ Bull!Taken(j, w) \in OwnedJob
                /\ Bull!Completed(j, w) \in OwnedJob
                /\ \A attempts : Bull!Failed(j, w, attempts) \in OwnedJob
                /\ Bull!RateLimited(j, w) \in OwnedJob
<1> USE PipelineAssumption DEF OwnedJob, Bull!Job, Bull!JobState, Bull!Absent
<1>1. j.made + 1 \in Nat /\ j.stalls + 1 \in Nat
  OBVIOUS
<1>2. Bull!Added(j) \in OwnedJob
  BY DEF Bull!Added
<1>3. Bull!Stalled(j) \in OwnedJob
  BY <1>1 DEF Bull!Stalled
<1>4. ASSUME NEW w \in Worker
      PROVE  /\ Bull!Taken(j, w) \in OwnedJob
             /\ Bull!Completed(j, w) \in OwnedJob
             /\ \A attempts : Bull!Failed(j, w, attempts) \in OwnedJob
             /\ Bull!RateLimited(j, w) \in OwnedJob
  <2>1. Bull!Taken(j, w) \in OwnedJob
    BY DEF Bull!Taken
  <2>2. Bull!Completed(j, w) \in OwnedJob
    BY DEF Bull!Completed
  <2>3. \A attempts : Bull!Failed(j, w, attempts) \in OwnedJob
    BY <1>1 DEF Bull!Failed
  <2>4. Bull!RateLimited(j, w) \in OwnedJob
    BY DEF Bull!RateLimited
  <2>5. QED
    BY <2>1, <2>2, <2>3, <2>4
<1>5. QED
  BY <1>2, <1>3, <1>4

LEMMA QueuesStep ==
    ASSUME job \in [JobId -> OwnedJob], HandsFit, [Next]_vars
    PROVE  job' \in [JobId -> OwnedJob]
<1>1. ASSUME NEW e \in Event, Deliver(e) PROVE job' \in [JobId -> OwnedJob]
  BY <1>1, JobIds, JobSteps DEF Deliver
<1>2. ASSUME NEW id \in JobId, Evict(id) \/ Recover(id) \/ LoseLock(id)
      PROVE  job' \in [JobId -> OwnedJob]
  BY <1>2, AbsentJob, JobSteps DEF Evict, Recover, LoseLock
<1>3. ASSUME NEW w \in Worker, NEW id \in JobId, Take(w, id) PROVE job' \in [JobId -> OwnedJob]
  BY <1>3, JobSteps DEF Take
<1>4. ASSUME NEW w \in Worker, Settle(w) PROVE job' \in [JobId -> OwnedJob]
  <2>1. /\ worker[w].job \in JobId
        /\ \/ job' = [job EXCEPT ![worker[w].job] = Bull!Completed(@, w)]
           \/ job' = [job EXCEPT ![worker[w].job] = Bull!Failed(@, w, Attempts(worker[w].job))]
           \/ job' = [job EXCEPT ![worker[w].job] = Bull!RateLimited(@, w)]
    BY <1>4, InHandJob DEF Settle, Settling, Awaits, HandsFit
  <2>2. QED
    BY <2>1, JobSteps
<1>5. ASSUME NEW w \in Worker, HandOff(w) \/ EnqueueReply(w) PROVE job' \in [JobId -> OwnedJob]
  <2>1. \E id \in JobId : job' = [job EXCEPT ![id] = Bull!Added(@)] \/ job' = job
    <3>1. /\ EventOf(w) \in Event
          /\ HandOff(w) => worker[w].rule \in Rule
      BY <1>5, InHandJob DEF HandOff, EnqueueReply, Awaits, HandsFit, InHand, EventOf
    <3>2. QED
      BY <1>5, <3>1, JobIds DEF HandOff, EnqueueReply
  <2>2. QED
    BY <2>1, JobSteps
<1>6. ASSUME NEW w \in Worker, Progress(w) \/ ExecutionFault(w) \/ Throw(w) \/ Crash(w),
             ~ HandOff(w), ~ EnqueueReply(w), ~ Settle(w)
      PROVE  job' = job
  BY <1>6 DEF Progress, ExecutionFault, WebhookProcessingStep, ExecutionProgress, Throw, Crash,
     Dedup, Resolve, FindActiveCapture, MatchRules, RecordProcessed, Unsubscribe, UpsertContact,
     ReadReplyCopy, SaveEmail, CompleteCapture, CountAttempt, LoadRule, CheckConsent,
     CheckContactCap, GetDmQuota, IncrementDmUsage, DecrementDmUsage, SendDm, OpenLeadCapture,
     MarkProcessed, FlagAccount, FindNotice, CreateNotice, LoadAccount, GetReplyPeriod,
     SendReply, ChargeReply, SendDmFails, SendReplyFails
<1>7. CASE Environment
  BY <1>7 DEF Environment, ChangeAccount, SetOrgActive, CaptureLapses, ChangeSubscription,
     ChangeRule
<1>8. CASE UNCHANGED vars
  BY <1>8 DEF vars
<1>9. QED
  BY <1>1, <1>2, <1>3, <1>4, <1>5, <1>6, <1>7, <1>8 DEF Next

------------------------------------------------------------------------------
(* The rows and the history                                                *)

RowsTyped ==
    /\ ledger \in [Event -> LedgerRow]
    /\ contact \in {"none", "subscribed", "unsubscribed"}
    /\ capture \in CaptureRow
    /\ account \in AccountRow
    /\ orgActive \in BOOLEAN
    /\ ruleStatus \in [Rule -> {"ACTIVE", "PAUSED", "ARCHIVED"}]
    /\ notices \in [Period -> Nat]
    /\ delivered \in [Event -> Nat]
    /\ replied \in [Event -> Nat]
    /\ handed \in [Event -> Seq(Rule)]
    /\ faults \in 0..MaxFaults
    /\ edits \in 0..MaxEdits

LEMMA CountedOne ==
    ASSUME NEW S, NEW f \in [S -> Nat], NEW x \in S
    PROVE  [f EXCEPT ![x] = @ + 1] \in [S -> Nat]
<1>1. f[x] + 1 \in Nat
  OBVIOUS
<1>2. QED
  BY <1>1

LEMMA HistoryCounted ==
    ASSUME RowsTyped, NEW e \in Event
    PROVE  /\ [delivered EXCEPT ![e] = @ + 1] \in [Event -> Nat]
           /\ [replied EXCEPT ![e] = @ + 1] \in [Event -> Nat]
<1>1. delivered \in [Event -> Nat] /\ replied \in [Event -> Nat]
  BY DEF RowsTyped
<1>2. QED
  BY <1>1, CountedOne

LEMMA BudgetTyped ==
    ASSUME RowsTyped
    PROVE  /\ Fault => faults' \in 0..MaxFaults /\ faults' = faults + 1 /\ edits' = edits
           /\ Edit => edits' \in 0..MaxEdits /\ edits' = edits + 1 /\ faults' = faults
<1>1. MaxFaults \in Nat /\ MaxEdits \in Nat
  BY PipelineAssumption
<1>2. QED
  BY <1>1 DEF RowsTyped, Fault, Edit

LEMMA RecordTyped ==
    ASSUME RowsTyped, HandsFit, NEW w \in Worker, RecordProcessed(w)
    PROVE  RowsTyped'
<1>1. worker[w] \in WorkerState /\ EventOf(w) \in Event
  BY InHandJob DEF HandsFit, RecordProcessed, Awaits, EventOf
<1>2. [outcome |-> worker[w].note, rule |-> worker[w].rule, sent |-> FALSE] \in LedgerRow
  BY <1>1 DEF WorkerState, LedgerRow
<1>3. ledger' \in [Event -> LedgerRow]
  BY <1>1, <1>2 DEF RecordProcessed, RowsTyped
<1>4. QED
  BY <1>3 DEF RowsTyped, RecordProcessed, tenantVars, outVars, budgetVars

LEMMA MarkTyped ==
    ASSUME RowsTyped, HandsFit, NEW w \in Worker, MarkProcessed(w)
    PROVE  RowsTyped'
<1>1. worker[w] \in WorkerState /\ EventOf(w) \in Event
  BY InHandJob DEF HandsFit, MarkProcessed, Awaits, EventOf
<1>2. ledger[EventOf(w)] \in LedgerRow
  BY <1>1 DEF RowsTyped
<1>3. PICK went \in BOOLEAN : went = Sent(ledger[EventOf(w)].sent, worker[w].note)
  BY <1>2 DEF LedgerRow, Sent
<1> DEFINE row == [ledger[EventOf(w)] EXCEPT !.outcome = worker[w].note, !.sent = went]
<1>4. row \in LedgerRow
  BY <1>1, <1>2 DEF WorkerState, LedgerRow
<1>5. ledger' = [ledger EXCEPT ![EventOf(w)] = row]
  BY <1>2, <1>3 DEF MarkProcessed, LedgerRow
<1> HIDE DEF row
<1>6. QED
  BY <1>1, <1>4, <1>5 DEF RowsTyped, MarkProcessed, tenantVars, outVars, budgetVars

LEMMA RowsStep ==
    ASSUME RowsTyped, HandsFit, [Next]_vars
    PROVE  RowsTyped'
<1> USE DEF rowVars, tenantVars, outVars, budgetVars
<1>1. ASSUME UNCHANGED <<rowVars, tenantVars, outVars, budgetVars>> PROVE RowsTyped'
  BY <1>1 DEF RowsTyped
<1>2. ASSUME NEW w \in Worker, worker[w].at # "idle"
      PROVE  /\ worker[w] \in WorkerState /\ InHand(worker[w])
             /\ EventOf(w) \in Event
             /\ worker[w].job.queue = "execution" => worker[w].job.rule \in Rule
             /\ worker[w].attempts + 1 \in Nat
  BY <1>2, InHandJob DEF HandsFit, EventOf, WorkerState
<1>3. ASSUME NEW w \in Worker, Unsubscribe(w) \/ UpsertContact(w) \/ SaveEmail(w)
      PROVE  RowsTyped'
  BY <1>3 DEF RowsTyped, Unsubscribe, UpsertContact, SaveEmail
<1>4. ASSUME NEW w \in Worker, CompleteCapture(w) \/ CountAttempt(w) PROVE RowsTyped'
  <2>1. capture' \in CaptureRow
    BY <1>2, <1>4 DEF RowsTyped, CompleteCapture, CountAttempt, Awaits, CaptureRow
  <2>2. QED
    BY <1>4, <2>1 DEF RowsTyped, CompleteCapture, CountAttempt
<1>5. ASSUME NEW w \in Worker, OpenLeadCapture(w) PROVE RowsTyped'
  <2>1. RuleOf(w) \in Rule
    BY <1>2, <1>5 DEF OpenLeadCapture, Awaits, RuleOf, InHand, ExecutionStep
  <2>2. capture' \in CaptureRow
    BY <1>5, <2>1 DEF OpenLeadCapture, CaptureRow
  <2>3. QED
    BY <1>5, <2>2 DEF RowsTyped, OpenLeadCapture
<1>6. ASSUME NEW w \in Worker, CreateNotice(w) PROVE RowsTyped'
  <2>1. worker[w].period \in Period
    BY <1>2, <1>6 DEF CreateNotice, Awaits, InHand
  <2>2. QED
    BY <1>6, <2>1 DEF RowsTyped, CreateNotice
<1>7. ASSUME NEW w \in Worker, FlagAccount(w) PROVE RowsTyped'
  BY <1>7 DEF RowsTyped, FlagAccount, AccountRow
<1>8. ASSUME NEW w \in Worker, SendDm(w) \/ SendReply(w) PROVE RowsTyped'
  <2>1. EventOf(w) \in Event
    BY <1>2, <1>8 DEF SendDm, SendReply, Awaits
  <2>2. delivered' \in [Event -> Nat] /\ replied' \in [Event -> Nat]
    BY <1>8, <2>1, HistoryCounted DEF RowsTyped, SendDm, SendReply
  <2>3. QED
    BY <1>8, <2>2 DEF RowsTyped, SendDm, SendReply
<1>9. ASSUME NEW w \in Worker, SendDmFails(w) PROVE RowsTyped'
  <2>1. delivered' \in [Event -> Nat]
    <3>1. EventOf(w) \in Event
      BY <1>2, <1>9 DEF SendDmFails, Awaits
    <3>2. \/ delivered' = delivered
          \/ delivered' = [delivered EXCEPT ![EventOf(w)] = @ + 1]
      BY <1>9 DEF SendDmFails
    <3>3. QED
      BY <3>1, <3>2, HistoryCounted DEF RowsTyped
  <2>2. QED
    BY <1>9, <2>1, BudgetTyped DEF RowsTyped, SendDmFails
<1>10. ASSUME NEW w \in Worker, SendReplyFails(w) PROVE RowsTyped'
  <2>1. replied' \in [Event -> Nat]
    BY <1>2, <1>10 DEF RowsTyped, SendReplyFails, Awaits
  <2>2. QED
    BY <1>10, <2>1, BudgetTyped DEF RowsTyped, SendReplyFails
<1>11. ASSUME NEW w \in Worker, HandOff(w) PROVE RowsTyped'
  <2>1. worker[w].rule \in Rule
    BY <1>2, <1>11 DEF HandOff, Awaits, InHand
  <2>2. handed' \in [Event -> Seq(Rule)]
    BY <1>2, <1>11, <2>1 DEF RowsTyped, HandOff, Awaits, ExecutionJob
  <2>3. QED
    BY <1>11, <2>2 DEF RowsTyped, HandOff
<1>12. ASSUME NEW w \in Worker, Throw(w) \/ Crash(w) PROVE RowsTyped'
  BY <1>12, BudgetTyped DEF RowsTyped, Throw, Crash
<1>13. ASSUME NEW id \in JobId, Evict(id) \/ Recover(id) \/ LoseLock(id) PROVE RowsTyped'
  BY <1>1, <1>13, BudgetTyped DEF RowsTyped, Evict, Recover, LoseLock
<1>14. ASSUME NEW e \in Event, Deliver(e) PROVE RowsTyped'
  BY <1>1, <1>14 DEF Deliver
<1>15. ASSUME NEW w \in Worker, NEW id \in JobId, Take(w, id) PROVE RowsTyped'
  BY <1>1, <1>15 DEF Take
<1>16. CASE Environment
  <2>1. CASE ChangeAccount
    <3>1. account' \in AccountRow
      <4>1. account \in AccountRow
        BY DEF RowsTyped
      <4>2. \/ account' = [status |-> "CONNECTED", live |-> TRUE]
            \/ account' = [status |-> "DISCONNECTED", live |-> FALSE]
            \/ \E status \in {"CONNECTED", "ERROR", "NEEDS_RECONNECT"} :
                  account' = [account EXCEPT !.status = status]
        BY <2>1 DEF ChangeAccount
      <4>3. CASE \E status \in {"CONNECTED", "ERROR", "NEEDS_RECONNECT"} :
                   account' = [account EXCEPT !.status = status]
        BY <4>1, <4>3 DEF AccountRow
      <4>4. CASE account' = [status |-> "CONNECTED", live |-> TRUE]
        BY <4>4 DEF AccountRow
      <4>5. CASE account' = [status |-> "DISCONNECTED", live |-> FALSE]
        BY <4>5 DEF AccountRow
      <4>6. QED
        BY <4>2, <4>3, <4>4, <4>5
    <3>2. QED
      BY <2>1, <3>1, BudgetTyped DEF RowsTyped, ChangeAccount
  <2>2. CASE SetOrgActive
    BY <2>2, BudgetTyped DEF RowsTyped, SetOrgActive
  <2>3. CASE CaptureLapses
    <3>1. capture' \in CaptureRow
      BY <2>3 DEF RowsTyped, CaptureLapses, CaptureRow
    <3>2. QED
      BY <2>3, <3>1, BudgetTyped DEF RowsTyped, CaptureLapses
  <2>4. CASE ChangeSubscription
    BY <2>4, BudgetTyped DEF RowsTyped, ChangeSubscription
  <2>5. ASSUME NEW r \in Rule, ChangeRule(r) PROVE RowsTyped'
    BY <2>5, BudgetTyped DEF RowsTyped, ChangeRule
  <2>6. QED
    BY <1>16, <2>1, <2>2, <2>3, <2>4, <2>5 DEF Environment
<1>17. CASE UNCHANGED vars
  BY <1>1, <1>17 DEF vars
<1>18. ASSUME NEW w \in Worker, Progress(w)
       PROVE  \/ UNCHANGED <<rowVars, tenantVars, outVars, budgetVars>>
              \/ RecordProcessed(w) \/ MarkProcessed(w) \/ Unsubscribe(w) \/ UpsertContact(w)
              \/ SaveEmail(w) \/ CompleteCapture(w) \/ CountAttempt(w) \/ OpenLeadCapture(w)
              \/ CreateNotice(w) \/ FlagAccount(w) \/ SendDm(w) \/ SendReply(w) \/ HandOff(w)
  BY <1>18 DEF Progress, WebhookProcessingStep, ExecutionProgress, Dedup, Resolve,
     FindActiveCapture, MatchRules, ReadReplyCopy, EnqueueReply, LoadRule, CheckConsent,
     CheckContactCap, GetDmQuota, IncrementDmUsage, DecrementDmUsage, FindNotice, LoadAccount,
     GetReplyPeriod, ChargeReply, Settle
<1>19. QED
  BY <1>1, <1>3, <1>4, <1>5, <1>6, <1>7, <1>8, <1>9, <1>10, <1>11, <1>12, <1>13, <1>14, <1>15,
     <1>16, <1>17, <1>18, RecordTyped, MarkTyped DEF Next, ExecutionFault

------------------------------------------------------------------------------
(* The type invariant                                                      *)

(* Inductive: StateTypeOK with what the locals of each handler are at each *)
(* step, what the handler then holds of the quota, and who holds a lock.   *)
PipelineTypes ==
    /\ HandsFit
    /\ job \in [JobId -> OwnedJob]
    /\ RowsTyped
    /\ QuotaTypeOK

LEMMA InitTypes == Init => PipelineTypes
<1> SUFFICES ASSUME Init PROVE PipelineTypes
  OBVIOUS
<1>1. QuotaTypeOK
  BY InitQuotaInv DEF Init, QuotaInv
<1>2. HandsFit
  BY FreeFits DEF Init, StateInit, QuotaInit, HandsFit, Idle, Worker
<1>3. job \in [JobId -> OwnedJob]
  BY AbsentJob DEF Init, StateInit
<1>4. NoRow \in LedgerRow /\ NoCapture \in CaptureRow
  BY DEF NoRow, LedgerRow, NoCapture, CaptureRow, Outcome
<1>5. RowsTyped
  BY <1>4, PipelineAssumption DEF Init, StateInit, RowsTyped, AccountRow
<1>6. QED
  BY <1>1, <1>2, <1>3, <1>5 DEF PipelineTypes

LEMMA TypesStep == PipelineTypes /\ [Next]_vars => PipelineTypes'
<1> SUFFICES ASSUME PipelineTypes, [Next]_vars PROVE PipelineTypes'
  OBVIOUS
<1>1. QuotaTypeOK'
  BY QuotaStep, TypeStep DEF PipelineTypes
<1>2. QED
  BY <1>1, HandsStep, QueuesStep, RowsStep DEF PipelineTypes, RowsTyped

LEMMA TypesInvariant == Spec => []PipelineTypes
<1>1. Init => PipelineTypes
  BY InitTypes
<1>2. PipelineTypes /\ [Next]_vars => PipelineTypes'
  BY TypesStep
<1>3. QED
  BY <1>1, <1>2, PTL DEF Spec

(* Whatever handlers crash, throw or lose their locks, every row, job and  *)
(* local keeps its type: no handler is ever at a step with the job of      *)
(* another queue, a rule it has not matched, or a slot it does not hold.   *)
THEOREM PipelineTypeTheorem == Spec => []PipelineTypeOK
<1>1. PipelineTypes => PipelineTypeOK
  BY DEF PipelineTypes, HandsFit, RowsTyped, OwnedJob, PipelineTypeOK, StateTypeOK
<1>2. QED
  BY <1>1, TypesInvariant, PTL

------------------------------------------------------------------------------
(* The ways of a handler                                                   *)

(* The steps that may follow each step, an uncaught error apart; the       *)
(* saving of an email, which moves to "close", is kept apart too.          *)
Follows(step) ==
    CASE step = "dedup" -> {"resolve", "finish"}
      [] step = "resolve" -> {"record", "capture", "rules"}
      [] step = "capture" -> {"record", "rules"}
      [] step = "rules" -> {"record"}
      [] step = "record" -> {"unsubscribe", "copy", "contact", "finish"}
      [] step = "contact" -> {"handoff"}
      [] step = "copy" -> {"email", "attempt"}
      [] step = "close" -> {"reply"}
      [] step = "attempt" -> {"reply", "finish"}
      [] step = "load" -> {"consent", "mark", "finish"}
      [] step = "consent" -> {"cap", "mark"}
      [] step = "cap" -> {"quota", "mark"}
      [] step = "quota" -> {"reserve"}
      [] step = "reserve" -> {"release", "send"}
      [] step = "release" -> {"mark", "flag"}
      [] step = "send" -> {"open", "mark", "release"}
      [] step = "open" -> {"mark", "release"}
      [] step = "mark" -> {"findNotice", "throttled", "finish", "release"}
      [] step = "flag" -> {"mark", "finish"}
      [] step = "findNotice" -> {"notice", "finish"}
      [] step = "account" -> {"replyQuota", "finish"}
      [] step = "replyQuota" -> {"replySend"}
      [] step = "replySend" -> {"charge", "flag", "throttled"}
      [] OTHER -> {"finish"}

(* w goes on along these ways, and what it has found decides which.        *)
Onward(w, step) ==
    /\ Moves(w, step)
    /\ worker[w].at \notin Settling \cup {"idle"}
    /\ step \in Follows(worker[w].at) \cup {"rethrow"}
    /\ step \in {"contact", "handoff"} => worker'[w].rule = worker[w].rule
    /\ step = "contact" => worker[w].note = "matched"
    /\ step = "copy" => worker[w].note = "lead_capture"
    /\ step = "unsubscribe" => worker[w].note = "opted_out"
    /\ step = "email" => Kind[EventOf(w)].email
    /\ step = "finish" /\ worker[w].at = "dedup" => ledger[EventOf(w)].outcome # "none"
    /\ step = "cap" => contact # "unsubscribed"
    /\ step = "mark" => (worker'[w].note = "dm_sent" <=> worker[w].at \in {"send", "open"})
    /\ Booking(worker[w]) => step \in {"mark", "finish"} \/ (step = "release" /\ Fault)

LEMMA WebhookMoves ==
    ASSUME PipelineTypes, NEW w \in Worker, WebhookProcessingStep(w), ~ SaveEmail(w)
    PROVE  \E step \in Step : Onward(w, step)
<1> USE DEF WebhookStep, Settling, Step
<1>1. /\ worker \in [Worker -> WorkerState] /\ worker[w].rule \in Rule \cup {NoRule}
      /\ capture \in CaptureRow
  BY DEF PipelineTypes, HandsFit, RowsTyped, WorkerState
<1>2. CASE Dedup(w)
  <2>1. PICK step \in {"resolve", "finish"} :
          Goto(w, step) /\ (step = "finish" => ledger[EventOf(w)].outcome # "none")
    BY <1>2 DEF Dedup
  <2>2. Onward(w, step)
    BY <1>1, <1>2, <2>1, GotoMoves DEF Dedup, Awaits, Onward, Follows, Booking
  <2>3. QED
    BY <2>2
<1>3. CASE Resolve(w)
  <2>1. worker[w].at = "resolve"
    BY <1>3 DEF Resolve, Awaits
  <2>2. CASE \E step \in {"capture", "rules"} : Goto(w, step)
    BY <1>1, <2>1, <2>2, GotoMoves DEF Onward, Follows, Booking
  <2>3. CASE \E note \in Outcome : Write(w, "record", note)
    BY <1>1, <2>1, <2>3, WriteMoves DEF Onward, Follows, Booking
  <2>4. Refusal(EventOf(w)) \in Outcome /\ "opted_out" \in Outcome
    BY DEF Refusal, Outcome
  <2>5. QED
    BY <1>3, <2>2, <2>3, <2>4 DEF Resolve
<1>4. CASE FindActiveCapture(w)
  BY <1>1, <1>4, CaptureFound DEF FindActiveCapture, Awaits, Onward, Follows, Booking
<1>5. CASE MatchRules(w)
  <2>1. worker[w].at = "rules" /\ EventOf(w) \in Event
    BY <1>5, InHandJob DEF MatchRules, Awaits, PipelineTypes, HandsFit, EventOf
  <2>2. QED
    BY <1>1, <1>5, <2>1, RuleMatched DEF Onward, Follows, Booking
<1>6. CASE RecordProcessed(w)
  <2>1. PICK step \in {"unsubscribe", "copy", "contact", "finish"} :
          /\ Goto(w, step) /\ worker[w].at = "record"
          /\ step = "contact" => worker[w].note = "matched"
          /\ step = "copy" => worker[w].note = "lead_capture"
          /\ step = "unsubscribe" => worker[w].note = "opted_out"
    BY <1>6 DEF RecordProcessed, AfterRecord, Awaits
  <2>2. Onward(w, step)
    BY <1>1, <2>1, GotoMoves DEF Onward, Follows, Booking, Recalls
  <2>3. QED
    BY <2>2
<1>7. CASE Unsubscribe(w) \/ HandOff(w) \/ EnqueueReply(w)
  <2>1. worker[w].at \in {"unsubscribe", "handoff", "reply"} /\ Goto(w, "finish")
    BY <1>7 DEF Unsubscribe, HandOff, EnqueueReply, Awaits
  <2>2. Onward(w, "finish")
    BY <1>1, <2>1, GotoMoves DEF Onward, Follows, Booking
  <2>3. QED
    BY <2>2
<1>8. CASE UpsertContact(w)
  <2>1. Onward(w, "handoff")
    BY <1>1, <1>8, GotoMoves DEF UpsertContact, Awaits, Onward, Follows, Booking, Recalls
  <2>2. QED
    BY <2>1
<1>9. CASE ReadReplyCopy(w)
  BY <1>1, <1>9, CopyRead DEF ReadReplyCopy, Awaits, Onward, Follows, Booking
<1>10. CASE CompleteCapture(w) \/ CountAttempt(w)
  <2>1. PICK step \in {"reply", "finish"} :
          /\ worker[w].at \in {"close", "attempt"} /\ Goto(w, step)
          /\ step = "finish" => worker[w].at = "attempt"
    BY <1>10 DEF CompleteCapture, CountAttempt, Awaits
  <2>2. Onward(w, step)
    BY <1>1, <2>1, GotoMoves DEF Onward, Follows, Booking
  <2>3. QED
    BY <2>2
<1>11. QED
  BY <1>2, <1>3, <1>4, <1>5, <1>6, <1>7, <1>8, <1>9, <1>10 DEF WebhookProcessingStep

LEMMA ExecutionMoves ==
    ASSUME PipelineTypes, NEW w \in Worker, ExecutionProgress(w) \/ ExecutionFault(w)
    PROVE  \E step \in Step : Onward(w, step)
<1> USE DEF ExecutionStep, ReplyStep, Settling, Step
<1>1. worker \in [Worker -> WorkerState] /\ InHand(worker[w])
  BY DEF PipelineTypes, HandsFit
<1>2. ASSUME NEW step \in Follows(worker[w].at) \cup {"rethrow"}, step \in Step, Goto(w, step),
             worker[w].at \notin Settling \cup {"idle"},
             step \notin {"contact", "copy", "unsubscribe", "email"}, worker[w].at # "dedup",
             step = "cap" => contact # "unsubscribed",
             step = "mark" => (worker[w].note = "dm_sent" <=> worker[w].at \in {"send", "open"}),
             Booking(worker[w]) => step \in {"mark", "finish"}
      PROVE  \E to \in Step : Onward(w, to)
  <2>1. Onward(w, step)
    BY <1>1, <1>2, GotoMoves DEF Onward, Recalls
  <2>2. QED
    BY <1>2, <2>1
<1>3. ASSUME NEW note \in Outcome \ {"dm_sent"}, Write(w, "mark", note),
             worker[w].at \in {"load", "consent", "cap"}
      PROVE  \E to \in Step : Onward(w, to)
  <2>1. Onward(w, "mark")
    BY <1>1, <1>3, WriteMoves DEF Onward, Follows, Booking
  <2>2. QED
    BY <2>1
<1>4. CASE LoadRule(w)
  <2>1. worker[w].at = "load" /\ "needs_reconnect" \in Outcome \ {"dm_sent"}
    BY <1>4 DEF LoadRule, Awaits, Outcome
  <2>2. \/ \E step \in {"finish", "consent"} : Goto(w, step)
        \/ Write(w, "mark", "needs_reconnect")
    BY <1>4 DEF LoadRule
  <2>3. QED
    BY <1>2, <1>3, <2>1, <2>2 DEF Follows, Booking
<1>5. CASE CheckConsent(w)
  <2>1. worker[w].at = "consent" /\ "unsubscribed" \in Outcome \ {"dm_sent"}
    BY <1>5 DEF CheckConsent, Awaits, Outcome
  <2>2. \/ contact # "unsubscribed" /\ Goto(w, "cap")
        \/ Write(w, "mark", "unsubscribed")
    BY <1>5 DEF CheckConsent
  <2>3. QED
    BY <1>2, <1>3, <2>1, <2>2 DEF Follows, Booking
<1>6. CASE CheckContactCap(w)
  <2>1. worker[w].at = "cap" /\ "rate_limited" \in Outcome \ {"dm_sent"}
    BY <1>6 DEF CheckContactCap, Awaits, Outcome
  <2>2. Goto(w, "quota") \/ Write(w, "mark", "rate_limited")
    BY <1>6 DEF CheckContactCap
  <2>3. QED
    BY <1>2, <1>3, <2>1, <2>2 DEF Follows, Booking
<1>7. CASE GetDmQuota(w)
  BY <1>2, <1>7 DEF GetDmQuota, Awaits, Follows, Booking
<1>8. CASE IncrementDmUsage(w)
  <2>1. worker[w].at = "reserve"
    BY <1>8 DEF IncrementDmUsage, Awaits
  <2>2. PICK step \in {"release", "send"} : Goto(w, step)
    BY <1>8 DEF IncrementDmUsage
  <2>3. QED
    BY <1>2, <2>1, <2>2 DEF Follows, Booking
<1>9. CASE DecrementDmUsage(w)
  <2>1. worker[w].at = "release"
    BY <1>9 DEF DecrementDmUsage, Awaits
  <2>2. PICK step \in {"mark", "flag"}, note \in {"plan_limit_reached", "needs_reconnect", "failed"} :
          Moves(w, step) /\ worker'[w].note = note
    BY <1>1, <1>9, SlotReturned DEF PipelineTypes
  <2>3. Onward(w, step)
    BY <2>1, <2>2 DEF Onward, Follows, Booking
  <2>4. QED
    BY <2>3
<1>10. CASE SendDm(w)
  <2>1. worker[w].at = "send"
    BY <1>10 DEF SendDm, Awaits
  <2>2. PICK step \in {"open", "mark"} : Write(w, step, "dm_sent")
    BY <1>10 DEF SendDm
  <2>3. Moves(w, step) /\ worker'[w].note = "dm_sent"
    BY <1>1, <2>2, WriteMoves DEF Outcome
  <2>4. Onward(w, step)
    BY <2>1, <2>3 DEF Onward, Follows, Booking
  <2>5. QED
    BY <2>4
<1>11. CASE SendDmFails(w)
  <2>1. worker[w].at = "send"
    BY <1>11 DEF SendDmFails, Awaits
  <2>2. Moves(w, "release")
    BY <1>1, <1>11, ErrorCaught DEF SendDmFails
  <2>3. Onward(w, "release")
    BY <2>1, <2>2 DEF Onward, Follows, Booking
  <2>4. QED
    BY <2>3
<1>12. CASE OpenLeadCapture(w)
  <2>1. worker[w].at = "open" /\ worker[w].note = "dm_sent" /\ Goto(w, "mark")
    BY <1>1, <1>12 DEF OpenLeadCapture, Awaits, InHand
  <2>2. QED
    BY <1>2, <2>1 DEF Follows
<1>13. CASE MarkProcessed(w)
  <2>1. worker[w].at = "mark"
    BY <1>13 DEF MarkProcessed, Awaits
  <2>2. PICK step \in {"findNotice", "throttled", "rethrow", "finish"} :
          Goto(w, step) /\ (worker[w].note = "dm_sent" => step = "finish")
    BY <1>13 DEF MarkProcessed, AfterMark
  <2>3. QED
    BY <1>2, <2>1, <2>2 DEF Follows, Booking
<1>14. CASE FlagAccount(w)
  <2>1. worker[w].at = "flag"
    BY <1>14 DEF FlagAccount, Awaits
  <2>2. CASE worker[w].job.queue = "execution"
    <3>1. Goto(w, "mark") /\ worker[w].note = "needs_reconnect"
      BY <1>1, <1>14, <2>1, <2>2 DEF FlagAccount, InHand
    <3>2. QED
      BY <1>2, <2>1, <3>1 DEF Follows, Booking
  <2>3. CASE worker[w].job.queue # "execution"
    BY <1>2, <1>14, <2>1, <2>3 DEF FlagAccount, Follows, Booking
  <2>4. QED
    BY <2>2, <2>3
<1>15. CASE FindNotice(w)
  <2>1. PICK step \in {"finish", "notice"} : Goto(w, step) /\ worker[w].at = "findNotice"
    BY <1>15 DEF FindNotice, Awaits
  <2>2. QED
    BY <1>2, <2>1 DEF Follows, Booking
<1>16. CASE CreateNotice(w) \/ ChargeReply(w)
  <2>1. worker[w].at \in {"notice", "charge"} /\ Goto(w, "finish")
    BY <1>16 DEF CreateNotice, ChargeReply, Awaits
  <2>2. QED
    BY <1>2, <2>1 DEF Follows, Booking
<1>17. CASE LoadAccount(w)
  <2>1. PICK step \in {"replyQuota", "finish"} : Goto(w, step) /\ worker[w].at = "account"
    BY <1>17 DEF LoadAccount, Awaits
  <2>2. QED
    BY <1>2, <2>1 DEF Follows, Booking
<1>18. CASE GetReplyPeriod(w)
  BY <1>2, <1>18 DEF GetReplyPeriod, Awaits, Follows, Booking
<1>19. CASE SendReply(w)
  BY <1>2, <1>19 DEF SendReply, Awaits, Follows, Booking
<1>20. CASE SendReplyFails(w)
  <2>1. worker[w].at = "replySend"
    BY <1>20 DEF SendReplyFails, Awaits
  <2>2. PICK step \in {"flag", "throttled", "rethrow"} : Goto(w, step)
    BY <1>20 DEF SendReplyFails
  <2>3. QED
    BY <1>2, <2>1, <2>2 DEF Follows, Booking
<1>21. QED
  BY <1>4, <1>5, <1>6, <1>7, <1>8, <1>9, <1>10, <1>11, <1>12, <1>13, <1>14, <1>15, <1>16,
     <1>17, <1>18, <1>19, <1>20 DEF ExecutionProgress, ExecutionFault

LEMMA ThrowMoves ==
    ASSUME PipelineTypes, NEW w \in Worker, Throw(w)
    PROVE  \E step \in {"release", "rethrow"} :
              Onward(w, step) /\ (step = "release" <=> Booking(worker[w]))
<1>1. /\ worker \in [Worker -> WorkerState] /\ InHand(worker[w])
      /\ worker[w].at \notin Settling \cup {"idle"}
  BY DEF PipelineTypes, HandsFit, Throw
<1>2. Caught(w) <=> Booking(worker[w])
  BY <1>1 DEF Caught, Booking, InHand, Awaits
<1>3. CASE Caught(w)
  <2>1. Moves(w, "release") /\ worker[w].at \in {"open", "mark"}
    BY <1>1, <1>3, ErrorCaught DEF Throw, Caught, Awaits
  <2>2. Onward(w, "release")
    BY <1>1, <2>1 DEF Onward, Follows, Throw
  <2>3. QED
    BY <1>2, <1>3, <2>2
<1>4. CASE ~ Caught(w)
  <2>1. Moves(w, "rethrow")
    BY <1>1, <1>4, GotoMoves DEF Throw, Step, Settling
  <2>2. Onward(w, "rethrow")
    BY <1>1, <1>2, <1>4, <2>1 DEF Onward
  <2>3. QED
    BY <1>2, <1>4, <2>2
<1>5. QED
  BY <1>3, <1>4

------------------------------------------------------------------------------
(* STOP is heeded                                                          *)

(* Only the saving of an email subscribes a contact that is unsubscribed.  *)
LEMMA ContactSteps ==
    ASSUME [Next]_vars, contact = "unsubscribed", contact' # "unsubscribed"
    PROVE  \E w \in Worker : SaveEmail(w)
<1> USE DEF rowVars
<1>1. ASSUME NEW w \in Worker, Progress(w), ~ SaveEmail(w)
      PROVE  contact' = "unsubscribed"
  BY <1>1 DEF Progress, WebhookProcessingStep, ExecutionProgress, Dedup, Resolve,
     FindActiveCapture, MatchRules, RecordProcessed, Unsubscribe, UpsertContact, HandOff,
     ReadReplyCopy, CompleteCapture, CountAttempt, EnqueueReply, LoadRule, CheckConsent,
     CheckContactCap, GetDmQuota, IncrementDmUsage, DecrementDmUsage, SendDm, OpenLeadCapture,
     MarkProcessed, FlagAccount, FindNotice, CreateNotice, LoadAccount, GetReplyPeriod,
     SendReply, ChargeReply, Settle
<1>2. ASSUME NEW w \in Worker, ExecutionFault(w) \/ Throw(w) \/ Crash(w) PROVE contact' = contact
  BY <1>2 DEF ExecutionFault, SendDmFails, SendReplyFails, Throw, Crash
<1>3. ASSUME NEW id \in JobId, NEW w \in Worker, Take(w, id) PROVE contact' = contact
  BY <1>3 DEF Take
<1>4. ASSUME NEW id \in JobId, Evict(id) \/ Recover(id) \/ LoseLock(id) PROVE contact' = contact
  BY <1>4 DEF Evict, Recover, LoseLock
<1>5. ASSUME NEW e \in Event, Deliver(e) PROVE contact' = contact
  BY <1>5 DEF Deliver
<1>6. CASE Environment
  BY <1>6 DEF Environment, ChangeAccount, SetOrgActive, CaptureLapses, ChangeSubscription,
     ChangeRule
<1>7. CASE UNCHANGED vars
  BY <1>7 DEF vars
<1>8. QED
  BY <1>1, <1>2, <1>3, <1>4, <1>5, <1>6, <1>7 DEF Next

(* What becomes of the handlers in a step of the pipeline.                 *)
LEMMA WorkerSteps ==
    ASSUME PipelineTypes, [Next]_vars
    PROVE  \/ worker' = worker
           \/ \E w \in Worker : \/ SaveEmail(w)
                                \/ Aside(w) /\ worker'[w] = Free
                                \/ \E step \in Step : Onward(w, step)
                                \/ \E id \in JobId : Take(w, id)
<1>1. worker \in [Worker -> WorkerState]
  BY DEF PipelineTypes, HandsFit
<1>2. ASSUME NEW w \in Worker, Throw(w) PROVE \E step \in Step : Onward(w, step)
  BY <1>2, ThrowMoves DEF Step, ExecutionStep, Settling
<1>3. ASSUME NEW id \in JobId, Evict(id) \/ Recover(id) \/ LoseLock(id) PROVE worker' = worker
  BY <1>3 DEF Evict, Recover, LoseLock
<1>4. ASSUME NEW e \in Event, Deliver(e) PROVE worker' = worker
  BY <1>4 DEF Deliver
<1>5. Environment => worker' = worker
  BY DEF Environment, ChangeAccount, SetOrgActive, CaptureLapses, ChangeSubscription, ChangeRule
<1>6. UNCHANGED vars => worker' = worker
  BY DEF vars
<1>7. QED
  BY <1>1, <1>2, <1>3, <1>4, <1>5, <1>6, WebhookMoves, ExecutionMoves, HandlerEnds
     DEF Next, Progress

(* Inductive: an attempt counts as stopped only while the contact is       *)
(* unsubscribed, so one that is past the look at the consent is not.       *)
StopInv ==
    \A w \in Worker :
        /\ worker[w].stopped => contact = "unsubscribed"
        /\ worker[w].at \in {"cap", "quota", "reserve", "send"} => ~ worker[w].stopped

LEMMA StopStep ==
    ASSUME PipelineTypes, StopInv, [Next]_vars
    PROVE  StopInv'
<1>1. worker \in [Worker -> WorkerState]
  BY DEF PipelineTypes, HandsFit
<1>2. CASE \E w \in Worker : SaveEmail(w)
  <2>1. \A v \in Worker : worker'[v].stopped = FALSE
    BY <1>1, <1>2, EmailSaved
  <2>2. QED
    BY <2>1 DEF StopInv
<1>3. ASSUME ~ \E w \in Worker : SaveEmail(w), NEW v \in Worker
      PROVE  /\ worker'[v].stopped => contact' = "unsubscribed"
             /\ worker'[v].at \in {"cap", "quota", "reserve", "send"} => ~ worker'[v].stopped
  <2>1. contact = "unsubscribed" => contact' = "unsubscribed"
    BY <1>3, ContactSteps
  <2>2. CASE worker'[v] = worker[v]
    BY <2>1, <2>2 DEF StopInv
  <2>3. CASE worker'[v] = Free
    BY <2>3 DEF Free
  <2>4. CASE \E step \in Step : Onward(v, step)
    BY <2>1, <2>4 DEF Onward, Moves, StopInv, Follows
  <2>5. CASE \E id \in JobId : Take(v, id)
    <3>1. contact' = contact
      BY <2>5 DEF Take, rowVars
    <3>2. QED
      BY <1>1, <2>5, <3>1, HandlerStarts
  <2>6. QED
    <3>1. \/ worker'[v] = worker[v]
          \/ worker'[v] = Free
          \/ \E step \in Step : Onward(v, step)
          \/ \E id \in JobId : Take(v, id)
      BY <1>1, <1>3, WorkerSteps, HandlerStarts DEF Onward, Moves, Aside
    <3>2. QED
      BY <2>2, <2>3, <2>4, <2>5, <3>1
<1>4. QED
  BY <1>2, <1>3 DEF StopInv

(* "Never message a contact who unsubscribed": however the opt-out, the    *)
(* emails of lead captures, retries and crashes interleave, no attempt     *)
(* that began after a STOP reaches its send.                               *)
THEOREM StopIsHeededTheorem == Spec => []StopIsHeeded
<1>1. Init => StopInv
  BY DEF Init, StateInit, StopInv, Free
<1>2. PipelineTypes /\ StopInv /\ [Next]_vars => StopInv'
  BY StopStep
<1>3. StopInv => StopIsHeeded
  BY DEF StopInv, StopIsHeeded, Awaits
<1>4. QED
  BY <1>1, <1>2, <1>3, TypesInvariant, PTL DEF Spec
=============================================================================
