--------------------------- MODULE EventClaimProofs ---------------------------
(***************************************************************************)
(* What becomes of one event, proved for any events, rules, workers and    *)
(* bounds: DmPipeline implements EventClaim, and the books it keeps about  *)
(* an event tell what happened to it.                                      *)
(***************************************************************************)
EXTENDS DmPipelineProofs, FiniteSetTheorems

------------------------------------------------------------------------------
(* The claims the invariant is made of                                     *)

Handing(w) == worker[w].at \in {"contact", "handoff"}
Answering == {"copy", "email", "close", "attempt", "reply"}

(* What handler w knows to be settled about its event.                     *)
Lawful(w) ==
    LET e == EventOf(w) IN
    /\ worker[w].job.queue = "execution" => handed[e] = <<worker[w].job.rule>>
    /\ Handing(w) => /\ ledger[e].outcome = "matched"
                     /\ ledger[e].rule = worker[w].rule
                     /\ handed[e] = <<>>
    /\ worker[w].at \in Answering => ledger[e].outcome = "lead_capture"
    /\ worker[w].at = "email" => Kind[e].email
    /\ worker[w].at = "unsubscribe" => ledger[e].outcome = "opted_out"
    /\ worker[w].at = "finish" /\ worker[w].job.queue = "webhook" => ledger[e].outcome # "none"

(* A handed event is one that was matched, to the rule it was handed to.   *)
HandedFits(e) ==
    handed[e] # <<>> =>
        /\ ledger[e].rule \in Rule
        /\ handed[e] = <<ledger[e].rule>>
        /\ ledger[e].outcome \notin {"none", "lead_capture", "opted_out"}

JobsFollow ==
    \A e \in Event, r \in Rule :
        job[ExecutionJob(e, r)].state # "absent" => handed[e] = <<r>>

HandedByOne ==
    \A v, w \in Worker : Handing(v) /\ Handing(w) /\ EventOf(v) = EventOf(w) => v = w

(* Inductive: one delivery decides an event, the others find it decided.   *)
Claims ==
    /\ \A w \in Worker : Lawful(w)
    /\ \A e \in Event : HandedFits(e)
    /\ JobsFollow
    /\ HandedByOne

LEMMA InitClaims == Init => Claims
<1>1. NoJob.queue # "execution" /\ NoJob.queue # "webhook"
  BY DEF NoJob
<1>2. Init => /\ \A w \in Worker : worker[w] = Free
              /\ \A e \in Event : handed[e] = <<>>
              /\ \A id \in JobId : job[id] = Bull!Absent
  BY DEF Init, StateInit
<1>3. QED
  BY <1>1, <1>2, JobIds DEF Claims, Lawful, HandedFits, JobsFollow, HandedByOne, Handing,
     Answering, Free, Bull!Absent

------------------------------------------------------------------------------
(* The steps, by what they do to the claims                                *)

(* A handler's step that decides nothing and hands nothing over.           *)
Quiet(w) ==
    /\ Progress(w) \/ ExecutionFault(w) \/ Throw(w)
    /\ ~ RecordProcessed(w) /\ ~ HandOff(w) /\ ~ MarkProcessed(w)
    /\ ~ SaveEmail(w) /\ ~ Settle(w)

LEMMA QuietFrame ==
    ASSUME NEW w \in Worker, Quiet(w)
    PROVE  /\ ledger' = ledger /\ handed' = handed
           /\ job' = job \/ EnqueueReply(w)
           /\ worker[w].at \notin {"record", "handoff", "mark", "email"} \/ Throw(w)
           /\ delivered' = delivered \/ SendDm(w) \/ SendDmFails(w)
<1> USE DEF rowVars, outVars
<1>1. CASE Throw(w)
  BY <1>1 DEF Throw
<1>2. CASE WebhookProcessingStep(w)
  BY <1>2 DEF Quiet, WebhookProcessingStep, Dedup, Resolve, FindActiveCapture, MatchRules,
     Unsubscribe, UpsertContact, ReadReplyCopy, CompleteCapture, CountAttempt, EnqueueReply,
     Awaits
<1>3. CASE ExecutionProgress(w)
  BY <1>3 DEF Quiet, ExecutionProgress, LoadRule, CheckConsent, CheckContactCap, GetDmQuota,
     IncrementDmUsage, DecrementDmUsage, SendDm, OpenLeadCapture, FlagAccount, FindNotice,
     CreateNotice, LoadAccount, GetReplyPeriod, SendReply, ChargeReply, Awaits
<1>4. CASE ExecutionFault(w)
  BY <1>4 DEF ExecutionFault, SendDmFails, SendReplyFails, Awaits
<1>5. QED
  BY <1>1, <1>2, <1>3, <1>4 DEF Quiet, Progress

LEMMA QuietMoves ==
    ASSUME PipelineTypes, NEW w \in Worker, Quiet(w)
    PROVE  \E step \in Step :
              /\ Onward(w, step)
              /\ worker[w].at \in {"record", "handoff", "mark", "email"} => step \in {"release", "rethrow"}
<1>1. CASE Throw(w)
  BY <1>1, ThrowMoves DEF Step, ExecutionStep, Settling
<1>2. CASE ~ Throw(w)
  BY <1>2, QuietFrame, WebhookMoves, ExecutionMoves DEF Quiet, Progress
<1>3. QED
  BY <1>1, <1>2

(* Jobs of stage 2 come into being only by HandOff.                        *)
LEMMA JobsLeft ==
    ASSUME PipelineTypes, [Next]_vars, ~ \E w \in Worker : HandOff(w),
           NEW e \in Event, NEW r \in Rule, job[ExecutionJob(e, r)].state = "absent"
    PROVE  /\ job'[ExecutionJob(e, r)].state = "absent"
           /\ \A w \in Worker : ~ Take(w, ExecutionJob(e, r))
<1> DEFINE x == ExecutionJob(e, r)
<1>1. /\ job \in [JobId -> OwnedJob] /\ x \in JobId
      /\ \A w \in Worker : job[x].owner # w
      /\ \A d \in Event : WebhookJob(d) # x /\ ReplyJob(d) # x
  BY JobIds DEF PipelineTypes, OwnedJob, ExecutionJob, WebhookJob, ReplyJob
<1>2. \A w \in Worker : ~ Take(w, x)
  BY DEF Take
<1> HIDE DEF x
<1>3. ASSUME NEW d \in Event, Deliver(d) PROVE job'[x] = job[x]
  BY <1>1, <1>3, JobIds DEF Deliver
<1>4. ASSUME NEW id \in JobId, Evict(id) \/ Recover(id) \/ LoseLock(id)
      PROVE  job'[x] = job[x]
  <2>1. id # x
    BY <1>4 DEF Evict, Recover, LoseLock, x
  <2>2. QED
    BY <1>1, <1>4, <2>1 DEF Evict, Recover, LoseLock
<1>5. ASSUME NEW w \in Worker, NEW id \in JobId, Take(w, id) PROVE job'[x] = job[x]
  BY <1>1, <1>2, <1>5 DEF Take
<1>6. ASSUME NEW w \in Worker, Settle(w) PROVE job'[x] = job[x]
  <2>1. \/ job' = [job EXCEPT ![worker[w].job] = Bull!Completed(@, w)]
        \/ job' = [job EXCEPT ![worker[w].job] = Bull!Failed(@, w, Attempts(worker[w].job))]
        \/ job' = [job EXCEPT ![worker[w].job] = Bull!RateLimited(@, w)]
    BY <1>6 DEF Settle, Settling, Awaits
  <2>2. \A attempts : /\ Bull!Completed(job[x], w) = job[x]
                      /\ Bull!Failed(job[x], w, attempts) = job[x]
                      /\ Bull!RateLimited(job[x], w) = job[x]
    BY <1>1 DEF Bull!Completed, Bull!Failed, Bull!RateLimited
  <2>3. QED
    BY <1>1, <2>1, <2>2
<1>7. ASSUME NEW w \in Worker, EnqueueReply(w) PROVE job'[x] = job[x]
  <2>1. EventOf(w) \in Event
    BY <1>7, InHandJob DEF EnqueueReply, Awaits, PipelineTypes, HandsFit, EventOf
  <2>2. QED
    BY <1>1, <1>7, <2>1, JobIds DEF EnqueueReply
<1>8. ASSUME NEW w \in Worker, Quiet(w) \/ SaveEmail(w) \/ RecordProcessed(w) \/ MarkProcessed(w)
                               \/ Crash(w)
      PROVE  job'[x] = job[x]
  BY <1>7, <1>8, QuietFrame DEF SaveEmail, RecordProcessed, MarkProcessed, Crash
<1>9. Environment \/ UNCHANGED vars => job'[x] = job[x]
  BY DEF Environment, ChangeAccount, SetOrgActive, CaptureLapses, ChangeSubscription,
     ChangeRule, vars
<1>10. job'[x] = job[x]
  BY <1>3, <1>4, <1>5, <1>6, <1>8, <1>9 DEF Next, Progress, Quiet
<1>11. QED
  BY <1>2, <1>10 DEF x

(* Every step, sorted for the claims.                                      *)
LEMMA ClaimSteps ==
    ASSUME PipelineTypes, [Next]_vars
    PROVE  \/ \E w \in Worker : RecordProcessed(w) \/ HandOff(w) \/ MarkProcessed(w)
           \/ /\ ledger' = ledger /\ handed' = handed
              /\ \/ worker' = worker
                 \/ \E w \in Worker : \/ Quiet(w) \/ SaveEmail(w)
                                      \/ Aside(w) /\ worker'[w] = Free
                                      \/ \E id \in JobId : Take(w, id)
<1> USE DEF rowVars, outVars
<1>1. worker \in [Worker -> WorkerState]
  BY DEF PipelineTypes, HandsFit
<1>2. ASSUME NEW w \in Worker, Settle(w) \/ Crash(w)
      PROVE  ledger' = ledger /\ handed' = handed /\ Aside(w) /\ worker'[w] = Free
  BY <1>1, <1>2, HandlerEnds DEF Settle, Crash
<1>3. ASSUME NEW w \in Worker, SaveEmail(w) \/ \E id \in JobId : Take(w, id)
      PROVE  ledger' = ledger /\ handed' = handed
  BY <1>3 DEF SaveEmail, Take
<1>4. ASSUME NEW id \in JobId, Evict(id) \/ Recover(id) \/ LoseLock(id)
      PROVE  ledger' = ledger /\ handed' = handed /\ worker' = worker
  BY <1>4 DEF Evict, Recover, LoseLock
<1>5. ASSUME NEW e \in Event, Deliver(e)
      PROVE  ledger' = ledger /\ handed' = handed /\ worker' = worker
  BY <1>5 DEF Deliver
<1>6. Environment \/ UNCHANGED vars => ledger' = ledger /\ handed' = handed /\ worker' = worker
  BY DEF Environment, ChangeAccount, SetOrgActive, CaptureLapses, ChangeSubscription,
     ChangeRule, vars
<1>7. ASSUME NEW w \in Worker, Progress(w) \/ ExecutionFault(w) \/ Throw(w)
      PROVE  \/ RecordProcessed(w) \/ HandOff(w) \/ MarkProcessed(w)
             \/ Quiet(w) \/ SaveEmail(w) \/ Settle(w)
  BY <1>7 DEF Quiet
<1>8. QED
  BY <1>2, <1>3, <1>4, <1>5, <1>6, <1>7, QuietFrame DEF Next

(* What is settled about an event stays settled.                           *)
LEMMA LawfulKept ==
    ASSUME NEW w \in Worker, Lawful(w), worker'[w].at = worker[w].at,
           worker'[w].job = worker[w].job, worker'[w].rule = worker[w].rule,
           ledger' = ledger, handed' = handed
    PROVE  Lawful(w)'
  BY DEF Lawful, Handing, EventOf

LEMMA LawfulOnward ==
    ASSUME PipelineTypes, Claims, NEW w \in Worker, Quiet(w),
           ledger' = ledger, handed' = handed
    PROVE  /\ Lawful(w)' /\ EventOf(w)' = EventOf(w)
           /\ Handing(w)' => Handing(w)
           /\ Aside(w)
<1>1. PICK step \in Step :
        /\ Onward(w, step)
        /\ worker[w].at \in {"record", "handoff", "mark", "email"} => step \in {"release", "rethrow"}
  BY QuietMoves
<1>2. Lawful(w) /\ InHand(worker[w]) /\ Moves(w, step)
  BY <1>1 DEF Claims, PipelineTypes, HandsFit, Onward
<1>3. worker'[w].at = step /\ worker'[w].job = worker[w].job /\ EventOf(w)' = EventOf(w) /\ Aside(w)
  BY <1>2 DEF Moves, EventOf
<1>4. step \in {"contact", "handoff"} =>
        worker[w].at = "contact" /\ worker'[w].rule = worker[w].rule
  BY <1>1 DEF Onward, Follows
<1>5. step \in Answering =>
        worker[w].at \in Answering /\ (step = "email" => Kind[EventOf(w)].email)
  BY <1>1 DEF Onward, Follows, Answering
<1>6. step # "unsubscribe"
  BY <1>1 DEF Onward, Follows
<1>7. step = "finish" /\ worker[w].job.queue = "webhook" =>
        \/ worker[w].at \in Answering \cup {"unsubscribe"}
        \/ worker[w].at = "dedup" /\ ledger[EventOf(w)].outcome # "none"
  <2>1. SUFFICES ASSUME step = "finish", worker[w].job.queue = "webhook"
                 PROVE  \/ worker[w].at \in Answering \cup {"unsubscribe"}
                        \/ worker[w].at = "dedup" /\ ledger[EventOf(w)].outcome # "none"
    OBVIOUS
  <2>2. worker[w].at \in WebhookStep \ {"record", "handoff"}
    <3>1. worker[w].at \in Step /\ worker[w].at \notin Settling \cup {"idle"}
      BY <1>1 DEF PipelineTypes, HandsFit, WorkerState, Onward
    <3>2. worker[w].at \notin ExecutionStep /\ worker[w].at \notin ReplyStep
      BY <1>2, <2>1 DEF InHand
    <3>3. worker[w].at \notin {"record", "handoff"}
      BY <1>1, <2>1
    <3>4. QED
      BY <3>1, <3>2, <3>3 DEF Step
  <2>3. "finish" \in Follows(worker[w].at)
        /\ (worker[w].at = "dedup" => ledger[EventOf(w)].outcome # "none")
    BY <1>1, <2>1 DEF Onward
  <2>4. QED
    BY <2>2, <2>3 DEF Follows, WebhookStep, Answering
<1>8. QED
  BY <1>2, <1>3, <1>4, <1>5, <1>6, <1>7 DEF Lawful, Handing, Answering

LEMMA JobsFollowKept ==
    ASSUME PipelineTypes, Claims, [Next]_vars, handed' = handed,
           ~ \E w \in Worker : HandOff(w)
    PROVE  JobsFollow'
<1>1. ASSUME NEW e \in Event, NEW r \in Rule, job'[ExecutionJob(e, r)].state # "absent"
      PROVE  handed'[e] = <<r>>
  <2>1. job[ExecutionJob(e, r)].state # "absent"
    BY <1>1, JobsLeft
  <2>2. QED
    BY <2>1 DEF Claims, JobsFollow
<1>2. QED
  BY <1>1 DEF JobsFollow, ExecutionJob

(* The three steps that change the books.                                  *)
LEMMA RecordClaims ==
    ASSUME PipelineTypes, Claims, NEW w \in Worker, RecordProcessed(w)
    PROVE  /\ \A v \in Worker : Lawful(v)'
           /\ \A e \in Event : HandedFits(e)'
           /\ HandedByOne'
<1>1. PICK e : e = EventOf(w)
  OBVIOUS
<1>2. /\ e \in Event /\ worker[w].at = "record" /\ worker[w].job.queue = "webhook"
      /\ worker[w].note \in {"no_account", "org_suspended", "needs_reconnect", "self_comment",
                             "opted_out", "lead_capture", "no_match", "matched"}
      /\ worker[w].note = "matched" => worker[w].rule \in Rule
  BY <1>1, InHandJob DEF RecordProcessed, Awaits, PipelineTypes, HandsFit, EventOf, InHand,
     WebhookStep
<1>3. /\ handed' = handed /\ ledger \in [Event -> LedgerRow] /\ worker \in [Worker -> WorkerState]
      /\ \A d \in Event : HandedFits(d)
      /\ Lawful(w)
  BY DEF RecordProcessed, PipelineTypes, RowsTyped, HandsFit, Claims, outVars
<1>4. PICK step \in {"unsubscribe", "copy", "contact", "finish"} :
        /\ Goto(w, step)
        /\ step = IF ledger[e].outcome = "none" THEN AfterRecord(worker[w].note) ELSE "finish"
  BY <1>1 DEF RecordProcessed, AfterRecord
<1>5. Moves(w, step) /\ Recalls(w) /\ EventOf(w)' = e
  BY <1>1, <1>3, <1>4, GotoMoves DEF Step, WebhookStep, Settling, Moves, EventOf
<1>6. CASE ledger[e].outcome # "none"
  <2>1. ledger' = ledger /\ step = "finish"
    BY <1>1, <1>4, <1>6 DEF RecordProcessed
  <2>2. Lawful(w)'
    BY <1>1, <1>2, <1>3, <1>5, <1>6, <2>1 DEF Lawful, Moves, Handing, Answering
  <2>3. ASSUME NEW v \in Worker, v # w PROVE Lawful(v)'
    BY <1>3, <1>5, <2>1, <2>3, LawfulKept DEF Claims, Moves, Aside
  <2>4. HandedByOne'
    BY <1>5, <2>1 DEF HandedByOne, Handing, EventOf, Moves, Aside, Claims
  <2>5. QED
    BY <1>3, <2>1, <2>2, <2>3, <2>4 DEF HandedFits
<1>7. CASE ledger[e].outcome = "none"
  <2>1. handed[e] = <<>>
    BY <1>2, <1>3, <1>7 DEF HandedFits
  <2>2. PICK row : row = [outcome |-> worker[w].note, rule |-> worker[w].rule, sent |-> FALSE]
    OBVIOUS
  <2>3. /\ ledger' = [ledger EXCEPT ![e] = row]
        /\ ledger'[e].outcome = worker[w].note /\ ledger'[e].rule = worker[w].rule
        /\ \A d \in Event \ {e} : ledger'[d] = ledger[d]
    BY <1>1, <1>2, <1>3, <1>7, <2>2 DEF RecordProcessed
  <2>4. step = AfterRecord(worker[w].note)
    BY <1>4, <1>7
  <2>5. Lawful(w)'
    <3>1. /\ step = "contact" => worker[w].note = "matched"
          /\ step = "copy" => worker[w].note = "lead_capture"
          /\ step = "unsubscribe" => worker[w].note = "opted_out"
      BY <2>4 DEF AfterRecord
    <3>2. QED
      BY <1>2, <1>3, <1>5, <2>1, <2>3, <3>1 DEF Lawful, Moves, Recalls, Handing, Answering
  <2>6. ASSUME NEW v \in Worker, v # w
        PROVE  Lawful(v)' /\ (EventOf(v) = e => ~ Handing(v))
    <3>1. Lawful(v) /\ worker'[v] = worker[v] /\ InHand(worker[v]) /\ EventOf(v)' = EventOf(v)
      BY <1>5, <2>6 DEF Claims, Moves, Aside, PipelineTypes, HandsFit, EventOf
    <3>2. CASE EventOf(v) = e
      BY <1>2, <1>3, <1>7, <2>3, <3>1, <3>2 DEF Lawful, Handing, Answering
    <3>3. CASE EventOf(v) # e
      <4>1. CASE worker[v].at = "idle"
        BY <1>3, <3>1, <3>3, <4>1 DEF Lawful, Handing, Answering, InHand, Free, NoJob
      <4>2. CASE worker[v].at # "idle"
        <5>1. EventOf(v) \in Event \ {e}
          BY <3>1, <3>3, <4>2, InHandJob DEF EventOf
        <5>2. QED
          BY <1>3, <2>3, <3>1, <3>3, <5>1 DEF Lawful, Handing
      <4>3. QED
        BY <4>1, <4>2
    <3>4. QED
      BY <3>2, <3>3
  <2>7. HandedByOne'
    <3>1. \A v \in Worker \ {w} : worker'[v] = worker[v] /\ EventOf(v)' = EventOf(v)
      BY <1>5 DEF Moves, Aside, EventOf
    <3>2. QED
      BY <1>5, <2>6, <3>1 DEF HandedByOne, Handing, Claims
  <2>8. ASSUME NEW d \in Event PROVE HandedFits(d)'
    <3>1. CASE d = e
      BY <1>3, <2>1, <3>1 DEF HandedFits
    <3>2. CASE d # e
      BY <1>3, <2>3, <3>2 DEF HandedFits
    <3>3. QED
      BY <3>1, <3>2
  <2>9. QED
    BY <2>5, <2>6, <2>7, <2>8
<1>8. QED
  BY <1>6, <1>7

LEMMA HandOffClaims ==
    ASSUME PipelineTypes, Claims, NEW w \in Worker, HandOff(w)
    PROVE  /\ Claims'
           /\ EventOf(w) \in Event
           /\ handed[EventOf(w)] = <<>> /\ ledger[EventOf(w)].outcome = "matched"
           /\ ledger[EventOf(w)].rule \in Rule
           /\ handed' = [handed EXCEPT ![EventOf(w)] = <<ledger[EventOf(w)].rule>>]
           /\ ledger' = ledger
<1>1. PICK e, r : e = EventOf(w) /\ r = worker[w].rule
  OBVIOUS
<1>2. /\ e \in Event /\ worker[w].at = "handoff" /\ worker[w].job.queue = "webhook"
      /\ r \in Rule /\ ExecutionJob(e, r) \in JobId
  BY <1>1, InHandJob, JobIds DEF HandOff, Awaits, PipelineTypes, HandsFit, EventOf, InHand,
     WebhookStep
<1>3. /\ ledger' = ledger
      /\ handed \in [Event -> Seq(Rule)] /\ worker \in [Worker -> WorkerState]
      /\ job \in [JobId -> OwnedJob]
      /\ \A d \in Event : HandedFits(d)
      /\ \A v \in Worker : Lawful(v) /\ InHand(worker[v])
      /\ Lawful(w)
      /\ JobsFollow /\ HandedByOne
  BY DEF HandOff, PipelineTypes, RowsTyped, HandsFit, Claims, rowVars
<1>4. ledger[e].outcome = "matched" /\ ledger[e].rule = r /\ handed[e] = <<>>
  BY <1>1, <1>2, <1>3 DEF Lawful, Handing
<1>16. \A q : handed[e] # <<q>>
  BY <1>4
<1>5. job[ExecutionJob(e, r)].state = "absent"
  <2>1. handed[e] # <<r>>
    BY <1>4
  <2>2. QED
    BY <1>2, <1>3, <2>1 DEF JobsFollow
<1>6. /\ job' = [job EXCEPT ![ExecutionJob(e, r)] = Bull!Added(@)]
      /\ Goto(w, "finish")
  BY <1>1 DEF HandOff
<1>7. handed' = [handed EXCEPT ![e] = <<r>>]
  <2>1. job'[ExecutionJob(e, r)].state = "waiting"
    BY <1>2, <1>3, <1>5, <1>6 DEF Bull!Added, OwnedJob, Bull!Job
  <2>2. handed' = [handed EXCEPT ![e] = Append(@, ExecutionJob(e, r).rule)]
    BY <1>1, <1>5, <2>1 DEF HandOff
  <2>3. ExecutionJob(e, r).rule = r
    BY DEF ExecutionJob
  <2>4. Append(handed[e], r) = <<r>>
    BY <1>4
  <2>5. QED
    BY <1>2, <1>3, <2>2, <2>3, <2>4
<1>8. handed'[e] = <<r>> /\ \A d \in Event \ {e} : handed'[d] = handed[d]
  BY <1>2, <1>3, <1>7
<1>9. Moves(w, "finish") /\ EventOf(w)' = e
  BY <1>1, <1>3, <1>6, GotoMoves DEF Step, Settling, Moves, EventOf
<1>10. ASSUME NEW v \in Worker PROVE Lawful(v)'
  <2>1. CASE v = w
    BY <1>2, <1>3, <1>4, <1>9, <2>1 DEF Lawful, Moves, Handing, Answering
  <2>2. CASE v # w
    <3>1. worker'[v] = worker[v] /\ EventOf(v)' = EventOf(v)
      BY <1>9, <2>2 DEF Moves, Aside, EventOf
    <3>2. CASE EventOf(v) = e
      <4>1. ~ Handing(v)
        BY <1>1, <1>2, <1>3, <2>2, <3>2 DEF HandedByOne, Handing
      <4>2. worker[v].job.queue # "execution"
        BY <1>3, <1>16, <3>2 DEF Lawful
      <4>3. QED
        BY <1>3, <3>1, <3>2, <4>1, <4>2 DEF Lawful, Handing
    <3>3. CASE EventOf(v) # e
      <4>1. CASE worker[v].at = "idle"
        BY <1>3, <3>1, <3>3, <4>1 DEF Lawful, Handing, Answering, InHand, Free, NoJob
      <4>2. CASE worker[v].at # "idle"
        <5>1. EventOf(v) \in Event \ {e}
          BY <1>3, <3>3, <4>2, InHandJob DEF EventOf
        <5>2. QED
          BY <1>3, <1>8, <3>1, <3>3, <5>1 DEF Lawful, Handing
      <4>3. QED
        BY <4>1, <4>2
    <3>4. QED
      BY <3>2, <3>3
  <2>3. QED
    BY <2>1, <2>2
<1>11. ASSUME NEW d \in Event PROVE HandedFits(d)'
  <2>1. CASE d = e
    BY <1>2, <1>3, <1>4, <1>8, <2>1 DEF HandedFits
  <2>2. CASE d # e
    BY <1>3, <1>8, <2>2 DEF HandedFits
  <2>3. QED
    BY <2>1, <2>2
<1>12. JobsFollow'
  <2>1. ASSUME NEW d \in Event, NEW q \in Rule, job'[ExecutionJob(d, q)].state # "absent"
        PROVE  handed'[d] = <<q>>
    <3>1. ExecutionJob(d, q) \in JobId
      BY JobIds
    <3>2. CASE d = e /\ q = r
      BY <1>8, <3>2
    <3>3. CASE ~ (d = e /\ q = r)
      <4>1. ExecutionJob(d, q) # ExecutionJob(e, r)
        BY <3>3 DEF ExecutionJob
      <4>2. job'[ExecutionJob(d, q)] = job[ExecutionJob(d, q)]
        BY <1>3, <1>6, <3>1, <4>1
      <4>3. handed[d] = <<q>>
        BY <1>3, <2>1, <4>2 DEF JobsFollow
      <4>4. d # e
        BY <1>16, <4>3
      <4>5. QED
        BY <1>8, <4>3, <4>4
    <3>4. QED
      BY <3>2, <3>3
  <2>2. QED
    BY <2>1 DEF JobsFollow, ExecutionJob
<1>13. HandedByOne'
  BY <1>3, <1>9 DEF HandedByOne, Handing, EventOf, Moves, Aside
<1>14. QED
  BY <1>1, <1>2, <1>3, <1>4, <1>7, <1>10, <1>11, <1>12, <1>13 DEF Claims

LEMMA MarkClaims ==
    ASSUME PipelineTypes, Claims, NEW w \in Worker, MarkProcessed(w)
    PROVE  /\ \A v \in Worker : Lawful(v)'
           /\ \A e \in Event : HandedFits(e)'
           /\ HandedByOne'
           /\ EventOf(w) \in Event /\ handed[EventOf(w)] # <<>> /\ handed' = handed
           /\ ledger'[EventOf(w)].outcome = worker[w].note
           /\ ledger'[EventOf(w)].rule = ledger[EventOf(w)].rule
           /\ \A d \in Event \ {EventOf(w)} : ledger'[d] = ledger[d]
<1>1. PICK e : e = EventOf(w)
  OBVIOUS
<1>2. /\ e \in Event /\ worker[w].at = "mark" /\ worker[w].job.queue = "execution"
      /\ worker[w].note \in {"needs_reconnect", "unsubscribed", "rate_limited",
                             "plan_limit_reached", "dm_sent", "failed"}
  BY <1>1, InHandJob DEF MarkProcessed, Awaits, PipelineTypes, HandsFit, EventOf, InHand,
     ExecutionStep, ReplyStep
<1>3. /\ handed' = handed /\ ledger \in [Event -> LedgerRow] /\ worker \in [Worker -> WorkerState]
      /\ \A d \in Event : HandedFits(d)
      /\ \A v \in Worker : Lawful(v)
      /\ HandedByOne
  BY DEF MarkProcessed, PipelineTypes, RowsTyped, HandsFit, Claims, outVars
<1>4. handed[e] # <<>>
  <2>1. handed[e] = <<worker[w].job.rule>>
    BY <1>1, <1>2, <1>3 DEF Lawful
  <2>2. QED
    BY <2>1
<1>5. /\ ledger'[e].outcome = worker[w].note
      /\ ledger'[e].rule = ledger[e].rule
      /\ \A d \in Event \ {e} : ledger'[d] = ledger[d]
  BY <1>1, <1>2, <1>3 DEF MarkProcessed, LedgerRow
<1>6. PICK step \in {"findNotice", "throttled", "rethrow", "finish"} : Goto(w, step)
  BY DEF MarkProcessed, AfterMark
<1>7. Moves(w, step) /\ EventOf(w)' = e
  BY <1>1, <1>3, <1>6, GotoMoves DEF Step, ExecutionStep, Settling, Moves, EventOf
<1>8. ASSUME NEW v \in Worker
      PROVE  /\ Lawful(v)'
             /\ Handing(v)' => Handing(v)
             /\ EventOf(v)' = EventOf(v)
  <2>1. CASE v = w
    BY <1>1, <1>2, <1>3, <1>7, <2>1 DEF Lawful, Moves, Handing, Answering
  <2>2. CASE v # w
    <3>1. worker'[v] = worker[v] /\ EventOf(v)' = EventOf(v) /\ Lawful(v)
      BY <1>3, <1>7, <2>2 DEF Moves, Aside, EventOf
    <3>2. CASE EventOf(v) = e
      BY <1>2, <1>3, <1>4, <1>5, <3>1, <3>2 DEF Lawful, Handing, HandedFits
    <3>3. CASE EventOf(v) # e
      <4>1. InHand(worker[v])
        BY DEF PipelineTypes, HandsFit
      <4>2. CASE worker[v].at = "idle"
        BY <1>3, <3>1, <3>3, <4>1, <4>2 DEF Lawful, Handing, Answering, InHand, Free, NoJob
      <4>3. CASE worker[v].at # "idle"
        <5>1. EventOf(v) \in Event \ {e}
          BY <3>3, <4>1, <4>3, InHandJob DEF EventOf
        <5>2. QED
          BY <1>3, <1>5, <3>1, <3>3, <5>1 DEF Lawful, Handing
      <4>4. QED
        BY <4>2, <4>3
    <3>4. QED
      BY <3>1, <3>2, <3>3 DEF Handing
  <2>3. QED
    BY <2>1, <2>2
<1>9. HandedByOne'
  BY <1>3, <1>8 DEF HandedByOne
<1>10. ASSUME NEW d \in Event PROVE HandedFits(d)'
  BY <1>2, <1>3, <1>5 DEF HandedFits
<1>11. QED
  BY <1>1, <1>2, <1>3, <1>4, <1>5, <1>8, <1>9, <1>10

LEMMA ClaimsStep == PipelineTypes /\ Claims /\ [Next]_vars => Claims'
<1> SUFFICES ASSUME PipelineTypes, Claims, [Next]_vars PROVE Claims'
  OBVIOUS
<1>1. CASE \E w \in Worker : HandOff(w)
  BY <1>1, HandOffClaims
<1>2. CASE ~ (\E w \in Worker : HandOff(w)) /\ \E w \in Worker : RecordProcessed(w)
  <2>1. handed' = handed
    BY <1>2 DEF RecordProcessed, outVars
  <2>2. QED
    BY <1>2, <2>1, RecordClaims, JobsFollowKept DEF Claims
<1>3. CASE ~ (\E w \in Worker : HandOff(w)) /\ \E w \in Worker : MarkProcessed(w)
  <2>1. handed' = handed
    BY <1>3 DEF MarkProcessed, outVars
  <2>2. QED
    BY <1>3, <2>1, MarkClaims, JobsFollowKept DEF Claims
<1>4. ASSUME ~ (\E w \in Worker : HandOff(w)), ledger' = ledger, handed' = handed,
             \/ worker' = worker
             \/ \E w \in Worker : \/ Quiet(w) \/ SaveEmail(w)
                                  \/ Aside(w) /\ worker'[w] = Free
                                  \/ \E id \in JobId : Take(w, id)
      PROVE  Claims'
  <2>1. JobsFollow'
    BY <1>4, JobsFollowKept
  <2>2. \A e \in Event : HandedFits(e)'
    BY <1>4 DEF Claims, HandedFits
  <2>3. worker \in [Worker -> WorkerState]
    BY DEF PipelineTypes, HandsFit
  <2>4. ASSUME NEW v \in Worker
        PROVE  Lawful(v)' /\ (Handing(v)' => Handing(v) /\ EventOf(v)' = EventOf(v))
    <3>1. CASE worker'[v] = worker[v]
      BY <1>4, <3>1, LawfulKept DEF Claims, Handing, EventOf
    <3>2. CASE Quiet(v)
      BY <1>4, <3>2, LawfulOnward
    <3>3. CASE worker'[v] = Free
      BY <3>3 DEF Lawful, Handing, Answering, Free, NoJob
    <3>4. ASSUME NEW id \in JobId, Take(v, id)
          PROVE  Lawful(v)' /\ (Handing(v)' => Handing(v) /\ EventOf(v)' = EventOf(v))
      <4>1. worker'[v].job = id /\ worker'[v].at \in {"dedup", "load", "account"}
        BY <2>3, <3>4, HandlerStarts
      <4>2. id.queue = "execution" => handed'[id.event] = <<id.rule>>
        <5>1. job[id].state # "absent"
          BY <3>4 DEF Take
        <5>2. QED
          BY <1>4, <5>1, JobIds DEF Claims, JobsFollow
      <4>3. QED
        BY <4>1, <4>2 DEF Lawful, Handing, Answering, EventOf
    <3>5. ASSUME NEW w \in Worker, SaveEmail(w)
          PROVE  Lawful(v)' /\ (Handing(v)' => Handing(v) /\ EventOf(v)' = EventOf(v))
      <4>1. /\ worker'[v].at = IF v = w THEN "close" ELSE worker[v].at
            /\ worker'[v].job = worker[v].job /\ worker'[v].rule = worker[v].rule
        BY <2>3, <3>5, EmailSaved
      <4>2. Lawful(v) /\ (v = w => worker[v].at = "email")
        BY <3>5 DEF Claims, SaveEmail, Awaits
      <4>3. QED
        BY <1>4, <4>1, <4>2 DEF Lawful, Handing, Answering, EventOf
    <3>6. QED
      <4>1. CASE \E w \in Worker : SaveEmail(w)
        BY <3>5, <4>1
      <4>2. CASE ~ \E w \in Worker : SaveEmail(w)
        BY <1>4, <2>3, <3>1, <3>2, <3>3, <3>4, <4>2, LawfulOnward, HandlerStarts DEF Aside
      <4>3. QED
        BY <4>1, <4>2
  <2>5. HandedByOne'
    BY <2>4 DEF Claims, HandedByOne
  <2>6. QED
    BY <2>1, <2>2, <2>4, <2>5 DEF Claims
<1>5. QED
  BY <1>1, <1>2, <1>3, <1>4, ClaimSteps

LEMMA ClaimsInvariant == Spec => [](PipelineTypes /\ Claims)
<1>1. Init => Claims
  BY InitClaims
<1>2. PipelineTypes /\ Claims /\ [Next]_vars => Claims'
  BY ClaimsStep
<1>3. QED
  BY <1>1, <1>2, TypesInvariant, PTL DEF Spec

------------------------------------------------------------------------------
(* The pipeline implements the claim                                       *)

Decided == {e \in Event : ledger[e].outcome # "none"}
OwnerOf == [e \in Event |-> IF ledger[e].outcome = "lead_capture" THEN NoRule ELSE ledger[e].rule]

LEMMA ClaimStep ==
    ASSUME PipelineTypes, Claims, [Next]_vars
    PROVE  [Claim!ClaimNext]_(Claim!claimVars)
<1> USE DEF Claim!claimVars
<1>1. ledger \in [Event -> LedgerRow] /\ handed \in [Event -> Seq(Rule)]
      /\ \A e \in Event : HandedFits(e)
  BY DEF PipelineTypes, RowsTyped, Claims
<1>2. ASSUME NEW w \in Worker, RecordProcessed(w) PROVE [Claim!ClaimNext]_(Claim!claimVars)
  <2>1. PICK e : e = EventOf(w)
    OBVIOUS
  <2>2. /\ e \in Event /\ worker[w].note # "none" /\ worker[w].rule \in Rule \cup {NoRule}
        /\ handed' = handed
    BY <1>2, <2>1, InHandJob DEF RecordProcessed, Awaits, PipelineTypes, HandsFit, EventOf,
       InHand, WorkerState, outVars
  <2>3. CASE ledger[e].outcome # "none"
    <3>1. ledger' = ledger
      BY <1>2, <2>1, <2>3 DEF RecordProcessed
    <3>2. QED
      BY <2>2, <3>1
  <2>4. CASE ledger[e].outcome = "none"
    <3>1. PICK row : row = [outcome |-> worker[w].note, rule |-> worker[w].rule, sent |-> FALSE]
      OBVIOUS
    <3>2. ledger' = [ledger EXCEPT ![e] = row]
      BY <1>2, <2>1, <2>4, <3>1 DEF RecordProcessed
    <3>3. PICK r \in Rule \cup {NoRule} :
            r = IF worker[w].note = "lead_capture" THEN NoRule ELSE worker[w].rule
      BY <2>2
    <3>4. OwnerOf' = [OwnerOf EXCEPT ![e] = r]
      BY <1>1, <2>2, <3>1, <3>2, <3>3 DEF OwnerOf
    <3>5. e \notin Decided /\ Decided' = Decided \cup {e}
      BY <1>1, <2>2, <2>4, <3>1, <3>2 DEF Decided
    <3>6. Claim!Decide(e)
      BY <2>2, <3>4, <3>5 DEF Claim!Decide, Decided, OwnerOf
    <3>7. QED
      BY <2>2, <3>6 DEF Claim!ClaimNext
  <2>5. QED
    BY <2>3, <2>4
<1>3. ASSUME NEW w \in Worker, HandOff(w) PROVE [Claim!ClaimNext]_(Claim!claimVars)
  <2>1. PICK e : e = EventOf(w)
    OBVIOUS
  <2>2. /\ e \in Event /\ handed[e] = <<>> /\ ledger[e].outcome = "matched"
        /\ ledger[e].rule \in Rule
        /\ handed' = [handed EXCEPT ![e] = <<ledger[e].rule>>]
        /\ ledger' = ledger
    BY <1>3, <2>1, HandOffClaims
  <2>3. e \in Decided /\ OwnerOf[e] = ledger[e].rule /\ OwnerOf[e] # NoRule
    BY <2>2, PipelineAssumption DEF Decided, OwnerOf
  <2>4. Decided' = Decided /\ OwnerOf' = OwnerOf
    BY <2>2 DEF Decided, OwnerOf
  <2>5. Claim!HandOver(e)
    BY <2>2, <2>3, <2>4 DEF Claim!HandOver, Decided, OwnerOf
  <2>6. QED
    BY <2>2, <2>5 DEF Claim!ClaimNext
<1>4. ASSUME NEW w \in Worker, MarkProcessed(w) PROVE [Claim!ClaimNext]_(Claim!claimVars)
  <2>1. PICK e : e = EventOf(w)
    OBVIOUS
  <2>2. /\ e \in Event /\ handed[e] # <<>> /\ handed' = handed
        /\ ledger'[e].outcome = worker[w].note
        /\ ledger'[e].rule = ledger[e].rule
        /\ \A d \in Event \ {e} : ledger'[d] = ledger[d]
        /\ worker[w].note \notin {"none", "lead_capture"}
        /\ ledger[e].outcome \notin {"none", "lead_capture"}
    BY <1>1, <1>4, <2>1, MarkClaims
       DEF MarkProcessed, Awaits, PipelineTypes, HandsFit, InHand, HandedFits
  <2>3. \A d \in Event : /\ ledger'[d].outcome = "none" <=> ledger[d].outcome = "none"
                         /\ ledger'[d].outcome = "lead_capture" <=> ledger[d].outcome = "lead_capture"
                         /\ ledger'[d].rule = ledger[d].rule
    BY <2>2
  <2>4. Decided' = Decided /\ OwnerOf' = OwnerOf
    BY <2>3 DEF Decided, OwnerOf
  <2>5. QED
    BY <2>2, <2>4 DEF Decided, OwnerOf
<1>5. ASSUME ledger' = ledger, handed' = handed PROVE [Claim!ClaimNext]_(Claim!claimVars)
  BY <1>5
<1>6. QED
  BY <1>2, <1>3, <1>4, <1>5, ClaimSteps

(* However often Meta delivers an event, and however deliveries, retries,  *)
(* crashes and evicted jobs interleave, one delivery decides what becomes  *)
(* of it, once, and one execution job at most is created, for the rule it  *)
(* was matched to: the pipeline implements EventClaim.                     *)
THEOREM EventsClaimedOnceTheorem == Spec => EventsClaimedOnce
<1>1. Init => Claim!ClaimInit
  BY PipelineAssumption DEF Init, StateInit, Claim!ClaimInit, NoRow
<1>2. PipelineTypes /\ Claims /\ [Next]_vars => [Claim!ClaimNext]_(Claim!claimVars)
  BY ClaimStep
<1>3. QED
  BY <1>1, <1>2, ClaimsInvariant, PTL DEF Spec, EventsClaimedOnce, Claim!ClaimSpec

------------------------------------------------------------------------------
(* The ledger and what was delivered                                       *)

(* What a step does to the history.                                        *)
LEMMA HistorySteps ==
    ASSUME PipelineTypes, [Next]_vars
    PROVE  /\ faults \in Nat /\ faults' \in Nat /\ faults' >= faults
           /\ \/ delivered' = delivered
              \/ \E w \in Worker : SendDm(w) \/ SendDmFails(w)
           /\ \/ UNCHANGED <<faults, edits>>
              \/ Fault \/ Edit
<1> USE DEF outVars, budgetVars
<1>1. \/ UNCHANGED <<faults, edits>>
      \/ Fault \/ Edit
  <2>1. ASSUME NEW w \in Worker, Progress(w) PROVE UNCHANGED <<faults, edits>>
    BY <2>1 DEF Progress, WebhookProcessingStep, ExecutionProgress, Dedup, Resolve,
       FindActiveCapture, MatchRules, RecordProcessed, Unsubscribe, UpsertContact, HandOff,
       ReadReplyCopy, SaveEmail, CompleteCapture, CountAttempt, EnqueueReply, LoadRule,
       CheckConsent, CheckContactCap, GetDmQuota, IncrementDmUsage, DecrementDmUsage, SendDm,
       OpenLeadCapture, MarkProcessed, FlagAccount, FindNotice, CreateNotice, LoadAccount,
       GetReplyPeriod, SendReply, ChargeReply, Settle
  <2>2. ASSUME NEW w \in Worker, ExecutionFault(w) \/ Throw(w) \/ Crash(w) PROVE Fault
    BY <2>2 DEF ExecutionFault, SendDmFails, SendReplyFails, Throw, Crash
  <2>3. ASSUME NEW w \in Worker, NEW id \in JobId, Take(w, id) PROVE UNCHANGED <<faults, edits>>
    BY <2>3 DEF Take
  <2>4. ASSUME NEW id \in JobId, Evict(id) \/ Recover(id) \/ LoseLock(id)
        PROVE  UNCHANGED <<faults, edits>> \/ Fault
    BY <2>4 DEF Evict, Recover, LoseLock
  <2>5. ASSUME NEW e \in Event, Deliver(e) PROVE UNCHANGED <<faults, edits>>
    BY <2>5 DEF Deliver
  <2>6. Environment => Edit
    BY DEF Environment, ChangeAccount, SetOrgActive, CaptureLapses, ChangeSubscription, ChangeRule
  <2>7. UNCHANGED vars => UNCHANGED <<faults, edits>>
    BY DEF vars
  <2>8. QED
    BY <2>1, <2>2, <2>3, <2>4, <2>5, <2>6, <2>7 DEF Next
<1>2. faults \in Nat
  BY PipelineAssumption DEF PipelineTypes, RowsTyped
<1>3. faults' \in Nat /\ faults' >= faults
  BY <1>1, <1>2 DEF Fault, Edit
<1>4. delivered' = delivered \/ \E w \in Worker : SendDm(w) \/ SendDmFails(w)
  <2>1. ASSUME NEW w \in Worker, Progress(w), ~ SendDm(w) PROVE delivered' = delivered
    BY <2>1 DEF Progress, WebhookProcessingStep, ExecutionProgress, Dedup, Resolve,
       FindActiveCapture, MatchRules, RecordProcessed, Unsubscribe, UpsertContact, HandOff,
       ReadReplyCopy, SaveEmail, CompleteCapture, CountAttempt, EnqueueReply, LoadRule,
       CheckConsent, CheckContactCap, GetDmQuota, IncrementDmUsage, DecrementDmUsage,
       OpenLeadCapture, MarkProcessed, FlagAccount, FindNotice, CreateNotice, LoadAccount,
       GetReplyPeriod, SendReply, ChargeReply, Settle
  <2>2. ASSUME NEW w \in Worker, ExecutionFault(w) \/ Throw(w) \/ Crash(w), ~ SendDmFails(w)
        PROVE  delivered' = delivered
    BY <2>2 DEF ExecutionFault, SendReplyFails, Throw, Crash
  <2>3. ASSUME NEW w \in Worker, NEW id \in JobId, Take(w, id) PROVE delivered' = delivered
    BY <2>3 DEF Take
  <2>4. ASSUME NEW id \in JobId, Evict(id) \/ Recover(id) \/ LoseLock(id)
        PROVE  delivered' = delivered
    BY <2>4 DEF Evict, Recover, LoseLock
  <2>5. ASSUME NEW e \in Event, Deliver(e) PROVE delivered' = delivered
    BY <2>5 DEF Deliver
  <2>6. Environment \/ UNCHANGED vars => delivered' = delivered
    BY DEF Environment, ChangeAccount, SetOrgActive, CaptureLapses, ChangeSubscription,
       ChangeRule, vars
  <2>7. QED
    BY <2>1, <2>2, <2>3, <2>4, <2>5, <2>6 DEF Next
<1>5. QED
  BY <1>1, <1>2, <1>3, <1>4

(* A handler that has a DM to book keeps it until it is in the ledger, or  *)
(* a fault takes it away.                                                  *)
LEMMA BookingKept ==
    ASSUME PipelineTypes, [Next]_vars, NEW w \in Worker, Booking(worker[w])
    PROVE  \/ Booking(worker'[w]) /\ EventOf(w)' = EventOf(w)
           \/ MarkProcessed(w) /\ worker[w].note = "dm_sent"
           \/ faults' > 0
<1> SUFFICES ASSUME faults' = 0
             PROVE  \/ Booking(worker'[w]) /\ EventOf(w)' = EventOf(w)
                    \/ MarkProcessed(w) /\ worker[w].note = "dm_sent"
  BY HistorySteps
<1>1. /\ worker \in [Worker -> WorkerState] /\ InHand(worker[w])
      /\ worker[w].at \in {"open", "mark"} /\ worker[w].note = "dm_sent"
  BY DEF PipelineTypes, HandsFit, Booking, InHand
<1>2. ~ Fault
  BY HistorySteps DEF Fault
<1>3. CASE worker'[w] = worker[w]
  BY <1>3 DEF EventOf
<1>4. ASSUME NEW v \in Worker, SaveEmail(v)
      PROVE  Booking(worker'[w]) /\ EventOf(w)' = EventOf(w)
  <2>1. v # w
    BY <1>1, <1>4 DEF SaveEmail, Awaits
  <2>2. QED
    BY <1>1, <1>4, <2>1, EmailSaved DEF Booking, EventOf
<1>5. CASE Quiet(w)
  <2>1. ~ Throw(w)
    BY <1>2 DEF Throw
  <2>2. worker[w].at = "open"
    BY <1>1, <1>5, <2>1, QuietFrame
  <2>3. PICK step \in Step : Onward(w, step)
    BY <1>5, QuietMoves
  <2>4. step = "mark"
    BY <1>2, <2>2, <2>3 DEF Onward, Follows
  <2>5. QED
    BY <2>2, <2>3, <2>4 DEF Onward, Moves, Booking, EventOf
<1>6. CASE MarkProcessed(w)
  BY <1>1, <1>6
<1>7. QED
  <2>1. ASSUME NEW v \in Worker, v # w,
               RecordProcessed(v) \/ HandOff(v) \/ MarkProcessed(v) \/ Quiet(v)
        PROVE  worker'[w] = worker[w]
    <3>1. RecordProcessed(v) \/ HandOff(v) \/ MarkProcessed(v) => worker'[w] = worker[w]
      BY <1>1, <2>1 DEF RecordProcessed, HandOff, MarkProcessed, Goto
    <3>2. Quiet(v) => worker'[w] = worker[w]
      BY <2>1, QuietMoves DEF Onward, Moves, Aside
    <3>3. QED
      BY <2>1, <3>1, <3>2
  <2>2. ~ RecordProcessed(w) /\ ~ HandOff(w)
    BY <1>1 DEF RecordProcessed, HandOff, Awaits
  <2>3. ASSUME NEW v \in Worker, Settle(v) \/ \E id \in JobId : Take(v, id)
        PROVE  worker'[w] = worker[w]
    <3>1. v # w
      BY <1>1, <2>3 DEF Settle, Settling, Take, Awaits
    <3>2. QED
      BY <1>1, <2>3, <3>1, HandlerEnds, HandlerStarts DEF Aside
  <2>4. \A v \in Worker : ~ Crash(v) /\ ~ Throw(v) /\ ~ ExecutionFault(v)
    BY <1>2 DEF Crash, Throw, ExecutionFault, SendDmFails, SendReplyFails
  <2>5. ASSUME NEW id \in JobId, Evict(id) \/ Recover(id) \/ LoseLock(id)
        PROVE  worker' = worker
    BY <2>5 DEF Evict, Recover, LoseLock
  <2>6. ASSUME NEW e \in Event, Deliver(e) PROVE worker' = worker
    BY <2>6 DEF Deliver
  <2>7. Environment \/ UNCHANGED vars => worker' = worker
    BY DEF Environment, ChangeAccount, SetOrgActive, CaptureLapses, ChangeSubscription,
       ChangeRule, vars
  <2>8. ASSUME NEW v \in Worker, Progress(v)
        PROVE  \/ RecordProcessed(v) \/ HandOff(v) \/ MarkProcessed(v)
               \/ Quiet(v) \/ SaveEmail(v) \/ Settle(v)
    BY <2>8 DEF Quiet
  <2>9. QED
    BY <1>3, <1>4, <1>5, <1>6, <2>1, <2>2, <2>3, <2>4, <2>5, <2>6, <2>7, <2>8 DEF Next

(* How an event's ledger row may change.                                   *)
LEMMA LedgerSteps ==
    ASSUME PipelineTypes, [Next]_vars, NEW e \in Event
    PROVE  \/ ledger'[e] = ledger[e]
           \/ /\ ledger[e].outcome = "none" /\ ~ ledger'[e].sent
              /\ ledger'[e].outcome \in {"no_account", "org_suspended", "needs_reconnect",
                   "self_comment", "opted_out", "lead_capture", "no_match", "matched"}
              /\ \E w \in Worker : RecordProcessed(w) /\ EventOf(w) = e
           \/ \E w \in Worker :
                /\ MarkProcessed(w) /\ EventOf(w) = e
                /\ ledger'[e].outcome = worker[w].note
                /\ worker[w].note \in {"needs_reconnect", "unsubscribed", "rate_limited",
                                       "plan_limit_reached", "dm_sent", "failed"}
                /\ ledger'[e].sent = (ledger[e].sent \/ worker[w].note = "dm_sent")
<1>1. ledger \in [Event -> LedgerRow] /\ ledger[e] \in LedgerRow
  BY DEF PipelineTypes, RowsTyped
<1>2. ASSUME NEW w \in Worker, HandOff(w) PROVE ledger'[e] = ledger[e]
  BY <1>2 DEF HandOff, rowVars
<1>3. ASSUME NEW w \in Worker, RecordProcessed(w), ledger'[e] # ledger[e]
      PROVE  /\ ledger[e].outcome = "none" /\ ~ ledger'[e].sent /\ EventOf(w) = e
             /\ ledger'[e].outcome = worker[w].note
  <2>1. PICK row : row = [outcome |-> worker[w].note, rule |-> worker[w].rule, sent |-> FALSE]
    OBVIOUS
  <2>2. ledger' = [ledger EXCEPT ![EventOf(w)] = row] /\ ledger[EventOf(w)].outcome = "none"
    BY <1>3, <2>1 DEF RecordProcessed
  <2>3. EventOf(w) = e
    BY <1>1, <1>3, <2>2
  <2>4. QED
    BY <1>1, <2>1, <2>2, <2>3
<1>4. ASSUME NEW w \in Worker, MarkProcessed(w), ledger'[e] # ledger[e]
      PROVE  /\ EventOf(w) = e /\ ledger'[e].outcome = worker[w].note
             /\ ledger'[e].sent = (ledger[e].sent \/ worker[w].note = "dm_sent")
  <2>1. EventOf(w) \in Event /\ EventOf(w) = e
    BY <1>1, <1>4, InHandJob DEF MarkProcessed, Awaits, PipelineTypes, HandsFit, EventOf
  <2>2. PICK now \in BOOLEAN : now = (ledger[e].sent \/ worker[w].note = "dm_sent")
    OBVIOUS
  <2>3. ledger' = [ledger EXCEPT ![e].outcome = worker[w].note, ![e].sent = now]
    BY <1>1, <1>4, <2>1, <2>2 DEF MarkProcessed, Sent, LedgerRow
  <2>4. ledger'[e] = [ledger[e] EXCEPT !.outcome = worker[w].note, !.sent = now]
    BY <1>1, <2>3
  <2>5. QED
    BY <1>1, <2>1, <2>2, <2>4 DEF LedgerRow
<1>5. ASSUME NEW w \in Worker, RecordProcessed(w)
      PROVE  worker[w].note \in {"no_account", "org_suspended", "needs_reconnect",
               "self_comment", "opted_out", "lead_capture", "no_match", "matched"}
  BY <1>5 DEF RecordProcessed, Awaits, PipelineTypes, HandsFit, InHand
<1>6. ASSUME NEW w \in Worker, MarkProcessed(w)
      PROVE  worker[w].note \in {"needs_reconnect", "unsubscribed", "rate_limited",
                                 "plan_limit_reached", "dm_sent", "failed"}
  BY <1>6 DEF MarkProcessed, Awaits, PipelineTypes, HandsFit, InHand
<1>7. CASE ledger'[e] # ledger[e]
  <2>1. PICK w \in Worker : RecordProcessed(w) \/ MarkProcessed(w)
    BY <1>2, <1>7, ClaimSteps
  <2>2. CASE RecordProcessed(w)
    BY <1>3, <1>5, <1>7, <2>2
  <2>3. CASE MarkProcessed(w)
    BY <1>4, <1>6, <1>7, <2>3
  <2>4. QED
    BY <2>1, <2>2, <2>3
<1>8. QED
  BY <1>7

(* Whose DM it is that was delivered.                                      *)
LEMMA DeliverySteps ==
    ASSUME PipelineTypes, Claims, [Next]_vars, NEW e \in Event
    PROVE  /\ delivered[e] \in Nat /\ delivered'[e] \in Nat /\ delivered'[e] >= delivered[e]
           /\ delivered'[e] # delivered[e] =>
                /\ handed[e] # <<>>
                /\ delivered'[e] = delivered[e] + 1
                /\ \E w \in Worker : (SendDm(w) \/ SendDmFails(w)) /\ EventOf(w) = e
<1>1. delivered \in [Event -> Nat]
  BY DEF PipelineTypes, RowsTyped
<1>2. ASSUME NEW w \in Worker, SendDm(w) \/ SendDmFails(w), EventOf(w) = e
      PROVE  handed[e] # <<>>
  <2>1. worker[w].job.queue = "execution" /\ Lawful(w)
    BY <1>2 DEF SendDm, SendDmFails, Awaits, PipelineTypes, HandsFit, InHand, ExecutionStep,
       ReplyStep, Claims
  <2>2. handed[e] = <<worker[w].job.rule>>
    BY <1>2, <2>1 DEF Lawful
  <2>3. QED
    BY <2>2
<1>3. ASSUME NEW w \in Worker, SendDm(w) \/ SendDmFails(w)
      PROVE  /\ EventOf(w) # e => delivered'[e] = delivered[e]
             /\ delivered'[e] \in {delivered[e], delivered[e] + 1}
  BY <1>1, <1>3 DEF SendDm, SendDmFails
<1>4. QED
  BY <1>1, <1>2, <1>3, HistorySteps

LEMMA BookingBegins ==
    ASSUME PipelineTypes, [Next]_vars, NEW w \in Worker, Booking(worker'[w]),
           ~ Booking(worker[w])
    PROVE  SendDm(w) /\ EventOf(w)' = EventOf(w)
<1>1. worker \in [Worker -> WorkerState]
  BY DEF PipelineTypes, HandsFit
<1>2. ASSUME NEW v \in Worker, SaveEmail(v) PROVE FALSE
  BY <1>1, <1>2, EmailSaved DEF Booking
<1>3. worker'[w] # worker[w] /\ worker'[w] # Free /\ \A id \in JobId : ~ Take(w, id)
  BY <1>1, HandlerStarts DEF Booking, Free
<1>4. PICK step \in Step : Onward(w, step)
  BY <1>1, <1>2, <1>3, WorkerSteps, HandlerStarts DEF Onward, Moves, Aside
<1>5. worker[w].at = "send"
  BY <1>4 DEF Onward, Moves, Booking, Follows
<1>6. \A v \in Worker : worker'[w] = worker[w] \/ v = w \/ ~ (Progress(v) \/ ExecutionFault(v))
  <2>1. ASSUME NEW v \in Worker, v # w, Progress(v) \/ ExecutionFault(v)
        PROVE  worker'[w] = worker[w]
    BY <1>1, <1>2, <2>1, WebhookMoves, ExecutionMoves, HandlerEnds
       DEF Onward, Moves, Aside, Progress
  <2>2. QED
    BY <2>1
<1>7. Progress(w) \/ ExecutionFault(w)
  <2>1. ASSUME NEW v \in Worker, Throw(v) \/ Crash(v) PROVE worker'[w] = worker[w]
    <3>1. v # w
      BY <1>1, <1>3, <1>5, <2>1, HandlerEnds DEF Throw, Crash
    <3>2. QED
      BY <1>1, <2>1, <3>1, ThrowMoves, HandlerEnds DEF Onward, Moves, Aside
  <2>2. ASSUME NEW v \in Worker, NEW id \in JobId, Take(v, id) PROVE worker'[w] = worker[w]
    BY <1>1, <1>3, <2>2, HandlerStarts DEF Aside
  <2>3. ASSUME NEW id \in JobId, Evict(id) \/ Recover(id) \/ LoseLock(id)
        PROVE  worker' = worker
    BY <2>3 DEF Evict, Recover, LoseLock
  <2>4. ASSUME NEW e \in Event, Deliver(e) PROVE worker' = worker
    BY <2>4 DEF Deliver
  <2>5. Environment \/ UNCHANGED vars => worker' = worker
    BY DEF Environment, ChangeAccount, SetOrgActive, CaptureLapses, ChangeSubscription,
       ChangeRule, vars
  <2>6. QED
    BY <1>3, <1>6, <2>1, <2>2, <2>3, <2>4, <2>5 DEF Next
<1>8. SendDm(w) \/ SendDmFails(w)
  BY <1>5, <1>7 DEF Progress, ExecutionFault, WebhookProcessingStep, ExecutionProgress,
     Dedup, Resolve, FindActiveCapture, MatchRules, RecordProcessed, Unsubscribe, UpsertContact,
     HandOff, ReadReplyCopy, SaveEmail, CompleteCapture, CountAttempt, EnqueueReply, LoadRule,
     CheckConsent, CheckContactCap, GetDmQuota, IncrementDmUsage, DecrementDmUsage,
     OpenLeadCapture, MarkProcessed, FlagAccount, FindNotice, CreateNotice, LoadAccount,
     GetReplyPeriod, SendReply, ChargeReply, SendReplyFails, Settle, Settling, Awaits
<1>9. ~ SendDmFails(w)
  BY <1>1, ErrorCaught DEF SendDmFails, Moves, Booking
<1>10. QED
  BY <1>4, <1>8, <1>9 DEF Onward, Moves, EventOf

(* Inductive, with Claims: what stands in the ledger of DMs that were sent *)
(* and, while nothing has failed, of every DM that was.                    *)
Booked(e) ==
    /\ delivered[e] > 0 => handed[e] # <<>>
    /\ ledger[e].sent => delivered[e] > 0
    /\ ledger[e].outcome = "dm_sent" => ledger[e].sent
    /\ delivered[e] > 0 =>
         ledger[e].sent \/ faults > 0 \/ \E w \in Worker : Booking(worker[w]) /\ EventOf(w) = e

BooksKept ==
    /\ \A w \in Worker : Booking(worker[w]) => EventOf(w) \in Event /\ delivered[EventOf(w)] > 0
    /\ \A e \in Event : Booked(e)

LEMMA BooksStep ==
    ASSUME PipelineTypes, Claims, BooksKept, [Next]_vars
    PROVE  BooksKept'
<1>1. ASSUME NEW w \in Worker, Booking(worker'[w])
      PROVE  EventOf(w)' \in Event /\ delivered'[EventOf(w)'] > 0
  <2>1. worker \in [Worker -> WorkerState] /\ delivered \in [Event -> Nat] /\ InHand(worker[w])
    BY DEF PipelineTypes, HandsFit, RowsTyped
  <2>2. CASE ~ Booking(worker[w])
    <3>1. SendDm(w) /\ EventOf(w)' = EventOf(w) /\ EventOf(w) \in Event
      BY <1>1, <2>1, <2>2, BookingBegins, InHandJob DEF SendDm, Awaits, EventOf
    <3>2. delivered'[EventOf(w)] = delivered[EventOf(w)] + 1
      BY <2>1, <3>1 DEF SendDm
    <3>3. QED
      BY <2>1, <3>1, <3>2
  <2>3. CASE Booking(worker[w])
    <3>1. EventOf(w)' = EventOf(w)
      <4>1. \/ worker'[w] = worker[w]
            \/ \E step \in Step : Onward(w, step)
            \/ \E v \in Worker : SaveEmail(v)
        BY <1>1, <2>1, WorkerSteps, HandlerStarts DEF Aside, Booking, Free, Onward, Moves
      <4>2. QED
        BY <2>1, <4>1, EmailSaved DEF EventOf, Onward, Moves
    <3>2. QED
      BY <2>3, <3>1, DeliverySteps DEF BooksKept
  <2>4. QED
    BY <2>2, <2>3
<1>2. ASSUME NEW e \in Event PROVE Booked(e)'
  <2>1. Booked(e) /\ HandedFits(e) /\ ledger[e] \in LedgerRow
    BY DEF BooksKept, Claims, PipelineTypes, RowsTyped
  <2>2. handed[e] # <<>> => handed'[e] # <<>>
    <3>1. ASSUME NEW w \in Worker, HandOff(w) PROVE handed[e] # <<>> => handed'[e] # <<>>
      BY <3>1, HandOffClaims DEF PipelineTypes, RowsTyped
    <3>2. (\A w \in Worker : ~ HandOff(w)) => handed' = handed
      BY ClaimSteps DEF RecordProcessed, MarkProcessed, outVars
    <3>3. QED
      BY <3>1, <3>2
  <2>3. delivered'[e] > 0 => handed'[e] # <<>>
    BY <2>1, <2>2, DeliverySteps DEF Booked
  <2>4. ASSUME NEW w \in Worker, MarkProcessed(w), EventOf(w) = e, worker[w].note = "dm_sent"
        PROVE  delivered[e] > 0
    BY <2>4 DEF MarkProcessed, Awaits, BooksKept, Booking
  <2>5. ledger'[e].sent => delivered'[e] > 0
    <3>1. ledger'[e].sent => ledger[e].sent \/ delivered[e] > 0
      BY <2>4, LedgerSteps
    <3>2. ledger[e].sent => delivered[e] > 0
      BY <2>1 DEF Booked
    <3>3. delivered[e] \in Nat /\ delivered'[e] \in Nat /\ delivered'[e] >= delivered[e]
      BY DeliverySteps
    <3>4. delivered[e] > 0 => delivered'[e] > 0
      BY <3>3
    <3>5. QED
      BY <3>1, <3>2, <3>4
  <2>6. ledger'[e].outcome = "dm_sent" => ledger'[e].sent
    BY <2>1, LedgerSteps DEF Booked
  <2>7. ledger[e].sent => ledger'[e].sent
    BY <2>1, LedgerSteps DEF Booked, HandedFits
  <2>8. ASSUME delivered'[e] > 0, ~ ledger'[e].sent, ~ faults' > 0
        PROVE  \E w \in Worker : Booking(worker'[w]) /\ EventOf(w)' = e
    <3>1. ~ faults > 0
      BY <2>8, HistorySteps
    <3>2. CASE delivered[e] > 0
      <4>1. PICK w \in Worker : Booking(worker[w]) /\ EventOf(w) = e
        BY <2>1, <2>7, <2>8, <3>1, <3>2 DEF Booked
      <4>2. ~ (MarkProcessed(w) /\ worker[w].note = "dm_sent")
        <5>1. ASSUME MarkProcessed(w), worker[w].note = "dm_sent" PROVE FALSE
          <6>1. PICK now \in BOOLEAN : now = (ledger[e].sent \/ worker[w].note = "dm_sent")
            OBVIOUS
          <6>2. ledger' = [ledger EXCEPT ![e].outcome = worker[w].note, ![e].sent = now]
            BY <2>1, <4>1, <5>1, <6>1 DEF MarkProcessed, Sent, LedgerRow
          <6>3. ledger'[e] = [ledger[e] EXCEPT !.outcome = worker[w].note, !.sent = now]
            BY <6>2 DEF PipelineTypes, RowsTyped
          <6>4. ledger'[e].sent
            BY <2>1, <5>1, <6>1, <6>3 DEF LedgerRow
          <6>5. QED
            BY <2>8, <6>4
        <5>2. QED
          BY <5>1
      <4>3. QED
        BY <2>8, <4>1, <4>2, BookingKept
    <3>3. CASE ~ delivered[e] > 0
      <4>1. PICK w \in Worker : (SendDm(w) \/ SendDmFails(w)) /\ EventOf(w) = e
        BY <2>8, <3>3, DeliverySteps
      <4>2. SendDm(w)
        BY <2>8, <4>1, HistorySteps DEF SendDmFails, Fault
      <4>3. PICK step \in {"open", "mark"} : Write(w, step, "dm_sent")
        BY <4>2 DEF SendDm
      <4>4. Moves(w, step) /\ worker'[w].note = "dm_sent"
        BY <4>3, WriteMoves DEF Step, ExecutionStep, Outcome, PipelineTypes, HandsFit
      <4>5. QED
        BY <4>1, <4>4 DEF Moves, Booking, EventOf
    <3>4. QED
      BY <3>2, <3>3
  <2>9. QED
    BY <2>3, <2>5, <2>6, <2>8 DEF Booked
<1>3. QED
  BY <1>1, <1>2 DEF BooksKept

(* The ledger says a DM was sent only if one was, and says so once stage 2 *)
(* is done with the event unless a fault came between, whatever other      *)
(* outcomes later attempts write over the row.                             *)
THEOREM LedgerTheorem == Spec => []LedgerTellsTheTruth
<1>1. Init => BooksKept
  BY DEF Init, StateInit, BooksKept, Booked, Booking, Free, NoRow
<1>2. PipelineTypes /\ Claims /\ BooksKept /\ [Next]_vars => BooksKept'
  BY BooksStep
<1>3. BooksKept => LedgerTellsTheTruth
  BY DEF BooksKept, Booked, Booking, LedgerTellsTheTruth, InFlight, Awaits
<1>4. QED
  BY <1>1, <1>2, <1>3, ClaimsInvariant, PTL DEF Spec

------------------------------------------------------------------------------
(* How many DMs an event can still get                                     *)

(* Handler w may yet send a DM for e, or hand e to one that will.          *)
Pending(w, e) ==
    /\ EventOf(w) = e
    /\ \/ Handing(w)
       \/ worker[w].job.queue = "execution" /\ worker[w].at # "finish" /\ ~ Booking(worker[w])

Chances(e) == {w \in Worker : Pending(w, e)}

(* Nobody works for e, but somebody will: its row or its job is there to   *)
(* be taken.                                                               *)
Left(id) == job[id].state = "waiting" \/ (job[id].state = "active" /\ ~ Working(id))
Spare(e) == ledger[e].outcome = "none" \/ \E r \in Rule : Left(ExecutionJob(e, r))

Bit(b) == IF b THEN 1 ELSE 0

(* Inductive, with Claims: an event is born with one chance of a DM, which *)
(* passes from its row to a handler, to its job, to a handler, to a DM;    *)
(* only a fault makes another.                                             *)
ChancesCounted(e) == Cardinality(Chances(e)) + Bit(Spare(e)) + delivered[e] <= 1 + faults

LEMMA ChancesFinite ==
    ASSUME NEW e
    PROVE  /\ IsFiniteSet(Chances(e)) /\ Cardinality(Chances(e)) \in Nat
           /\ IsFiniteSet(Chances(e)') /\ Cardinality(Chances(e)') \in Nat
<1>1. IsFiniteSet(Worker) /\ Chances(e) \in SUBSET Worker /\ Chances(e)' \in SUBSET Worker
  BY QuotaAssumption DEF Worker, Chances
<1>2. QED
  BY <1>1, FS_Subset, FS_CardinalityType

(* The ways the count may move: a chance is lost; it passes from the event *)
(* to a handler, or a fault makes it; it goes back from a handler to the   *)
(* event; it becomes a DM; a fault makes a DM beside it.                   *)
LEMMA ChancesMove ==
    ASSUME NEW e \in Event, ChancesCounted(e), NEW w,
           delivered[e] \in Nat, delivered'[e] \in Nat, faults \in Nat, faults' \in Nat,
           delivered'[e] <= delivered[e] + 1, faults' >= faults,
           \/ /\ Chances(e)' \subseteq Chances(e)
              /\ delivered'[e] = delivered[e]
              /\ Spare(e)' => Spare(e) \/ faults' > faults
           \/ /\ Chances(e)' \subseteq Chances(e) \cup {w}
              /\ delivered'[e] = delivered[e]
              /\ \/ Spare(e) /\ ~ Spare(e)'
                 \/ (Spare(e)' => Spare(e)) /\ faults' > faults
           \/ /\ w \in Chances(e) /\ Chances(e)' \subseteq Chances(e) \ {w}
              /\ delivered'[e] = delivered[e]
           \/ /\ w \in Chances(e) /\ Chances(e)' \subseteq Chances(e) \ {w}
              /\ Spare(e)' => Spare(e)
           \/ /\ Chances(e)' \subseteq Chances(e)
              /\ (Spare(e)' => Spare(e)) /\ faults' > faults
    PROVE  ChancesCounted(e)'
<1> DEFINE c == Cardinality(Chances(e))
           d == Cardinality(Chances(e)')
           b == Bit(Spare(e))
           a == Bit(Spare(e)')
<1>1. /\ c \in Nat /\ d \in Nat /\ a \in 0..1 /\ b \in 0..1
      /\ (Spare(e)' => Spare(e)) => a <= b
      /\ Spare(e) /\ ~ Spare(e)' => a = 0 /\ b = 1
  BY ChancesFinite DEF Bit
<1>2. /\ Chances(e)' \subseteq Chances(e) => d <= c
      /\ Chances(e)' \subseteq Chances(e) \cup {w} => d <= c + 1
      /\ w \in Chances(e) /\ Chances(e)' \subseteq Chances(e) \ {w} => d <= c - 1
  <2>1. /\ IsFiniteSet(Chances(e) \cup {w}) /\ Cardinality(Chances(e) \cup {w}) <= c + 1
        /\ IsFiniteSet(Chances(e) \ {w})
        /\ w \in Chances(e) => Cardinality(Chances(e) \ {w}) = c - 1
    BY <1>1, ChancesFinite, FS_AddElement, FS_RemoveElement
  <2>2. \A S : IsFiniteSet(S) /\ Chances(e)' \subseteq S => d <= Cardinality(S)
    BY FS_Subset
  <2>3. /\ Cardinality(Chances(e) \cup {w}) \in Nat
        /\ Cardinality(Chances(e) \ {w}) \in Nat
    BY <2>1, FS_CardinalityType
  <2>4. IsFiniteSet(Chances(e))
    BY ChancesFinite
  <2>5. QED
    BY <1>1, <2>1, <2>2, <2>3, <2>4
<1>3. c + b + delivered[e] <= 1 + faults
  BY DEF ChancesCounted
<1>4. d + a + delivered'[e] <= 1 + faults'
  <2> HIDE DEF a, b, c, d
  <2>1. CASE delivered'[e] = delivered[e] /\ d <= c /\ (a <= b \/ faults' > faults)
    BY <1>1, <1>3, <2>1
  <2>2. CASE /\ delivered'[e] = delivered[e] /\ d <= c + 1
             /\ (a = 0 /\ b = 1) \/ (a <= b /\ faults' > faults)
    BY <1>1, <1>3, <2>2
  <2>3. CASE d <= c - 1 /\ delivered'[e] = delivered[e]
    BY <1>1, <1>3, <2>3
  <2>4. CASE d <= c - 1 /\ a <= b
    BY <1>1, <1>3, <2>4
  <2>5. CASE d <= c /\ a <= b /\ faults' > faults
    BY <1>1, <1>3, <2>5
  <2>6. CASE /\ Chances(e)' \subseteq Chances(e)
             /\ delivered'[e] = delivered[e]
             /\ Spare(e)' => Spare(e) \/ faults' > faults
    BY <1>1, <1>2, <2>1, <2>6
  <2>7. CASE /\ Chances(e)' \subseteq Chances(e) \cup {w}
             /\ delivered'[e] = delivered[e]
             /\ \/ Spare(e) /\ ~ Spare(e)'
                \/ (Spare(e)' => Spare(e)) /\ faults' > faults
    <3>1. (Spare(e)' => Spare(e)) => a <= b
      BY <1>1
    <3>2. Spare(e) /\ ~ Spare(e)' => a = 0 /\ b = 1
      BY <1>1
    <3>3. d <= c + 1
      BY <1>2, <2>7
    <3>4. QED
      BY <2>2, <2>7, <3>1, <3>2, <3>3
  <2>8. CASE /\ w \in Chances(e) /\ Chances(e)' \subseteq Chances(e) \ {w}
             /\ delivered'[e] = delivered[e] \/ (Spare(e)' => Spare(e))
    BY <1>1, <1>2, <2>3, <2>4, <2>8
  <2>9. CASE /\ Chances(e)' \subseteq Chances(e)
             /\ (Spare(e)' => Spare(e)) /\ faults' > faults
    BY <1>1, <1>2, <2>5, <2>9
  <2>10. QED
    BY <2>6, <2>7, <2>8, <2>9
<1>5. QED
  BY <1>4 DEF ChancesCounted, Bit

(* Moving on with a job in hand leaves every execution job as it was.      *)
LEMMA SpareQuiet ==
    ASSUME PipelineTypes, [Next]_vars, NEW e \in Event, NEW w \in Worker,
           Quiet(w) \/ SaveEmail(w) \/ RecordProcessed(w) \/ MarkProcessed(w)
    PROVE  Spare(e)' => Spare(e)
<1>1. worker \in [Worker -> WorkerState] /\ job \in [JobId -> OwnedJob]
  BY DEF PipelineTypes, HandsFit
<1>2. \A v \in Worker : worker'[v].job = worker[v].job
  <2>1. CASE SaveEmail(w)
    BY <1>1, <2>1, EmailSaved
  <2>2. CASE Quiet(w)
    BY <2>2, QuietMoves DEF Onward, Moves, Aside
  <2>3. CASE RecordProcessed(w) \/ MarkProcessed(w)
    <3>1. PICK step : worker' = [worker EXCEPT ![w].at = step]
      BY <2>3 DEF RecordProcessed, MarkProcessed, Goto
    <3>2. QED
      BY <1>1, <3>1 DEF WorkerState
  <2>4. QED
    BY <2>1, <2>2, <2>3
<1>3. ASSUME NEW r \in Rule PROVE job'[ExecutionJob(e, r)] = job[ExecutionJob(e, r)]
  <2>1. CASE EnqueueReply(w)
    <3>1. EventOf(w) \in Event
      BY <2>1, InHandJob DEF EnqueueReply, Awaits, PipelineTypes, HandsFit, EventOf
    <3>2. ReplyJob(EventOf(w)) # ExecutionJob(e, r)
      BY DEF ReplyJob, ExecutionJob
    <3>3. QED
      BY <1>1, <2>1, <3>1, <3>2, JobIds DEF EnqueueReply
  <2>2. CASE job' = job
    BY <2>2
  <2>3. QED
    BY <2>1, <2>2, QuietFrame DEF SaveEmail, RecordProcessed, MarkProcessed
<1>4. ASSUME NEW r \in Rule PROVE Left(ExecutionJob(e, r))' => Left(ExecutionJob(e, r))
  <2>1. Working(ExecutionJob(e, r))' <=> Working(ExecutionJob(e, r))
    BY <1>2, <1>3 DEF Working, ExecutionJob
  <2>2. QED
    BY <1>3, <2>1 DEF Left, ExecutionJob
<1>5. ledger'[e].outcome = "none" => ledger[e].outcome = "none"
  BY LedgerSteps
<1>6. QED
  BY <1>4, <1>5 DEF Spare, ExecutionJob

(* An event gets a spare chance of the handler that hands it off or that   *)
(* gives its execution job back, or by a fault.                            *)
LEMMA SpareSteps ==
    ASSUME PipelineTypes, [Next]_vars, NEW e \in Event, Spare(e)', ~ Spare(e)
    PROVE  \/ Fault
           \/ \E w \in Worker : HandOff(w) /\ EventOf(w) = e
           \/ \E w \in Worker : /\ Settle(w) /\ EventOf(w) = e
                                /\ worker[w].job.queue = "execution" /\ ~ Awaits(w, "finish")
<1>1. worker \in [Worker -> WorkerState] /\ job \in [JobId -> OwnedJob]
  BY DEF PipelineTypes, HandsFit
<1>2. ledger'[e].outcome = "none" => ledger[e].outcome = "none"
  BY LedgerSteps
<1>3. PICK r \in Rule : Left(ExecutionJob(e, r))' /\ ~ Left(ExecutionJob(e, r))
  BY <1>2 DEF Spare, ExecutionJob
<1> DEFINE x == ExecutionJob(e, r)
<1>4. /\ x \in JobId /\ x.event = e /\ x.queue = "execution"
      /\ \A d \in Event : WebhookJob(d) # x
      /\ \A d \in Event, q \in Rule : ExecutionJob(d, q) = x => d = e /\ q = r
  BY JobIds DEF ExecutionJob, WebhookJob
<1>5. Left(x)' /\ ~ Left(x)
  BY <1>3
<1> HIDE DEF x
<1>6. job'[x] = job[x] => Working(x) /\ ~ Working(x)'
  BY <1>5 DEF Left
<1>7. ASSUME NEW d \in Event, Deliver(d) PROVE FALSE
  <2>1. job'[x] = job[x] /\ worker' = worker
    BY <1>1, <1>4, <1>7, JobIds DEF Deliver
  <2>2. QED
    BY <1>6, <2>1 DEF Working
<1>8. ASSUME NEW id \in JobId, Evict(id) \/ Recover(id) PROVE FALSE
  <2>1. worker' = worker /\ (id # x => job'[x] = job[x])
    BY <1>1, <1>4, <1>8 DEF Evict, Recover
  <2>2. id = x
    BY <1>6, <2>1 DEF Working
  <2>3. ~ Recover(x)
    BY <1>5 DEF Left, Recover
  <2>4. job'[x] = Bull!Absent
    BY <1>1, <1>4, <1>8, <2>2, <2>3 DEF Evict
  <2>5. QED
    BY <1>5, <2>4 DEF Left, Bull!Absent
<1>9. ASSUME NEW w \in Worker, NEW id \in JobId, Take(w, id) PROVE FALSE
  <2>1. Aside(w) /\ worker'[w].job = id /\ worker[w].job = NoJob
    <3>1. worker[w] = Free
      BY <1>9 DEF Take, Awaits, PipelineTypes, HandsFit, InHand
    <3>2. QED
      BY <1>1, <1>9, <3>1, HandlerStarts DEF Free
  <2>2. CASE id = x
    <3>1. job'[x].owner = w /\ job'[x].state = "active"
      BY <1>1, <1>4, <1>9, <2>2 DEF Take, Bull!Taken, OwnedJob, Bull!Job
    <3>2. Working(x)'
      BY <2>1, <2>2, <3>1 DEF Working
    <3>3. QED
      BY <1>5, <3>1, <3>2 DEF Left
  <2>3. CASE id # x
    <3>1. job'[x] = job[x]
      BY <1>1, <1>4, <1>9, <2>3 DEF Take
    <3>2. PICK v \in Worker : job[x].owner = v /\ worker[v].job = x
      BY <1>6, <3>1 DEF Working
    <3>3. v # w
      BY <1>4, <2>1, <3>2, JobIds
    <3>4. QED
      BY <1>6, <2>1, <3>1, <3>2, <3>3 DEF Working, Aside
  <2>4. QED
    BY <2>2, <2>3
<1>10. ASSUME NEW w \in Worker, Settle(w)
       PROVE  worker[w].job = x /\ ~ Awaits(w, "finish")
  <2>1. Aside(w)
    BY <1>1, <1>10, HandlerEnds
  <2>2. CASE job'[x] = job[x]
    <3>1. PICK v \in Worker : job[x].owner = v /\ worker[v].job = x
      BY <1>6, <2>2 DEF Working
    <3>2. CASE v # w
      BY <1>6, <2>1, <2>2, <3>1, <3>2 DEF Working, Aside
    <3>3. CASE v = w
      <4>1. ~ Awaits(w, "finish")
        <5>1. SUFFICES ASSUME Awaits(w, "finish") PROVE FALSE
          OBVIOUS
        <5>2. job'[x] = Bull!Completed(job[x], w)
          BY <1>1, <1>4, <1>10, <3>1, <3>3, <5>1 DEF Settle, Awaits
        <5>3. QED
          BY <1>5, <3>1, <3>3, <5>2 DEF Bull!Completed, Bull!Absent, Left
      <4>2. QED
        BY <3>1, <3>3, <4>1
    <3>4. QED
      BY <3>2, <3>3
  <2>3. CASE job'[x] # job[x]
    <3>1. worker[w].job = x
      BY <1>1, <1>4, <1>10, <2>3 DEF Settle
    <3>2. Awaits(w, "finish") => job'[x].state # "waiting" /\ job'[x].state # "active"
      <4>1. SUFFICES ASSUME Awaits(w, "finish")
                     PROVE  job'[x].state # "waiting" /\ job'[x].state # "active"
        OBVIOUS
      <4>2. job'[x] = Bull!Completed(job[x], w)
        BY <1>1, <1>4, <1>10, <3>1, <4>1 DEF Settle, Awaits
      <4>3. QED
        BY <2>3, <4>2 DEF Bull!Completed, Bull!Absent
    <3>3. QED
      BY <1>5, <3>1, <3>2 DEF Left
  <2>4. QED
    BY <2>2, <2>3
<1>11. ASSUME NEW w \in Worker, HandOff(w) PROVE EventOf(w) = e
  <2>1. EventOf(w) \in Event /\ worker[w].rule \in Rule
    BY <1>11, InHandJob DEF HandOff, Awaits, PipelineTypes, HandsFit, InHand, EventOf
  <2>2. EventOf(w) # e => job'[x] = job[x]
    BY <1>1, <1>4, <1>11, <2>1, JobIds DEF HandOff
  <2>3. \A v \in Worker : worker'[v].job = worker[v].job
    BY <1>1, <1>11 DEF HandOff, Goto
  <2>4. QED
    BY <1>6, <2>2, <2>3 DEF Working
<1>12. ASSUME NEW w \in Worker, Quiet(w) \/ SaveEmail(w) \/ RecordProcessed(w) \/ MarkProcessed(w)
       PROVE  FALSE
  BY <1>12, SpareQuiet
<1>13. Environment \/ UNCHANGED vars => job' = job /\ worker' = worker
  BY DEF Environment, ChangeAccount, SetOrgActive, CaptureLapses, ChangeSubscription,
     ChangeRule, vars
<1>14. ~ (job' = job /\ worker' = worker)
  BY <1>6 DEF Working
<1>15. ASSUME NEW w \in Worker, Progress(w) \/ ExecutionFault(w) \/ Throw(w)
       PROVE  HandOff(w) \/ Settle(w)
  BY <1>12, <1>15 DEF Quiet
<1>16. \/ Fault
       \/ \E w \in Worker : HandOff(w) \/ Settle(w)
  BY <1>7, <1>8, <1>9, <1>13, <1>14, <1>15 DEF Next, Crash, LoseLock
<1>17. QED
  BY <1>4, <1>10, <1>11, <1>16 DEF EventOf

(* A handler comes to have a chance by settling the event, by taking its   *)
(* execution job, or by losing sight of a DM it did send.                  *)
LEMMA PendingSteps ==
    ASSUME PipelineTypes, Claims, [Next]_vars, NEW e \in Event, NEW v \in Worker,
           Pending(v, e)', ~ Pending(v, e)
    PROVE  /\ Aside(v)
           /\ \/ /\ RecordProcessed(v) /\ ledger[e].outcome = "none"
                 /\ ledger'[e].outcome # "none"
              \/ \E r \in Rule : Take(v, ExecutionJob(e, r))
              \/ Quiet(v) /\ faults' > faults /\ delivered' = delivered
<1>1. /\ worker \in [Worker -> WorkerState] /\ faults \in Nat
      /\ \A w \in Worker : InHand(worker[w]) /\ Lawful(w)
  BY HistorySteps DEF PipelineTypes, HandsFit, Claims
<1>2. worker'[v] # worker[v]
  BY DEF Pending, Handing, EventOf
<1>3. worker'[v] # Free
  BY DEF Pending, Handing, Free, NoJob
<1>4. ~ HandOff(v)
  <2>1. HandOff(v) => worker'[v].at = "finish"
    BY <1>1 DEF HandOff, Goto
  <2>2. QED
    BY <2>1 DEF Pending, Handing
<1>5. ASSUME NEW w \in Worker, w # v, HandOff(w) \/ RecordProcessed(w) \/ MarkProcessed(w)
      PROVE  FALSE
  BY <1>1, <1>2, <1>5 DEF HandOff, RecordProcessed, MarkProcessed, Goto
<1>6. ~ MarkProcessed(v)
  <2>1. SUFFICES ASSUME MarkProcessed(v) PROVE FALSE
    OBVIOUS
  <2>2. PICK step \in {"findNotice", "throttled", "rethrow", "finish"} :
          Goto(v, step) /\ (worker[v].note = "dm_sent" => step = "finish")
    BY <2>1 DEF MarkProcessed, AfterMark
  <2>3. Moves(v, step) /\ EventOf(v)' = EventOf(v)
    BY <1>1, <2>2, GotoMoves DEF Step, ExecutionStep, Settling, Moves, EventOf
  <2>4. worker[v].at = "mark" /\ worker[v].job.queue = "execution" /\ worker[v].note # "dm_sent"
    BY <1>1, <2>1, <2>2, <2>3
       DEF MarkProcessed, Awaits, InHand, ExecutionStep, Pending, Handing, Moves
  <2>5. QED
    BY <2>3, <2>4 DEF Pending, Booking
<1>7. CASE RecordProcessed(v)
  <2>1. PICK step \in {"unsubscribe", "copy", "contact", "finish"} :
          /\ Goto(v, step)
          /\ step = "contact" => worker[v].note = "matched" /\ ledger[EventOf(v)].outcome = "none"
    BY <1>7 DEF RecordProcessed, AfterRecord
  <2>2. Moves(v, step) /\ EventOf(v)' = EventOf(v)
    BY <1>1, <2>1, GotoMoves DEF Step, WebhookStep, Settling, Moves, EventOf
  <2>3. worker[v].job.queue = "webhook"
    BY <1>1, <1>7 DEF RecordProcessed, Awaits, InHand, WebhookStep
  <2>4. step = "contact" /\ EventOf(v) = e
    BY <2>2, <2>3 DEF Pending, Handing, Moves
  <2>5. ledger'[e].outcome = "matched"
    <3>1. PICK row : row = [outcome |-> worker[v].note, rule |-> worker[v].rule, sent |-> FALSE]
      OBVIOUS
    <3>2. ledger' = [ledger EXCEPT ![e] = row]
      BY <1>7, <2>1, <2>4, <3>1 DEF RecordProcessed
    <3>3. QED
      BY <2>1, <2>4, <3>1, <3>2 DEF PipelineTypes, RowsTyped
  <2>6. QED
    BY <1>7, <2>1, <2>2, <2>4, <2>5 DEF Moves
<1>8. ASSUME NEW w \in Worker, SaveEmail(w) PROVE FALSE
  <2>1. /\ worker'[v].at = IF v = w THEN "close" ELSE worker[v].at
        /\ worker'[v].job = worker[v].job /\ worker'[v].note = worker[v].note
    BY <1>1, <1>8, EmailSaved
  <2>2. v = w => worker[v].job.queue = "webhook"
    BY <1>1, <1>8 DEF SaveEmail, Awaits, InHand, WebhookStep
  <2>3. QED
    BY <2>1, <2>2 DEF Pending, Handing, EventOf, Booking
<1>9. ASSUME NEW id \in JobId, Take(v, id)
      PROVE  Aside(v) /\ \E r \in Rule : Take(v, ExecutionJob(e, r))
  <2>1. Aside(v) /\ worker'[v].job = id /\ worker'[v].at \in {"dedup", "load", "account"}
    BY <1>1, <1>9, HandlerStarts
  <2>2. id.queue = "execution" /\ id.event = e
    BY <2>1 DEF Pending, Handing, EventOf
  <2>3. QED
    BY <1>9, <2>1, <2>2, JobIds
<1>10. CASE Quiet(v)
  <2>1. PICK step \in Step :
          /\ Onward(v, step)
          /\ worker[v].at \in {"record", "handoff", "mark", "email"} => step \in {"release", "rethrow"}
    BY <1>10, QuietMoves
  <2>2. Moves(v, step) /\ worker[v].at \notin Settling /\ EventOf(v)' = EventOf(v)
    BY <2>1 DEF Onward, Moves, EventOf
  <2>3. ~ Handing(v)'
    <3>1. ledger' = ledger /\ handed' = handed
      BY <1>10, QuietFrame
    <3>2. QED
      BY <1>10, <2>2, <3>1, LawfulOnward DEF Pending
  <2>4. Booking(worker[v]) /\ step # "finish" /\ ~ Booking(worker'[v])
    BY <2>2, <2>3 DEF Pending, Moves, Settling
  <2>5. step = "release" /\ Fault
    BY <2>1, <2>2, <2>4 DEF Onward, Moves, Booking
  <2>6. ~ SendDm(v) /\ ~ SendDmFails(v)
    BY <2>4 DEF Booking, SendDm, SendDmFails, Awaits
  <2>7. QED
    BY <1>1, <1>10, <2>2, <2>5, <2>6, QuietFrame DEF Fault, Moves
<1>11. ASSUME NEW w \in Worker, w # v, Quiet(w) PROVE FALSE
  BY <1>2, <1>11, QuietMoves DEF Onward, Moves, Aside
<1>12. QED
  BY <1>2, <1>3, <1>4, <1>5, <1>6, <1>7, <1>8, <1>9, <1>10, <1>11, HandlerStarts, <1>1,
     ClaimSteps DEF Aside

LEMMA ChancesStep ==
    ASSUME PipelineTypes, Claims, [Next]_vars, NEW e \in Event, ChancesCounted(e)
    PROVE  ChancesCounted(e)'
<1>1. /\ worker \in [Worker -> WorkerState] /\ job \in [JobId -> OwnedJob]
      /\ \A w \in Worker : InHand(worker[w])
      /\ \A w \in Worker : Lawful(w)
      /\ HandedFits(e) /\ JobsFollow
  BY DEF PipelineTypes, HandsFit, Claims
<1>2. /\ faults \in Nat /\ faults' \in Nat /\ faults' >= faults
      /\ delivered[e] \in Nat /\ delivered'[e] \in Nat /\ delivered'[e] <= delivered[e] + 1
      /\ Fault => faults' > faults
  BY HistorySteps, DeliverySteps DEF Fault
<1>3. ASSUME NEW v \in Worker, Aside(v)
      PROVE  /\ Chances(e)' \subseteq Chances(e) \cup {v}
             /\ ~ Pending(v, e)' => Chances(e)' \subseteq Chances(e) \ {v}
  <2>1. \A u \in Worker \ {v} : Pending(u, e)' => Pending(u, e)
    BY <1>3 DEF Aside, Pending, Handing, EventOf
  <2>2. \A u : u \in Chances(e)' <=> u \in Worker /\ Pending(u, e)'
    BY DEF Chances
  <2>3. \A u : u \in Chances(e) <=> u \in Worker /\ Pending(u, e)
    BY DEF Chances
  <2>4. QED
    BY <2>1, <2>2, <2>3
<1>4. CASE \E v \in Worker : Pending(v, e)' /\ ~ Pending(v, e)
  <2>1. PICK v \in Worker : Pending(v, e)' /\ ~ Pending(v, e)
    BY <1>4
  <2>2. Chances(e)' \subseteq Chances(e) \cup {v}
    BY <1>3, <2>1, PendingSteps
  <2>3. CASE RecordProcessed(v) /\ ledger[e].outcome = "none" /\ ledger'[e].outcome # "none"
    <3>1. delivered' = delivered /\ job' = job /\ handed[e] = <<>>
      BY <1>1, <2>3 DEF RecordProcessed, outVars, HandedFits
    <3>2. \A r : handed[e] # <<r>>
      BY <3>1
    <3>3. \A r \in Rule : job'[ExecutionJob(e, r)].state = "absent"
      BY <1>1, <3>1, <3>2 DEF JobsFollow
    <3>4. Spare(e) /\ ~ Spare(e)'
      BY <2>3, <3>3 DEF Spare, Left, ExecutionJob
    <3>5. QED
      BY <1>2, <2>2, <3>1, <3>4, ChancesMove
  <2>4. ASSUME NEW r \in Rule, Take(v, ExecutionJob(e, r)) PROVE ChancesCounted(e)'
    <3>1. PICK x \in JobId : x = ExecutionJob(e, r)
      BY JobIds
    <3>2. /\ job[x].state = "waiting" /\ delivered' = delivered /\ ledger' = ledger
          /\ job' = [job EXCEPT ![x] = Bull!Taken(@, v)]
          /\ worker'[v].job = x
      BY <1>1, <2>4, <3>1, HandlerStarts DEF Take, outVars, rowVars
    <3>3. job'[x].state = "active" /\ job'[x].owner = v
      BY <1>1, <3>2 DEF Bull!Taken, OwnedJob, Bull!Job
    <3>4. handed[e] = <<r>>
      BY <1>1, <3>1, <3>2 DEF JobsFollow
    <3>5. ledger[e].outcome # "none"
      <4>1. handed[e] # <<>>
        BY <3>4
      <4>2. QED
        BY <1>1, <4>1 DEF HandedFits
    <3>6. ASSUME NEW q \in Rule PROVE ~ Left(ExecutionJob(e, q))'
      <4>1. CASE q = r
        BY <3>1, <3>2, <3>3, <4>1 DEF Left, Working, ExecutionJob
      <4>2. CASE q # r
        <5>1. ExecutionJob(e, q) # x /\ ExecutionJob(e, q) \in JobId
          BY <3>1, <4>2, JobIds DEF ExecutionJob
        <5>2. handed[e] # <<q>>
          BY <3>4, <4>2
        <5>3. job[ExecutionJob(e, q)].state = "absent"
          BY <1>1, <5>2 DEF JobsFollow
        <5>4. job'[ExecutionJob(e, q)].state = "absent"
          BY <1>1, <3>2, <5>1, <5>3
        <5>5. QED
          BY <5>4 DEF Left, ExecutionJob
      <4>3. QED
        BY <4>1, <4>2
    <3>7. Spare(e) /\ ~ Spare(e)'
      BY <3>1, <3>2, <3>5, <3>6 DEF Spare, Left, ExecutionJob
    <3>8. QED
      BY <1>2, <2>2, <3>2, <3>7, ChancesMove
  <2>5. CASE Quiet(v) /\ faults' > faults /\ delivered' = delivered
    BY <1>2, <2>1, <2>2, <2>5, SpareQuiet, ChancesMove
  <2>6. QED
    BY <2>1, <2>3, <2>4, <2>5, PendingSteps
<1>5. CASE ~ \E v \in Worker : Pending(v, e)' /\ ~ Pending(v, e)
  <2>1. Chances(e)' \subseteq Chances(e)
    BY <1>5 DEF Chances
  <2>2. CASE delivered'[e] # delivered[e]
    <3>1. PICK w \in Worker : (SendDm(w) \/ SendDmFails(w)) /\ EventOf(w) = e
      BY <2>2, DeliverySteps
    <3>2. Quiet(w)
      BY <3>1 DEF Quiet, Progress, ExecutionProgress, ExecutionFault, SendDm, SendDmFails,
         RecordProcessed, HandOff, MarkProcessed, SaveEmail, Settle, Settling, Awaits
    <3>3. Spare(e)' => Spare(e)
      BY <3>2, SpareQuiet
    <3>4. CASE SendDmFails(w)
      BY <1>2, <2>1, <3>3, <3>4, ChancesMove DEF SendDmFails
    <3>5. CASE SendDm(w)
      <4>1. w \in Chances(e)
        BY <1>1, <3>1, <3>5 DEF SendDm, Awaits, InHand, ExecutionStep, Chances, Pending, Booking
      <4>2. PICK step \in {"open", "mark"} : Write(w, step, "dm_sent")
        BY <3>5 DEF SendDm
      <4>3. Moves(w, step) /\ worker'[w].note = "dm_sent"
        BY <1>1, <4>2, WriteMoves DEF Step, ExecutionStep, Outcome
      <4>4. Aside(w) /\ ~ Pending(w, e)'
        BY <4>3 DEF Moves, Pending, Handing, Booking
      <4>5. QED
        BY <1>2, <1>3, <3>3, <4>1, <4>4, ChancesMove
    <3>6. QED
      BY <3>1, <3>4, <3>5
  <2>3. CASE delivered'[e] = delivered[e] /\ (Spare(e)' => Spare(e) \/ faults' > faults)
    BY <1>2, <2>1, <2>3, ChancesMove
  <2>4. ASSUME NEW w \in Worker, EventOf(w) = e, delivered'[e] = delivered[e],
               HandOff(w) \/ /\ Settle(w) /\ worker[w].job.queue = "execution"
                             /\ ~ Awaits(w, "finish")
        PROVE  ChancesCounted(e)'
    <3>1. w \in Chances(e)
      BY <1>1, <2>4
         DEF HandOff, Settle, Settling, Awaits, Chances, Pending, Handing, Booking
    <3>2. Aside(w) /\ ~ Pending(w, e)'
      <4>1. CASE HandOff(w)
        <5>1. Moves(w, "finish")
          BY <1>1, <4>1, GotoMoves DEF HandOff, Step, Settling
        <5>2. QED
          BY <5>1 DEF Moves, Pending, Handing
      <4>2. CASE Settle(w)
        BY <1>1, <4>2, HandlerEnds DEF Pending, Handing, Free, NoJob
      <4>3. QED
        BY <2>4, <4>1, <4>2
    <3>3. QED
      BY <1>2, <1>3, <2>4, <3>1, <3>2, ChancesMove
  <2>5. QED
    BY <1>2, <2>2, <2>3, <2>4, SpareSteps
<1>6. QED
  BY <1>4, <1>5

(* Concurrent and repeated deliveries, redelivery after eviction and       *)
(* retries never send an event's DM twice by themselves: each DM beyond    *)
(* the first has a failed call, a crash or a lost lock of its own.         *)
THEOREM DuplicatesTheorem == Spec => []DuplicatesCostFaults
<1>1. Init => \A e \in Event : ChancesCounted(e)
  <2>1. ASSUME Init, NEW e \in Event PROVE ChancesCounted(e)
    <3>1. Chances(e) = {}
      BY <2>1 DEF Init, StateInit, Chances, Pending, Handing, Free, NoJob
    <3>2. delivered[e] = 0 /\ faults = 0
      BY <2>1 DEF Init, StateInit
    <3>3. QED
      BY <3>1, <3>2, FS_EmptySet DEF ChancesCounted, Bit
  <2>2. QED
    BY <2>1
<1>2. /\ PipelineTypes /\ Claims /\ (\A e \in Event : ChancesCounted(e)) /\ [Next]_vars
      => (\A e \in Event : ChancesCounted(e))'
  BY ChancesStep
<1>3. PipelineTypes /\ (\A e \in Event : ChancesCounted(e)) => DuplicatesCostFaults
  <2>1. ASSUME PipelineTypes, NEW e \in Event, ChancesCounted(e)
        PROVE  delivered[e] <= 1 + faults
    <3>1. delivered[e] \in Nat /\ faults \in Nat /\ Bit(Spare(e)) \in {0, 1}
      BY <2>1, PipelineAssumption DEF PipelineTypes, RowsTyped, Bit
    <3>2. QED
      BY <2>1, <3>1, ChancesFinite DEF ChancesCounted
  <2>2. QED
    BY <2>1 DEF DuplicatesCostFaults
<1>4. QED
  BY <1>1, <1>2, <1>3, ClaimsInvariant, PTL DEF Spec

------------------------------------------------------------------------------
(* What holds as long as nothing has failed                                *)

(* A handler at work goes on by a step of its own, or not at all.          *)
LEMMA UndisturbedSteps ==
    ASSUME PipelineTypes, [Next]_vars, faults' = 0, NEW w \in Worker,
           worker[w].at \notin Settling \cup {"idle", "email"}
    PROVE  \/ worker'[w].at = worker[w].at /\ worker'[w].job = worker[w].job
           \/ WebhookProcessingStep(w) \/ ExecutionProgress(w)
<1>1. worker \in [Worker -> WorkerState] /\ ~ Fault
  BY HistorySteps DEF PipelineTypes, HandsFit, Fault
<1>2. ASSUME NEW v \in Worker, SaveEmail(v)
      PROVE  worker'[w].at = worker[w].at /\ worker'[w].job = worker[w].job
  <2>1. v # w
    BY <1>2 DEF SaveEmail, Awaits
  <2>2. QED
    BY <1>1, <1>2, <2>1, EmailSaved
<1>3. ASSUME NEW v \in Worker, v # w, WebhookProcessingStep(v) \/ ExecutionProgress(v), ~ SaveEmail(v)
      PROVE  worker'[w] = worker[w]
  BY <1>3, WebhookMoves, ExecutionMoves DEF Onward, Moves, Aside
<1>4. ASSUME NEW v \in Worker, Settle(v) \/ \E id \in JobId : Take(v, id)
      PROVE  worker'[w] = worker[w]
  <2>1. v # w
    BY <1>4 DEF Settle, Settling, Take, Awaits
  <2>2. QED
    BY <1>1, <1>4, <2>1, HandlerEnds, HandlerStarts DEF Aside
<1>5. \A v \in Worker : ~ Crash(v) /\ ~ Throw(v) /\ ~ ExecutionFault(v)
  BY <1>1 DEF Crash, Throw, ExecutionFault, SendDmFails, SendReplyFails
<1>6. ASSUME NEW id \in JobId, Evict(id) \/ Recover(id) \/ LoseLock(id) PROVE worker' = worker
  BY <1>6 DEF Evict, Recover, LoseLock
<1>7. ASSUME NEW e \in Event, Deliver(e) PROVE worker' = worker
  BY <1>7 DEF Deliver
<1>8. Environment \/ UNCHANGED vars => worker' = worker
  BY DEF Environment, ChangeAccount, SetOrgActive, CaptureLapses, ChangeSubscription,
     ChangeRule, vars
<1>9. QED
  BY <1>2, <1>3, <1>4, <1>5, <1>6, <1>7, <1>8 DEF Next, Progress

(* While nothing has failed, each handler holds the lock of its job and    *)
(* each lock has its handler.                                              *)
LocksHeld ==
    faults = 0 =>
        /\ \A w \in Worker : worker[w].at # "idle" => job[worker[w].job].owner = w
        /\ \A id \in JobId : job[id].owner \in Worker => worker[job[id].owner].job = id

LEMMA LocksKept ==
    ASSUME PipelineTypes, LocksHeld, faults = 0,
           \A w \in Worker : /\ worker'[w].job = worker[w].job
                             /\ worker'[w].at # "idle" => worker[w].at # "idle",
           \A id \in JobId : job'[id].owner = job[id].owner
    PROVE  LocksHeld'
<1>1. \A w \in Worker : worker[w].at # "idle" => worker[w].job \in JobId
  BY DEF PipelineTypes, HandsFit, InHand
<1>2. ASSUME NEW w \in Worker, worker'[w].at # "idle" PROVE job'[worker'[w].job].owner = w
  BY <1>1, <1>2 DEF LocksHeld
<1>3. ASSUME NEW id \in JobId, job'[id].owner \in Worker PROVE worker'[job'[id].owner].job = id
  BY <1>3 DEF LocksHeld
<1>4. QED
  BY <1>2, <1>3 DEF LocksHeld

LEMMA LocksStep ==
    ASSUME PipelineTypes, LocksHeld, [Next]_vars
    PROVE  LocksHeld'
<1> SUFFICES ASSUME faults' = 0 PROVE LocksHeld'
  BY DEF LocksHeld
<1>1. /\ worker \in [Worker -> WorkerState] /\ job \in [JobId -> OwnedJob]
      /\ \A w \in Worker : InHand(worker[w])
      /\ faults = 0 /\ ~ Fault /\ NoWorker \notin Worker
  BY HistorySteps, PipelineAssumption DEF PipelineTypes, HandsFit, Fault
<1>2. /\ \A w \in Worker : worker[w].at # "idle" => job[worker[w].job].owner = w
      /\ \A id \in JobId : job[id].owner \in Worker => worker[job[id].owner].job = id
      /\ \A w \in Worker : worker[w].at # "idle" => worker[w].job \in JobId
  BY <1>1 DEF LocksHeld, InHand
<1>3. \A j \in OwnedJob : Bull!Added(j).owner = j.owner
  BY DEF Bull!Added, OwnedJob, Bull!Job
<1>4. ASSUME NEW id \in JobId, NEW j, job' = [job EXCEPT ![id] = j], j.owner = job[id].owner,
             \A w \in Worker : /\ worker'[w].job = worker[w].job
                               /\ worker'[w].at # "idle" => worker[w].at # "idle"
      PROVE  LocksHeld'
  BY <1>1, <1>4, LocksKept
<1>5. ASSUME NEW e \in Event, Deliver(e) PROVE LocksHeld'
  BY <1>1, <1>3, <1>4, <1>5, JobIds DEF Deliver
<1>6. ASSUME NEW id \in JobId, Evict(id) PROVE LocksHeld'
  <2>1. job[id].owner = NoWorker /\ Bull!Absent.owner = NoWorker
    BY <1>1, <1>6 DEF Evict, OwnedJob, Bull!Job, Bull!Absent
  <2>2. QED
    BY <1>1, <1>4, <1>6, <2>1 DEF Evict
<1>7. ASSUME NEW id \in JobId, Recover(id) \/ LoseLock(id) PROVE LocksHeld'
  BY <1>1, <1>2, <1>7 DEF Recover, LoseLock, Working, OwnedJob
<1>8. ASSUME NEW w \in Worker, NEW id \in JobId, Take(w, id) PROVE LocksHeld'
  <2>1. /\ Aside(w) /\ worker'[w].job = id /\ worker[w].job = NoJob
        /\ job[id].owner \notin Worker
    <3>1. worker[w] = Free
      BY <1>1, <1>8 DEF Take, Awaits, InHand
    <3>2. job[id] \in OwnedJob /\ job[id].state = "waiting"
      BY <1>1, <1>8 DEF Take
    <3>3. job[id].owner \notin Worker
      BY <3>2 DEF OwnedJob
    <3>4. Aside(w) /\ worker'[w].job = id
      BY <1>1, <1>8, HandlerStarts
    <3>5. QED
      BY <3>1, <3>3, <3>4 DEF Free
  <2>2. job'[id].owner = w /\ \A x \in JobId \ {id} : job'[x] = job[x]
    BY <1>1, <1>8 DEF Take, Bull!Taken, OwnedJob, Bull!Job
  <2>3. ASSUME NEW v \in Worker, worker'[v].at # "idle" PROVE job'[worker'[v].job].owner = v
    BY <1>2, <2>1, <2>2, <2>3 DEF Aside
  <2>4. ASSUME NEW x \in JobId, job'[x].owner \in Worker PROVE worker'[job'[x].owner].job = x
    <3>1. CASE x = id
      BY <2>1, <2>2, <3>1
    <3>2. CASE x # id
      <4>1. worker[job[x].owner].job = x /\ job'[x] = job[x]
        BY <1>2, <2>2, <2>4, <3>2
      <4>2. job[x].owner # w
        BY <2>1, <4>1, JobIds
      <4>3. QED
        BY <2>1, <2>4, <4>1, <4>2 DEF Aside
    <3>3. QED
      BY <3>1, <3>2
  <2>5. QED
    BY <2>3, <2>4 DEF LocksHeld
<1>9. ASSUME NEW w \in Worker, Settle(w) PROVE LocksHeld'
  <2>1. /\ Aside(w) /\ worker'[w] = Free /\ worker[w].at # "idle"
        /\ worker[w].job \in JobId /\ job[worker[w].job].owner = w
    BY <1>1, <1>2, <1>9, HandlerEnds DEF Settle, Settling, Awaits
  <2>2. job'[worker[w].job].owner = NoWorker
    <3>1. \/ job'[worker[w].job] = Bull!Completed(job[worker[w].job], w)
          \/ job'[worker[w].job] = Bull!Failed(job[worker[w].job], w, Attempts(worker[w].job))
          \/ job'[worker[w].job] = Bull!RateLimited(job[worker[w].job], w)
      BY <1>1, <1>9, <2>1 DEF Settle, Settling, Awaits
    <3>2. \A attempts : /\ Bull!Completed(job[worker[w].job], w).owner = NoWorker
                        /\ Bull!Failed(job[worker[w].job], w, attempts).owner = NoWorker
                        /\ Bull!RateLimited(job[worker[w].job], w).owner = NoWorker
      BY <1>1, <2>1 DEF Bull!Completed, Bull!Failed, Bull!RateLimited, Bull!Absent, OwnedJob, Bull!Job
    <3>3. QED
      BY <3>1, <3>2
  <2>3. \A x \in JobId \ {worker[w].job} : job'[x] = job[x]
    BY <1>1, <1>9 DEF Settle
  <2>4. ASSUME NEW v \in Worker, worker'[v].at # "idle" PROVE job'[worker'[v].job].owner = v
    <3>1. v # w /\ worker'[v] = worker[v]
      BY <2>1, <2>4 DEF Aside, Free
    <3>2. worker[v].job # worker[w].job
      BY <1>2, <2>1, <2>4, <3>1
    <3>3. QED
      BY <1>2, <2>3, <2>4, <3>1, <3>2
  <2>5. ASSUME NEW x \in JobId, job'[x].owner \in Worker PROVE worker'[job'[x].owner].job = x
    <3>1. x # worker[w].job
      BY <1>1, <2>2, <2>5
    <3>2. job'[x] = job[x] /\ worker[job[x].owner].job = x
      BY <1>2, <2>3, <2>5, <3>1
    <3>3. QED
      BY <2>1, <2>5, <3>1, <3>2 DEF Aside
  <2>6. QED
    BY <2>4, <2>5 DEF LocksHeld
<1>10. ASSUME NEW w \in Worker,
              \/ HandOff(w) \/ RecordProcessed(w) \/ MarkProcessed(w) \/ SaveEmail(w)
              \/ Quiet(w)
       PROVE  LocksHeld'
  <2>1. \A v \in Worker : /\ worker'[v].job = worker[v].job
                          /\ worker'[v].at # "idle" => worker[v].at # "idle"
    <3>1. CASE SaveEmail(w)
      <4>1. worker[w].at = "email"
        BY <3>1 DEF SaveEmail, Awaits
      <4>2. QED
        BY <1>1, <3>1, <4>1, EmailSaved
    <3>2. CASE Quiet(w)
      BY <3>2, QuietMoves DEF Onward, Moves, Aside
    <3>3. CASE HandOff(w) \/ RecordProcessed(w) \/ MarkProcessed(w)
      <4>1. PICK step : worker' = [worker EXCEPT ![w].at = step] /\ worker[w].at # "idle"
        BY <3>3 DEF HandOff, RecordProcessed, MarkProcessed, Goto, Awaits
      <4>2. QED
        BY <1>1, <4>1 DEF WorkerState
    <3>4. QED
      BY <1>10, <3>1, <3>2, <3>3
  <2>2. CASE job' = job
    BY <1>1, <2>1, <2>2, LocksKept
  <2>3. CASE HandOff(w) \/ EnqueueReply(w)
    <3>1. EventOf(w) \in Event /\ (HandOff(w) => worker[w].rule \in Rule)
      BY <1>1, <2>3, InHandJob DEF HandOff, EnqueueReply, Awaits, InHand, EventOf
    <3>2. \/ job' = job
          \/ \E id \in JobId : job' = [job EXCEPT ![id] = Bull!Added(@)]
      BY <2>3, <3>1, JobIds DEF HandOff, EnqueueReply
    <3>3. QED
      BY <1>1, <1>3, <1>4, <2>1, <2>2, <3>2
  <2>4. QED
    BY <1>10, <2>2, <2>3, QuietFrame DEF RecordProcessed, MarkProcessed, SaveEmail
<1>11. ASSUME Environment \/ UNCHANGED vars PROVE LocksHeld'
  <2>1. job' = job /\ worker' = worker
    BY <1>11 DEF Environment, ChangeAccount, SetOrgActive, CaptureLapses, ChangeSubscription,
       ChangeRule, vars
  <2>2. QED
    BY <1>1, <2>1, LocksKept
<1>12. \A w \in Worker : ~ Crash(w)
  BY <1>1 DEF Crash
<1>13. ASSUME NEW w \in Worker, Progress(w) \/ ExecutionFault(w) \/ Throw(w)
       PROVE  \/ HandOff(w) \/ RecordProcessed(w) \/ MarkProcessed(w) \/ SaveEmail(w)
              \/ Quiet(w) \/ Settle(w)
  BY <1>13 DEF Quiet
<1>14. QED
  BY <1>5, <1>6, <1>7, <1>8, <1>9, <1>10, <1>11, <1>12, <1>13 DEF Next

(* Only a handler that has come to its end completes a webhook job.        *)
LEMMA CompletedSteps ==
    ASSUME PipelineTypes, [Next]_vars, NEW x \in JobId,
           job'[x].state = "completed", job[x].state # "completed"
    PROVE  \E w \in Worker : worker[w].at = "finish" /\ worker[w].job = x
<1>1. job \in [JobId -> OwnedJob] /\ worker \in [Worker -> WorkerState] /\ job'[x] # job[x]
  BY DEF PipelineTypes, HandsFit
<1>2. \A j \in OwnedJob :
        /\ Bull!Added(j).state = "completed" => j.state = "completed"
        /\ Bull!Stalled(j).state # "completed" /\ Bull!Absent.state # "completed"
        /\ \A w : Bull!Taken(j, w).state # "completed"
        /\ \A w, n : Bull!Failed(j, w, n).state = "completed" => j.state = "completed"
        /\ \A w : Bull!RateLimited(j, w).state = "completed" => j.state = "completed"
  BY DEF Bull!Added, Bull!Stalled, Bull!Absent, Bull!Taken, Bull!Failed, Bull!RateLimited,
     OwnedJob, Bull!Job
<1>3. \A id \in JobId : job' # [job EXCEPT ![id] = Bull!Added(@)]
  BY <1>1, <1>2
<1>4. ASSUME NEW e \in Event, Deliver(e) PROVE FALSE
  BY <1>3, <1>4, JobIds DEF Deliver
<1>5. ASSUME NEW id \in JobId, Evict(id) \/ Recover(id) \/ LoseLock(id) PROVE FALSE
  BY <1>1, <1>2, <1>5 DEF Evict, Recover, LoseLock
<1>6. ASSUME NEW w \in Worker, NEW id \in JobId, Take(w, id) PROVE FALSE
  BY <1>1, <1>2, <1>6 DEF Take
<1>7. ASSUME NEW w \in Worker, Settle(w) PROVE worker[w].at = "finish" /\ worker[w].job = x
  <2>1. worker[w].job = x
    BY <1>1, <1>7 DEF Settle
  <2>2. \/ worker[w].at = "finish"
        \/ job'[x] = Bull!Failed(job[x], w, Attempts(x))
        \/ job'[x] = Bull!RateLimited(job[x], w)
    BY <1>1, <1>7, <2>1 DEF Settle, Settling, Awaits
  <2>3. QED
    BY <1>1, <1>2, <2>1, <2>2
<1>8. ASSUME NEW w \in Worker, HandOff(w) \/ EnqueueReply(w) PROVE FALSE
  <2>1. EventOf(w) \in Event /\ (HandOff(w) => worker[w].rule \in Rule)
    BY <1>8, InHandJob
       DEF PipelineTypes, HandsFit, HandOff, EnqueueReply, Awaits, InHand, EventOf
  <2>2. \/ job' = job
        \/ \E id \in JobId : job' = [job EXCEPT ![id] = Bull!Added(@)]
    BY <1>8, <2>1, JobIds DEF HandOff, EnqueueReply
  <2>3. QED
    BY <1>1, <1>3, <2>2
<1>9. ASSUME NEW w \in Worker,
             Quiet(w) \/ RecordProcessed(w) \/ MarkProcessed(w) \/ SaveEmail(w) \/ Crash(w)
      PROVE  FALSE
  BY <1>1, <1>8, <1>9, QuietFrame DEF RecordProcessed, MarkProcessed, SaveEmail, Crash
<1>10. Environment \/ UNCHANGED vars => job' = job
  BY DEF Environment, ChangeAccount, SetOrgActive, CaptureLapses, ChangeSubscription,
     ChangeRule, vars
<1>11. ASSUME NEW w \in Worker, Progress(w) \/ ExecutionFault(w) \/ Throw(w) PROVE Settle(w)
  BY <1>8, <1>9, <1>11 DEF Quiet
<1>12. QED
  BY <1>1, <1>4, <1>5, <1>6, <1>7, <1>9, <1>10, <1>11 DEF Next

EmailLeft == \E answer \in Event : Kind[answer].email /\ ledger[answer].outcome = "lead_capture"

(* Inductive, with Claims and LocksHeld: a webhook job is completed only   *)
(* once its event is settled; and, while nothing has failed, a match that  *)
(* is not handed over and a STOP that does not hold yet are in the hands   *)
(* of a handler.                                                           *)
Settled(e) ==
    /\ job[WebhookJob(e)].state = "completed" => ledger[e].outcome # "none"
    /\ faults = 0 /\ ledger[e].outcome = "matched" /\ handed[e] = <<>> =>
         \E w \in Worker : Handing(w) /\ EventOf(w) = e
    /\ faults = 0 /\ ledger[e].outcome = "opted_out" =>
         \/ contact = "unsubscribed"
         \/ EmailLeft
         \/ \E w \in Worker : worker[w].at = "unsubscribe" /\ EventOf(w) = e

LEMMA SettledStep ==
    ASSUME PipelineTypes, Claims, [Next]_vars, NEW e \in Event, Settled(e)
    PROVE  Settled(e)'
<1>1. /\ worker \in [Worker -> WorkerState]
      /\ \A w \in Worker : InHand(worker[w]) /\ Lawful(w)
      /\ \A d \in Event : HandedFits(d)
  BY DEF PipelineTypes, HandsFit, Claims
<1>2. \A d \in Event : /\ ledger'[d].outcome = "none" => ledger[d].outcome = "none"
                       /\ ledger[d].outcome \in {"lead_capture", "opted_out"}
                            => ledger'[d].outcome = ledger[d].outcome
                       /\ ledger'[d].outcome # ledger[d].outcome /\ ledger'[d].outcome \in {"matched", "opted_out"}
                            => \E w \in Worker : RecordProcessed(w) /\ EventOf(w) = d
                                                 /\ ledger[d].outcome = "none"
  <2>1. ASSUME NEW d \in Event, NEW w \in Worker, MarkProcessed(w), EventOf(w) = d
        PROVE  ledger[d].outcome \notin {"lead_capture", "opted_out"}
    BY <1>1, <2>1, MarkClaims DEF HandedFits
  <2>2. QED
    BY <2>1, LedgerSteps
<1>3. job'[WebhookJob(e)].state = "completed" => ledger'[e].outcome # "none"
  <2>1. ASSUME job'[WebhookJob(e)].state = "completed", job[WebhookJob(e)].state # "completed"
        PROVE  ledger[e].outcome # "none"
    <3>1. PICK w \in Worker : worker[w].at = "finish" /\ worker[w].job = WebhookJob(e)
      BY <2>1, CompletedSteps, JobIds
    <3>2. QED
      BY <1>1, <3>1 DEF Lawful, EventOf, WebhookJob
  <2>2. QED
    BY <1>2, <2>1 DEF Settled
<1>4. ASSUME NEW w \in Worker, RecordProcessed(w), EventOf(w) = e, ledger[e].outcome = "none"
      PROVE  /\ EventOf(w)' = e /\ worker'[w].at = AfterRecord(worker[w].note)
             /\ ledger'[e].outcome = worker[w].note
  <2>1. PICK row : row = [outcome |-> worker[w].note, rule |-> worker[w].rule, sent |-> FALSE]
    OBVIOUS
  <2>2. ledger' = [ledger EXCEPT ![e] = row]
    BY <1>4, <2>1 DEF RecordProcessed
  <2>3. ledger'[e].outcome = worker[w].note
    BY <2>1, <2>2 DEF PipelineTypes, RowsTyped
  <2>4. PICK step : step = AfterRecord(worker[w].note)
    OBVIOUS
  <2>5. Goto(w, step) /\ step \in Step
    BY <1>4, <2>4 DEF RecordProcessed, AfterRecord, Step, WebhookStep, Settling
  <2>6. QED
    BY <1>1, <1>4, <2>3, <2>4, <2>5, GotoMoves DEF Moves, EventOf
<1>5. ASSUME faults' = 0, ledger'[e].outcome = "matched", handed'[e] = <<>>
      PROVE  \E w \in Worker : Handing(w)' /\ EventOf(w)' = e
  <2>1. CASE ledger[e].outcome # "matched"
    <3>1. PICK w \in Worker : RecordProcessed(w) /\ EventOf(w) = e /\ ledger[e].outcome = "none"
      BY <1>2, <1>5, <2>1
    <3>2. worker'[w].at = "contact" /\ EventOf(w)' = e
      BY <1>4, <1>5, <3>1 DEF AfterRecord
    <3>3. QED
      BY <3>2 DEF Handing
  <2>2. CASE ledger[e].outcome = "matched"
    <3>1. \A w \in Worker : HandOff(w) => EventOf(w) # e
      <4>1. ASSUME NEW w \in Worker, HandOff(w), EventOf(w) = e PROVE FALSE
        <5>1. handed' = [handed EXCEPT ![e] = <<ledger[e].rule>>]
          BY <4>1, HandOffClaims
        <5>2. handed'[e] # <<>>
          BY <5>1 DEF PipelineTypes, RowsTyped
        <5>3. QED
          BY <1>5, <5>2
      <4>2. QED
        BY <4>1
    <3>2. handed[e] = <<>>
      <4>1. CASE \E w \in Worker : HandOff(w)
        <5>1. PICK w \in Worker : HandOff(w)
          BY <4>1
        <5>2. handed' = [handed EXCEPT ![EventOf(w)] = <<ledger[EventOf(w)].rule>>]
          BY <5>1, HandOffClaims
        <5>3. handed'[e] = handed[e]
          BY <3>1, <5>1, <5>2 DEF PipelineTypes, RowsTyped
        <5>4. QED
          BY <1>5, <5>3
      <4>2. CASE ~ \E w \in Worker : HandOff(w)
        BY <1>5, <4>2, ClaimSteps DEF RecordProcessed, MarkProcessed, outVars
      <4>3. QED
        BY <4>1, <4>2
    <3>3. faults = 0
      BY <1>5, HistorySteps
    <3>4. PICK w \in Worker : Handing(w) /\ EventOf(w) = e
      BY <2>2, <3>2, <3>3 DEF Settled
    <3>5. \/ worker'[w].at = worker[w].at /\ worker'[w].job = worker[w].job
          \/ WebhookProcessingStep(w) \/ ExecutionProgress(w)
      BY <1>5, <3>4, UndisturbedSteps DEF Handing, Settling
    <3>6. CASE worker'[w].at = worker[w].at /\ worker'[w].job = worker[w].job
      BY <3>4, <3>6 DEF Handing, EventOf
    <3>7. CASE WebhookProcessingStep(w) \/ ExecutionProgress(w)
      <4>1. UpsertContact(w)
        BY <3>1, <3>4, <3>7 DEF Handing, WebhookProcessingStep, ExecutionProgress, Dedup, Resolve,
           FindActiveCapture, MatchRules, RecordProcessed, Unsubscribe, HandOff, ReadReplyCopy,
           SaveEmail, CompleteCapture, CountAttempt, EnqueueReply, LoadRule, CheckConsent,
           CheckContactCap, GetDmQuota, IncrementDmUsage, DecrementDmUsage, SendDm,
           OpenLeadCapture, MarkProcessed, FlagAccount, FindNotice, CreateNotice, LoadAccount,
           GetReplyPeriod, SendReply, ChargeReply, Awaits
      <4>2. Moves(w, "handoff")
        BY <1>1, <4>1, GotoMoves DEF UpsertContact, Step, WebhookStep
      <4>3. QED
        BY <3>4, <4>2 DEF Moves, Handing, EventOf
    <3>8. QED
      BY <3>5, <3>6, <3>7
  <2>3. QED
    BY <2>1, <2>2
<1>6. ASSUME faults' = 0, ledger'[e].outcome = "opted_out"
      PROVE  \/ contact' = "unsubscribed"
             \/ EmailLeft'
             \/ \E w \in Worker : worker'[w].at = "unsubscribe" /\ EventOf(w)' = e
  <2>1. CASE ledger[e].outcome # "opted_out"
    <3>1. PICK w \in Worker : RecordProcessed(w) /\ EventOf(w) = e /\ ledger[e].outcome = "none"
      BY <1>2, <1>6, <2>1
    <3>2. QED
      BY <1>4, <1>6, <3>1 DEF AfterRecord
  <2>2. CASE ledger[e].outcome = "opted_out"
    <3>1. faults = 0
      BY <1>6, HistorySteps
    <3>2. CASE contact = "unsubscribed"
      <4>1. SUFFICES ASSUME contact' # "unsubscribed" PROVE EmailLeft'
        OBVIOUS
      <4>2. PICK w \in Worker : SaveEmail(w)
        BY <3>2, <4>1, ContactSteps
      <4>3. /\ EventOf(w) \in Event /\ Kind[EventOf(w)].email
            /\ ledger[EventOf(w)].outcome = "lead_capture"
        BY <1>1, <4>2, InHandJob DEF SaveEmail, Awaits, Lawful, Answering, EventOf
      <4>4. QED
        BY <1>2, <4>3 DEF EmailLeft
    <3>3. CASE EmailLeft
      BY <1>2, <3>3 DEF EmailLeft
    <3>4. ASSUME NEW w \in Worker, worker[w].at = "unsubscribe", EventOf(w) = e
          PROVE  \/ contact' = "unsubscribed"
                 \/ worker'[w].at = "unsubscribe" /\ EventOf(w)' = e
      <4>1. \/ worker'[w].at = worker[w].at /\ worker'[w].job = worker[w].job
            \/ WebhookProcessingStep(w) \/ ExecutionProgress(w)
        BY <1>6, <3>4, UndisturbedSteps DEF Settling
      <4>2. CASE WebhookProcessingStep(w) \/ ExecutionProgress(w)
        BY <3>4, <4>2 DEF WebhookProcessingStep, ExecutionProgress, Dedup, Resolve,
           FindActiveCapture, MatchRules, RecordProcessed, Unsubscribe, UpsertContact, HandOff,
           ReadReplyCopy, SaveEmail, CompleteCapture, CountAttempt, EnqueueReply, LoadRule,
           CheckConsent, CheckContactCap, GetDmQuota, IncrementDmUsage, DecrementDmUsage, SendDm,
           OpenLeadCapture, MarkProcessed, FlagAccount, FindNotice, CreateNotice, LoadAccount,
           GetReplyPeriod, SendReply, ChargeReply, Awaits
      <4>3. QED
        BY <3>4, <4>1, <4>2 DEF EventOf
    <3>5. QED
      BY <2>2, <3>1, <3>2, <3>3, <3>4 DEF Settled
  <2>3. QED
    BY <2>1, <2>2
<1>7. QED
  BY <1>3, <1>5, <1>6 DEF Settled, WebhookJob

(* A handler that holds an event's webhook job keeps it from being done.   *)
LEMMA JobInHand ==
    ASSUME PipelineTypes, LocksHeld, faults = 0, NEW e \in Event, NEW w \in Worker,
           worker[w].at \in {"contact", "handoff", "unsubscribe"}, EventOf(w) = e
    PROVE  job[WebhookJob(e)].state # "completed"
<1>1. worker[w].job = WebhookJob(e)
  BY JobIds DEF PipelineTypes, HandsFit, InHand, WebhookStep, EventOf
<1>2. job[WebhookJob(e)].owner \in Worker
  BY <1>1 DEF LocksHeld
<1>3. job[WebhookJob(e)] \in OwnedJob
  BY JobIds DEF PipelineTypes
<1>4. QED
  BY <1>2, <1>3 DEF OwnedJob

LEMMA SettledInvariant == Spec => [](PipelineTypes /\ Claims /\ LocksHeld /\ \A e \in Event : Settled(e))
<1>1. Init => LocksHeld /\ \A e \in Event : Settled(e)
  <2>1. Init => /\ \A w \in Worker : worker[w].at = "idle"
                /\ \A id \in JobId : job[id].owner \notin Worker /\ job[id].state = "absent"
                /\ \A e \in Event : ledger[e].outcome = "none"
    BY PipelineAssumption DEF Init, StateInit, Free, NoRow, Bull!Absent
  <2>2. QED
    BY <2>1, JobIds DEF LocksHeld, Settled
<1>2. /\ PipelineTypes /\ Claims /\ LocksHeld /\ (\A e \in Event : Settled(e)) /\ [Next]_vars
      => LocksHeld' /\ (\A e \in Event : Settled(e))'
  BY LocksStep, SettledStep
<1>3. QED
  BY <1>1, <1>2, ClaimsInvariant, PTL DEF Spec

(* A webhook job is never done before its event is in the ledger, nor,     *)
(* unless something failed, before a matched event was handed to stage 2.  *)
THEOREM DoneMeansSettledTheorem == Spec => []DoneMeansSettled
<1>1. PipelineTypes /\ LocksHeld /\ (\A e \in Event : Settled(e)) => DoneMeansSettled
  <2>1. ASSUME PipelineTypes, LocksHeld, NEW e \in Event, Settled(e),
               job[WebhookJob(e)].state = "completed"
        PROVE  /\ ledger[e].outcome # "none"
               /\ ledger[e].outcome = "matched" => handed[e] # <<>> \/ faults > 0
    <3>1. faults = 0 \/ faults > 0
      BY <2>1, PipelineAssumption DEF PipelineTypes, RowsTyped
    <3>2. faults = 0 => \A w \in Worker : ~ (Handing(w) /\ EventOf(w) = e)
      BY <2>1, JobInHand DEF Handing
    <3>3. QED
      BY <2>1, <3>1, <3>2 DEF Settled
  <2>2. QED
    BY <2>1 DEF DoneMeansSettled
<1>2. QED
  BY <1>1, SettledInvariant, PTL

(* A STOP whose job is done without a fault holds against everything that  *)
(* was in flight and everything that comes after, but an email the contact *)
(* leaves in a lead capture.                                               *)
THEOREM StopStaysTheorem == Spec => []StopStays
<1>1. PipelineTypes /\ LocksHeld /\ (\A e \in Event : Settled(e)) => StopStays
  <2>1. ASSUME PipelineTypes, LocksHeld, NEW e \in Event, Settled(e),
               job[WebhookJob(e)].state = "completed", ledger[e].outcome = "opted_out"
        PROVE  contact = "unsubscribed" \/ EmailLeft \/ faults > 0
    <3>1. faults = 0 \/ faults > 0
      BY <2>1, PipelineAssumption DEF PipelineTypes, RowsTyped
    <3>2. faults = 0 => \A w \in Worker : ~ (worker[w].at = "unsubscribe" /\ EventOf(w) = e)
      BY <2>1, JobInHand
    <3>3. QED
      BY <2>1, <3>1, <3>2 DEF Settled
  <2>2. QED
    BY <2>1 DEF StopStays, EmailLeft
<1>2. QED
  BY <1>1, SettledInvariant, PTL

------------------------------------------------------------------------------
(* Every DM is charged                                                     *)

LEMMA UnitsCounted ==
    ASSUME NEW S, NEW f \in [S -> Nat], NEW x \in S, IsFiniteSet(Units(f)),
           NEW g, g = [f EXCEPT ![x] = @ + 1]
    PROVE  IsFiniteSet(Units(g)) /\ Total(f) \in Nat /\ Total(g) = Total(f) + 1
<1>1. \A y \in S : g[y] = IF y = x THEN f[x] + 1 ELSE f[y]
  OBVIOUS
<1>2. \A u : u \in Units(f) <=> \E y \in S : \E i \in 1..f[y] : u = <<y, i>>
  BY DEF Units
<1>3. \A u : u \in Units(g) <=> \E y \in S : \E i \in 1..g[y] : u = <<y, i>>
  BY DEF Units
<1>4. Units(g) = Units(f) \cup {<<x, f[x] + 1>>}
  <2>1. ASSUME NEW u \in Units(g) PROVE u \in Units(f) \cup {<<x, f[x] + 1>>}
    <3>1. PICK y \in S : \E i \in 1..g[y] : u = <<y, i>>
      BY <1>3
    <3>2. PICK i \in 1..g[y] : u = <<y, i>>
      BY <3>1
    <3>3. (i = f[x] + 1 /\ y = x) \/ i \in 1..f[y]
      BY <1>1, <3>2
    <3>4. QED
      BY <1>2, <3>2, <3>3
  <2>2. ASSUME NEW u \in Units(f) PROVE u \in Units(g)
    <3>1. PICK y \in S : \E i \in 1..f[y] : u = <<y, i>>
      BY <1>2
    <3>2. PICK i \in 1..f[y] : u = <<y, i>>
      BY <3>1
    <3>3. i \in 1..g[y]
      BY <1>1, <3>2
    <3>4. QED
      BY <1>3, <3>2, <3>3
  <2>3. <<x, f[x] + 1>> \in Units(g)
    <3>1. PICK i : i = f[x] + 1
      OBVIOUS
    <3>2. i \in 1..g[x]
      BY <1>1, <3>1
    <3>3. QED
      BY <1>3, <3>1, <3>2
  <2>4. QED
    BY <2>1, <2>2, <2>3
<1>5. <<x, f[x] + 1>> \notin Units(f)
  <2>1. ASSUME NEW y \in S, NEW i \in 1..f[y], <<x, f[x] + 1>> = <<y, i>> PROVE FALSE
    BY <2>1
  <2>2. QED
    BY <1>2, <2>1
<1>6. PICK u : u = <<x, f[x] + 1>>
  OBVIOUS
<1>7. /\ IsFiniteSet(Units(f) \cup {u})
      /\ Cardinality(Units(f) \cup {u}) = Cardinality(Units(f)) + 1
      /\ Cardinality(Units(f)) \in Nat
  BY <1>5, <1>6, FS_AddElement, FS_CardinalityType
<1>8. QED
  BY <1>4, <1>6, <1>7 DEF Total

(* The books of the quota only grow.                                       *)
LEMMA ChargesGrow ==
    ASSUME PipelineTypes, [Next]_vars, IsFiniteSet(Units(sent)), IsFiniteSet(Units(replies))
    PROVE  /\ Total(sent) \in Nat /\ Total(sent)' \in Nat /\ Total(sent)' >= Total(sent)
           /\ Total(replies) \in Nat /\ Total(replies)' \in Nat /\ Total(replies)' >= Total(replies)
           /\ IsFiniteSet(Units(sent)') /\ IsFiniteSet(Units(replies)')
           /\ \A w \in Worker : /\ Keep(w) => Total(sent)' = Total(sent) + 1
                                /\ Charge(w) => Total(replies)' = Total(replies) + 1
<1>1. /\ sent \in [Period -> Nat] /\ replies \in [Period -> Nat]
      /\ \A w \in Worker : sender[w].at # "idle" => sender[w].period \in Period
  BY DEF PipelineTypes, QuotaTypeOK, Worker
<1>2. Total(sent) \in Nat /\ Total(replies) \in Nat
  BY FS_CardinalityType DEF Total
<1>3. /\ sent' = sent \/ \E w \in Worker : Keep(w)
      /\ replies' = replies \/ \E w \in Worker : Charge(w)
  BY QuotaStep DEF QuotaNext, ChangePlan, ReadQuota, Reserve, Release, Keep, SendUncapped,
     Charge, Abandon, quotaVars, quotaHistory, Worker
<1>4. ASSUME NEW w \in Worker, Keep(w)
      PROVE  Total(sent)' = Total(sent) + 1 /\ IsFiniteSet(Units(sent)')
  <2>1. sender[w].period \in Period /\ sent' = [sent EXCEPT ![sender[w].period] = @ + 1]
    BY <1>1, <1>4 DEF Keep
  <2>2. IsFiniteSet(Units(sent')) /\ Total(sent') = Total(sent) + 1
    BY <1>1, <2>1, UnitsCounted
  <2>3. QED
    BY <2>2 DEF Total, Units
<1>5. ASSUME NEW w \in Worker, Charge(w)
      PROVE  Total(replies)' = Total(replies) + 1 /\ IsFiniteSet(Units(replies)')
  <2>1. sender[w].period \in Period /\ replies' = [replies EXCEPT ![sender[w].period] = @ + 1]
    BY <1>1, <1>5 DEF Charge
  <2>2. IsFiniteSet(Units(replies')) /\ Total(replies') = Total(replies) + 1
    BY <1>1, <2>1, UnitsCounted
  <2>3. QED
    BY <2>2 DEF Total, Units
<1>6. sent' = sent => Total(sent)' = Total(sent) /\ IsFiniteSet(Units(sent)')
  BY DEF Total, Units
<1>7. replies' = replies => Total(replies)' = Total(replies) /\ IsFiniteSet(Units(replies)')
  BY DEF Total, Units
<1>8. QED
  BY <1>2, <1>3, <1>4, <1>5, <1>6, <1>7

(* A handler with a message to charge gets it by sending it, and loses it  *)
(* by charging it or by a fault.                                           *)
Flying(w) == Booking(worker[w]) \/ worker[w].at = "charge"

LEMMA FlightSteps ==
    ASSUME PipelineTypes, [Next]_vars, NEW w \in Worker, ~ (Flying(w)' <=> Flying(w))
    PROVE  /\ Aside(w)
           /\ \/ SendDm(w) \/ SendReply(w) \/ ChargeReply(w)
              \/ MarkProcessed(w) /\ Keep(w)
              \/ Fault
<1>1. worker \in [Worker -> WorkerState] /\ InHand(worker[w])
  BY DEF PipelineTypes, HandsFit
<1>2. worker'[w] # worker[w]
  BY DEF Flying
<1>3. ASSUME NEW v \in Worker, SaveEmail(v) PROVE FALSE
  <2>1. worker[v].at = "email"
    BY <1>3 DEF SaveEmail, Awaits
  <2>2. QED
    BY <1>1, <1>3, <2>1, EmailSaved DEF Flying, Booking
<1>4. ASSUME NEW v \in Worker, WebhookProcessingStep(v) \/ ExecutionProgress(v) \/ ExecutionFault(v)
      PROVE  v = w /\ \E step \in Step : Onward(w, step)
  BY <1>2, <1>3, <1>4, WebhookMoves, ExecutionMoves DEF Onward, Moves, Aside
<1>5. ASSUME NEW v \in Worker, Throw(v) \/ Crash(v) PROVE Fault /\ v = w /\ Aside(w)
  BY <1>1, <1>2, <1>5, ThrowMoves, HandlerEnds DEF Throw, Crash, Onward, Moves, Aside
<1>6. ASSUME NEW v \in Worker, Settle(v) \/ \E id \in JobId : Take(v, id) PROVE FALSE
  <2>1. v = w
    BY <1>1, <1>2, <1>6, HandlerEnds, HandlerStarts DEF Aside
  <2>2. worker[w].at \in Settling \cup {"idle"}
    BY <1>6, <2>1 DEF Settle, Take, Awaits
  <2>3. worker'[w].at \in {"idle", "dedup", "load", "account"}
    BY <1>1, <1>6, <2>1, HandlerEnds, HandlerStarts DEF Free
  <2>4. QED
    BY <2>2, <2>3 DEF Flying, Booking, Settling
<1>7. ASSUME WebhookProcessingStep(w) \/ ExecutionProgress(w) \/ ExecutionFault(w)
      PROVE  \/ SendDm(w) \/ SendReply(w) \/ ChargeReply(w)
             \/ MarkProcessed(w) /\ Keep(w)
             \/ Fault
  <2>1. PICK step \in Step : Onward(w, step)
    BY <1>4, <1>7
  <2>2. SUFFICES ASSUME ~ Fault
                 PROVE  \/ SendDm(w) \/ SendReply(w) \/ ChargeReply(w)
                        \/ MarkProcessed(w) /\ Keep(w)
    OBVIOUS
  <2>3. worker[w].at \in {"send", "replySend", "charge", "mark"}
    BY <1>1, <2>1, <2>2 DEF Onward, Follows, Moves, Flying, Booking, InHand
  <2>4. worker[w].at = "mark" => worker[w].note = "dm_sent"
    BY <2>1, <2>3 DEF Onward, Follows, Moves, Flying, Booking
  <2>5. ~ ExecutionFault(w)
    BY <2>2 DEF ExecutionFault, SendDmFails, SendReplyFails
  <2>6. SendDm(w) \/ SendReply(w) \/ ChargeReply(w) \/ MarkProcessed(w)
    BY <1>7, <2>3, <2>5 DEF WebhookProcessingStep, ExecutionProgress,
       Dedup, Resolve, FindActiveCapture, MatchRules, RecordProcessed, Unsubscribe, UpsertContact,
       HandOff, ReadReplyCopy, SaveEmail, CompleteCapture, CountAttempt, EnqueueReply, LoadRule,
       CheckConsent, CheckContactCap, GetDmQuota, IncrementDmUsage, DecrementDmUsage,
       OpenLeadCapture, FlagAccount, FindNotice, CreateNotice, LoadAccount, GetReplyPeriod, Awaits
  <2>7. QED
    BY <2>4, <2>6 DEF MarkProcessed, Awaits
<1>8. ASSUME NEW id \in JobId, Evict(id) \/ Recover(id) \/ LoseLock(id) PROVE worker' = worker
  BY <1>8 DEF Evict, Recover, LoseLock
<1>9. ASSUME NEW e \in Event, Deliver(e) PROVE worker' = worker
  BY <1>9 DEF Deliver
<1>10. Environment \/ UNCHANGED vars => worker' = worker
  BY DEF Environment, ChangeAccount, SetOrgActive, CaptureLapses, ChangeSubscription,
     ChangeRule, vars
<1>11. QED
  BY <1>2, <1>4, <1>5, <1>6, <1>7, <1>8, <1>9, <1>10 DEF Next, Progress, Onward, Moves

(* Lead replies reach the contact only by the two outcomes of their send.  *)
LEMMA RepliedSteps ==
    ASSUME [Next]_vars
    PROVE  replied' = replied \/ \E w \in Worker : SendReply(w) \/ SendReplyFails(w)
<1> USE DEF outVars
<1>1. ASSUME NEW w \in Worker, Progress(w), ~ SendReply(w) PROVE replied' = replied
  BY <1>1 DEF Progress, WebhookProcessingStep, ExecutionProgress, Dedup, Resolve,
     FindActiveCapture, MatchRules, RecordProcessed, Unsubscribe, UpsertContact, HandOff,
     ReadReplyCopy, SaveEmail, CompleteCapture, CountAttempt, EnqueueReply, LoadRule,
     CheckConsent, CheckContactCap, GetDmQuota, IncrementDmUsage, DecrementDmUsage, SendDm,
     OpenLeadCapture, MarkProcessed, FlagAccount, FindNotice, CreateNotice, LoadAccount,
     GetReplyPeriod, ChargeReply, Settle
<1>2. ASSUME NEW w \in Worker, ExecutionFault(w) \/ Throw(w) \/ Crash(w), ~ SendReplyFails(w)
      PROVE  replied' = replied
  BY <1>2 DEF ExecutionFault, SendDmFails, Throw, Crash
<1>3. ASSUME NEW w \in Worker, NEW id \in JobId, Take(w, id) PROVE replied' = replied
  BY <1>3 DEF Take
<1>4. ASSUME NEW id \in JobId, Evict(id) \/ Recover(id) \/ LoseLock(id) PROVE replied' = replied
  BY <1>4 DEF Evict, Recover, LoseLock
<1>5. ASSUME NEW e \in Event, Deliver(e) PROVE replied' = replied
  BY <1>5 DEF Deliver
<1>6. Environment \/ UNCHANGED vars => replied' = replied
  BY DEF Environment, ChangeAccount, SetOrgActive, CaptureLapses, ChangeSubscription,
     ChangeRule, vars
<1>7. QED
  BY <1>1, <1>2, <1>3, <1>4, <1>5, <1>6 DEF Next

(* Inductive: the books are finite and cover what was sent.                *)
ChargesCover ==
    /\ IsFiniteSet(Units(delivered)) /\ IsFiniteSet(Units(replied))
    /\ IsFiniteSet(Units(sent)) /\ IsFiniteSet(Units(replies))
    /\ EveryDmCharged

LEMMA InFlightFinite ==
    /\ \A w : w \in InFlight <=> w \in Worker /\ Flying(w)
    /\ \A w : w \in InFlight' <=> w \in Worker /\ Flying(w)'
    /\ IsFiniteSet(InFlight) /\ Cardinality(InFlight) \in Nat
    /\ IsFiniteSet(InFlight') /\ Cardinality(InFlight') \in Nat
<1>1. /\ \A w : w \in InFlight <=> w \in Worker /\ Flying(w)
      /\ \A w : w \in InFlight' <=> w \in Worker /\ Flying(w)'
  BY DEF InFlight, Flying, Booking, Awaits
<1>2. IsFiniteSet(Worker) /\ InFlight \in SUBSET Worker /\ InFlight' \in SUBSET Worker
  BY <1>1, QuotaAssumption DEF Worker
<1>3. QED
  BY <1>1, <1>2, FS_Subset, FS_CardinalityType

(* How many messages are in flight, by who takes off and who lands.        *)
LEMMA InFlightCounted ==
    ASSUME NEW w \in Worker, Aside(w)
    PROVE  /\ ~ Flying(w) /\ Flying(w)' => Cardinality(InFlight') >= Cardinality(InFlight) + 1
           /\ Cardinality(InFlight') >= Cardinality(InFlight) - 1
           /\ ~ Flying(w) => Cardinality(InFlight') >= Cardinality(InFlight)
<1>1. \A v \in Worker \ {w} : Flying(v)' <=> Flying(v)
  BY DEF Aside, Flying, Booking
<1>2. /\ ~ Flying(w) /\ Flying(w)' => w \notin InFlight /\ InFlight \cup {w} \subseteq InFlight'
      /\ InFlight \ {w} \subseteq InFlight'
      /\ ~ Flying(w) => InFlight \subseteq InFlight'
  BY <1>1, InFlightFinite
<1>3. \A S : S \subseteq InFlight' => IsFiniteSet(S) /\ Cardinality(S) <= Cardinality(InFlight')
  BY InFlightFinite, FS_Subset
<1>4. /\ Cardinality(InFlight \ {w}) >= Cardinality(InFlight) - 1
      /\ w \notin InFlight => Cardinality(InFlight \cup {w}) = Cardinality(InFlight) + 1
  <2>1. IsFiniteSet(InFlight) /\ Cardinality(InFlight) \in Nat
    BY InFlightFinite
  <2>2. Cardinality(InFlight \ {w}) = IF w \in InFlight THEN Cardinality(InFlight) - 1
                                     ELSE Cardinality(InFlight)
    BY <2>1, FS_RemoveElement
  <2>3. w \notin InFlight => Cardinality(InFlight \cup {w}) = Cardinality(InFlight) + 1
    BY <2>1, FS_AddElement
  <2>4. QED
    BY <2>1, <2>2, <2>3
<1>5. /\ Cardinality(InFlight) \in Nat /\ Cardinality(InFlight') \in Nat
      /\ Cardinality(InFlight \ {w}) \in Nat
  BY InFlightFinite, FS_RemoveElement, FS_CardinalityType
<1>6. Cardinality(InFlight') >= Cardinality(InFlight) - 1
  BY <1>2, <1>3, <1>4, <1>5
<1>7. ~ Flying(w) /\ Flying(w)' => Cardinality(InFlight') >= Cardinality(InFlight) + 1
  BY <1>2, <1>3, <1>4, <1>5
<1>8. ~ Flying(w) => Cardinality(InFlight') >= Cardinality(InFlight)
  BY <1>2, <1>3, <1>5
<1>9. QED
  BY <1>6, <1>7, <1>8

LEMMA ChargesStep ==
    ASSUME PipelineTypes, ChargesCover, [Next]_vars
    PROVE  ChargesCover'
<1> DEFINE d == Total(delivered)
           r == Total(replied)
           c == Total(sent) + Total(replies)
           n == Cardinality(InFlight)
<1>1. /\ worker \in [Worker -> WorkerState]
      /\ \A w \in Worker : InHand(worker[w])
      /\ delivered \in [Event -> Nat] /\ replied \in [Event -> Nat]
  BY DEF PipelineTypes, HandsFit, RowsTyped
<1>2. /\ c \in Nat /\ c' \in Nat /\ c' >= c
      /\ IsFiniteSet(Units(sent)') /\ IsFiniteSet(Units(replies)')
      /\ \A w \in Worker : Keep(w) \/ Charge(w) => c' >= c + 1
  BY ChargesGrow DEF ChargesCover
<1>3. d \in Nat /\ r \in Nat /\ n \in Nat /\ n' \in Nat
  BY InFlightFinite, FS_CardinalityType DEF ChargesCover, Total
<1>4. /\ faults \in Nat /\ faults' \in Nat /\ faults' >= faults
      /\ Fault => faults' = faults + 1
  BY HistorySteps DEF Fault
<1>5. d + r <= c + n + faults
  <2>1. Total(delivered) + Total(replied)
          <= Total(sent) + Total(replies) + Cardinality(InFlight) + faults
    BY DEF ChargesCover, EveryDmCharged
  <2>2. Total(sent) \in Nat /\ Total(replies) \in Nat
    BY FS_CardinalityType DEF ChargesCover, Total
  <2>3. QED
    BY <1>3, <1>4, <2>1, <2>2
<1>6. /\ delivered' = delivered => d' = d /\ IsFiniteSet(Units(delivered)')
      /\ replied' = replied => r' = r /\ IsFiniteSet(Units(replied)')
  BY DEF ChargesCover, Total, Units
<1>7. /\ \A e \in Event : delivered' = [delivered EXCEPT ![e] = @ + 1]
                             => d' = d + 1 /\ IsFiniteSet(Units(delivered)')
      /\ \A e \in Event : replied' = [replied EXCEPT ![e] = @ + 1]
                             => r' = r + 1 /\ IsFiniteSet(Units(replied)')
  <2>1. ASSUME NEW e \in Event, delivered' = [delivered EXCEPT ![e] = @ + 1]
        PROVE  d' = d + 1 /\ IsFiniteSet(Units(delivered)')
    <3>1. IsFiniteSet(Units(delivered')) /\ Total(delivered') = Total(delivered) + 1
      BY <1>1, <2>1, UnitsCounted DEF ChargesCover
    <3>2. QED
      BY <3>1 DEF Total, Units
  <2>2. ASSUME NEW e \in Event, replied' = [replied EXCEPT ![e] = @ + 1]
        PROVE  r' = r + 1 /\ IsFiniteSet(Units(replied)')
    <3>1. IsFiniteSet(Units(replied')) /\ Total(replied') = Total(replied) + 1
      BY <1>1, <2>2, UnitsCounted DEF ChargesCover
    <3>2. QED
      BY <3>1 DEF Total, Units
  <2>3. QED
    BY <2>1, <2>2
<1> HIDE DEF d, r, c, n
<1>8. ASSUME NEW w \in Worker, SendDm(w) \/ SendReply(w) \/ SendDmFails(w) \/ SendReplyFails(w)
      PROVE  /\ d' + r' <= d + r + 1 /\ d' \in Nat /\ r' \in Nat
             /\ IsFiniteSet(Units(delivered)') /\ IsFiniteSet(Units(replied)')
             /\ Aside(w) /\ ~ Flying(w)
             /\ SendDm(w) \/ SendReply(w) => Flying(w)'
             /\ SendDmFails(w) \/ SendReplyFails(w) => Fault
  <2>1. worker[w].at \in {"send", "replySend"} /\ EventOf(w) \in Event
    BY <1>1, <1>8, InHandJob DEF SendDm, SendReply, SendDmFails, SendReplyFails, Awaits, EventOf
  <2>2. \/ delivered' = delivered /\ replied' = replied
        \/ delivered' = [delivered EXCEPT ![EventOf(w)] = @ + 1] /\ replied' = replied
        \/ delivered' = delivered /\ replied' = [replied EXCEPT ![EventOf(w)] = @ + 1]
    BY <1>8 DEF SendDm, SendReply, SendDmFails, SendReplyFails
  <2>3. PICK step \in Step : Onward(w, step)
    BY <1>8, ExecutionMoves DEF ExecutionProgress, ExecutionFault
  <2>4. SendDm(w) => Flying(w)'
    <3>1. SendDm(w) => \E to \in {"open", "mark"} : Write(w, to, "dm_sent")
      BY DEF SendDm
    <3>2. ASSUME NEW to \in {"open", "mark"}, Write(w, to, "dm_sent") PROVE Flying(w)'
      <4>1. Moves(w, to) /\ worker'[w].note = "dm_sent"
        BY <1>1, <3>2, WriteMoves DEF Step, ExecutionStep, Outcome
      <4>2. QED
        BY <4>1 DEF Moves, Flying, Booking
    <3>3. QED
      BY <3>1, <3>2
  <2>5. SendReply(w) => Flying(w)'
    BY <1>1, GotoMoves DEF SendReply, Step, ReplyStep, Moves, Flying
  <2>6. IsFiniteSet(Units(delivered)') /\ IsFiniteSet(Units(replied)')
        /\ d' \in Nat /\ r' \in Nat /\ d' + r' <= d + r + 1
    BY <1>3, <1>6, <1>7, <2>1, <2>2
  <2>7. QED
    BY <2>1, <2>3, <2>4, <2>5, <2>6
       DEF Onward, Moves, Flying, Booking, SendDmFails, SendReplyFails
<1>9. CASE \E w \in Worker : SendDm(w) \/ SendReply(w) \/ SendDmFails(w) \/ SendReplyFails(w)
  <2>1. PICK w \in Worker : SendDm(w) \/ SendReply(w) \/ SendDmFails(w) \/ SendReplyFails(w)
    BY <1>9
  <2>2. (Flying(w)' => n' >= n + 1) /\ n' >= n
    BY <1>8, <2>1, InFlightCounted DEF n
  <2>3. n' >= n + 1 \/ faults' = faults + 1
    BY <1>4, <1>8, <2>1, <2>2
  <2>4. d' + r' <= c' + n' + faults'
    BY <1>2, <1>3, <1>4, <1>5, <1>8, <2>1, <2>2, <2>3
  <2>5. QED
    BY <1>2, <1>8, <2>1, <2>4 DEF ChargesCover, EveryDmCharged, d, r, c, n
<1>10. CASE ~ \E w \in Worker : SendDm(w) \/ SendReply(w) \/ SendDmFails(w) \/ SendReplyFails(w)
  <2>1. delivered' = delivered /\ replied' = replied
    BY <1>10, HistorySteps, RepliedSteps
  <2>2. d' = d /\ r' = r
    BY <1>6, <2>1
  <2>3. /\ n' >= n - 1
        /\ n' >= n \/ c' >= c + 1 \/ faults' = faults + 1
    <3>1. CASE \A w \in Worker : Flying(w)' <=> Flying(w)
      <4>1. InFlight' = InFlight
        BY <3>1, InFlightFinite
      <4>2. n' = n
        BY <4>1 DEF n
      <4>3. QED
        BY <1>2, <1>3, <4>2
    <3>2. ASSUME NEW w \in Worker, ~ (Flying(w)' <=> Flying(w))
          PROVE  n' >= n - 1 /\ (c' >= c + 1 \/ faults' = faults + 1)
      <4>1. /\ Aside(w)
            /\ ChargeReply(w) \/ (MarkProcessed(w) /\ Keep(w)) \/ Fault
        BY <1>10, <3>2, FlightSteps
      <4>2. n' >= n - 1
        BY <4>1, InFlightCounted DEF n
      <4>3. c' >= c + 1 \/ faults' = faults + 1
        BY <1>2, <1>4, <4>1 DEF ChargeReply
      <4>4. QED
        BY <4>2, <4>3
    <3>3. QED
      BY <3>1, <3>2
  <2>4. \A nd, nr, nc, nn, nf, oc, on, of \in Nat :
          /\ nd + nr <= oc + on + of
          /\ nc >= oc /\ nf >= of
          /\ nn >= on - 1
          /\ nn >= on \/ nc >= oc + 1 \/ nf = of + 1
          => nd + nr <= nc + nn + nf
    OBVIOUS
  <2>5. /\ d' \in Nat /\ r' \in Nat /\ c' \in Nat /\ n' \in Nat /\ faults' \in Nat
        /\ c \in Nat /\ n \in Nat /\ faults \in Nat
        /\ d' + r' <= c + n + faults /\ c' >= c /\ faults' >= faults
    BY <1>2, <1>3, <1>4, <1>5, <2>2
  <2>6. d' + r' <= c' + n' + faults'
    BY <2>3, <2>4, <2>5
  <2>7. QED
    BY <1>2, <1>6, <2>1, <2>6 DEF ChargesCover, EveryDmCharged, d, r, c, n
<1>11. QED
  BY <1>9, <1>10

(* Every DM and every lead reply that reached the contact is charged to a  *)
(* month of the organisation, but for those still in flight and one for    *)
(* each fault.                                                             *)
THEOREM ChargedTheorem == Spec => []EveryDmCharged
<1>1. Init => ChargesCover
  <2>1. SUFFICES ASSUME Init PROVE ChargesCover
    OBVIOUS
  <2>2. /\ delivered = [e \in Event |-> 0] /\ replied = [e \in Event |-> 0]
        /\ sent = [p \in Period |-> 0] /\ replies = [p \in Period |-> 0]
        /\ faults = 0
    BY <2>1 DEF Init, StateInit, QuotaInit
  <2>3. Units(delivered) = {} /\ Units(replied) = {} /\ Units(sent) = {} /\ Units(replies) = {}
    BY <2>2 DEF Units
  <2>4. InFlight = {}
    BY <2>1, InFlightFinite DEF Init, StateInit, Free, Flying, Booking
  <2>5. QED
    BY <2>2, <2>3, <2>4, FS_EmptySet DEF ChargesCover, EveryDmCharged, Total
<1>2. PipelineTypes /\ ChargesCover /\ [Next]_vars => ChargesCover'
  BY ChargesStep
<1>3. ChargesCover => EveryDmCharged
  BY DEF ChargesCover
<1>4. QED
  BY <1>1, <1>2, <1>3, TypesInvariant, PTL DEF Spec
------------------------------------------------------------------------------
(* Answers to a lead capture                                               *)

(* A handler that may yet write a count it read, and, once it has claimed  *)
(* its event, one that is about to.                                        *)
Carries(v) == (v.at = "record" /\ v.note = "lead_capture") \/ v.at \in {"copy", "attempt"}
Counting(w) == worker[w].at \in {"copy", "attempt"}

(* Wrong answers that nobody is about to count.                            *)
Answered == {e \in WrongAnswers : \A w \in Worker : Counting(w) => EventOf(w) # e}

(* Inductive: an answer is counted by the one handler that claimed it, and *)
(* neither the row nor any count read from it runs ahead of the answers.   *)
AnswersInv ==
    /\ IsFiniteSet(WrongAnswers)
    /\ capture.attempts <= Cardinality(Answered)
    /\ \A w \in Worker : Carries(worker[w]) => worker[w].attempts <= Cardinality(Answered)
    /\ \A w \in Worker : worker[w].at = "attempt" => ~ Kind[EventOf(w)].email
    /\ \A v, w \in Worker : Counting(v) /\ Counting(w) /\ EventOf(v) = EventOf(w) => v = w

LEMMA InitAnswers == Init => AnswersInv
<1> SUFFICES ASSUME Init PROVE AnswersInv
  OBVIOUS
<1>1. /\ \A w \in Worker : worker[w] = Free
      /\ \A e \in Event : ledger[e].outcome = "none"
      /\ capture.attempts = 0
  BY DEF Init, StateInit, NoCapture, NoRow
<1>2. WrongAnswers = {} /\ Answered = {}
  BY <1>1 DEF WrongAnswers, Answered
<1>3. QED
  BY <1>1, <1>2, FS_EmptySet DEF AnswersInv, Carries, Counting, Free


LEMMA CaptureSteps ==
    ASSUME [Next]_vars
    PROVE  \/ capture' = capture
           \/ CaptureLapses
           \/ \E w \in Worker : CompleteCapture(w) \/ CountAttempt(w) \/ OpenLeadCapture(w)
<1> USE DEF rowVars
<1>1. ASSUME NEW w \in Worker, Progress(w)
      PROVE  capture' = capture \/ CompleteCapture(w) \/ CountAttempt(w) \/ OpenLeadCapture(w)
  BY <1>1 DEF Progress, WebhookProcessingStep, ExecutionProgress, Dedup, Resolve,
     FindActiveCapture, MatchRules, RecordProcessed, Unsubscribe, UpsertContact, HandOff,
     ReadReplyCopy, SaveEmail, EnqueueReply, LoadRule, CheckConsent,
     CheckContactCap, GetDmQuota, IncrementDmUsage, DecrementDmUsage, SendDm,
     MarkProcessed, FlagAccount, FindNotice, CreateNotice, LoadAccount, GetReplyPeriod,
     SendReply, ChargeReply, Settle
<1>2. ASSUME NEW w \in Worker, ExecutionFault(w) \/ Throw(w) \/ Crash(w) PROVE capture' = capture
  BY <1>2 DEF ExecutionFault, SendDmFails, SendReplyFails, Throw, Crash
<1>3. ASSUME NEW id \in JobId, NEW w \in Worker, Take(w, id) PROVE capture' = capture
  BY <1>3 DEF Take
<1>4. ASSUME NEW id \in JobId, Evict(id) \/ Recover(id) \/ LoseLock(id) PROVE capture' = capture
  BY <1>4 DEF Evict, Recover, LoseLock
<1>5. ASSUME NEW e \in Event, Deliver(e) PROVE capture' = capture
  BY <1>5 DEF Deliver
<1>6. Environment => capture' = capture \/ CaptureLapses
  BY DEF Environment, ChangeAccount, SetOrgActive, ChangeSubscription, ChangeRule
<1>7. UNCHANGED vars => capture' = capture
  BY DEF vars
<1>8. QED
  BY <1>1, <1>2, <1>3, <1>4, <1>5, <1>6, <1>7 DEF Next

(* How a handler comes to carry a count, or keeps it.                      *)
LEMMA CarrierSteps ==
    ASSUME PipelineTypes, [Next]_vars, NEW w \in Worker, Carries(worker'[w])
    PROVE  /\ worker'[w].job = worker[w].job
           /\ \/ /\ worker'[w].at = worker[w].at /\ Carries(worker[w])
                 /\ worker'[w].attempts = worker[w].attempts
              \/ /\ worker'[w].at = "record" /\ worker'[w].attempts = capture.attempts
              \/ /\ RecordProcessed(w) /\ ledger[EventOf(w)].outcome = "none"
                 /\ Carries(worker[w])
                 /\ worker'[w].at = "copy" /\ worker'[w].attempts = worker[w].attempts
              \/ /\ worker[w].at = "copy" /\ worker'[w].at = "attempt"
                 /\ worker'[w].attempts = worker[w].attempts
                 /\ ~ Kind[EventOf(w)].email
<1>1. /\ worker \in [Worker -> WorkerState] /\ worker[w].rule \in Rule \cup {NoRule}
      /\ capture \in CaptureRow
  BY DEF PipelineTypes, HandsFit, RowsTyped, WorkerState
<1>2. worker'[w].at \in {"record", "copy", "attempt"}
  BY DEF Carries
<1>3. ASSUME NEW step \in Step, Goto(w, step) PROVE step \in {"record", "copy", "attempt"}
  BY <1>1, <1>2, <1>3, GotoMoves DEF Moves
<1>4. CASE Dedup(w) \/ Unsubscribe(w) \/ UpsertContact(w) \/ HandOff(w) \/ CompleteCapture(w)
           \/ CountAttempt(w) \/ EnqueueReply(w)
  <2>1. \E step \in {"resolve", "finish", "handoff", "reply"} : Goto(w, step)
    BY <1>4 DEF Dedup, Unsubscribe, UpsertContact, HandOff, CompleteCapture, CountAttempt,
       EnqueueReply
  <2>2. QED
    BY <1>3, <2>1 DEF Step, WebhookStep, Settling
<1>5. CASE Resolve(w)
  <2>1. ASSUME NEW step \in {"capture", "rules"}, Goto(w, step) PROVE FALSE
    BY <1>3, <2>1 DEF Step, WebhookStep
  <2>2. ASSUME NEW note \in Outcome \ {"lead_capture"}, Write(w, "record", note) PROVE FALSE
    <3>1. worker'[w].at = "record" /\ worker'[w].note = note
      BY <1>1, <2>2, WriteMoves DEF Step, WebhookStep, Moves
    <3>2. QED
      BY <2>2, <3>1 DEF Carries
  <2>3. {Refusal(EventOf(w)), "opted_out"} \subseteq Outcome \ {"lead_capture"}
    BY DEF Refusal, Outcome
  <2>4. QED
    BY <1>5, <2>1, <2>2, <2>3 DEF Resolve
<1>6. CASE FindActiveCapture(w)
  BY <1>1, <1>2, <1>6, CaptureFound DEF Moves
<1>7. CASE MatchRules(w)
  <2>1. EventOf(w) \in Event
    BY <1>7, InHandJob DEF MatchRules, Awaits, PipelineTypes, HandsFit, EventOf
  <2>2. QED
    BY <1>1, <1>7, <2>1, RuleMatched DEF Moves, Carries
<1>8. CASE RecordProcessed(w)
  <2>1. PICK step \in {"unsubscribe", "copy", "contact", "finish"} :
          /\ Goto(w, step)
          /\ step = "copy" => /\ worker[w].at = "record" /\ worker[w].note = "lead_capture"
                              /\ ledger[EventOf(w)].outcome = "none"
    BY <1>8 DEF RecordProcessed, AfterRecord, Awaits
  <2>2. step = "copy" /\ Moves(w, step) /\ worker'[w].attempts = worker[w].attempts
    BY <1>1, <1>3, <2>1, GotoMoves DEF Step, WebhookStep, Settling
  <2>3. QED
    BY <1>8, <2>1, <2>2 DEF Moves, Carries
<1>9. CASE ReadReplyCopy(w)
  BY <1>1, <1>2, <1>9, CopyRead DEF ReadReplyCopy, Awaits, Moves
<1>10. ASSUME NEW v \in Worker, SaveEmail(v)
       PROVE  /\ worker'[w].at = worker[w].at /\ Carries(worker[w])
              /\ worker'[w].attempts = worker[w].attempts /\ worker'[w].job = worker[w].job
  BY <1>1, <1>2, <1>10, EmailSaved DEF Carries
<1>11. CASE WebhookProcessingStep(w) /\ ~ SaveEmail(w)
  BY <1>4, <1>5, <1>6, <1>7, <1>8, <1>9, <1>11 DEF WebhookProcessingStep
<1>12. ~ (ExecutionProgress(w) \/ ExecutionFault(w))
  <2>1. SUFFICES ASSUME ExecutionProgress(w) \/ ExecutionFault(w) PROVE FALSE
    OBVIOUS
  <2>2. worker[w].at \in ExecutionStep \cup ReplyStep
    BY <2>1 DEF ExecutionProgress, ExecutionFault, LoadRule, CheckConsent, CheckContactCap,
       GetDmQuota, IncrementDmUsage, DecrementDmUsage, SendDm, OpenLeadCapture, MarkProcessed,
       FlagAccount, FindNotice, CreateNotice, LoadAccount, GetReplyPeriod, SendReply,
       ChargeReply, SendDmFails, SendReplyFails, Awaits, ExecutionStep, ReplyStep
  <2>3. PICK step : worker'[w].at = step /\ step \in Follows(worker[w].at) \cup {"rethrow"}
    BY <2>1, ExecutionMoves DEF Onward, Moves
  <2>4. QED
    BY <1>2, <2>2, <2>3 DEF Follows, ExecutionStep, ReplyStep
<1>13. ~ (Throw(w) \/ Settle(w) \/ Crash(w) \/ \E id \in JobId : Take(w, id))
  <2>1. Throw(w) => worker'[w].at \in {"release", "rethrow"}
    BY ThrowMoves DEF Onward, Moves
  <2>2. Settle(w) \/ Crash(w) => worker'[w].at = "idle"
    BY <1>1, HandlerEnds DEF Free
  <2>3. ASSUME NEW id \in JobId, Take(w, id)
        PROVE  worker'[w].at \in {"dedup", "load", "account"}
    BY <1>1, <2>3, HandlerStarts
  <2>4. QED
    BY <1>2, <2>1, <2>2, <2>3
<1>14. CASE worker'[w] = worker[w]
  BY <1>14
<1>15. ASSUME NEW v \in Worker, v # w, ~ SaveEmail(v),
              Progress(v) \/ ExecutionFault(v) \/ Throw(v) \/ Crash(v) \/ \E id \in JobId : Take(v, id)
       PROVE  worker'[w] = worker[w]
  <2>1. Aside(v)
    BY <1>1, <1>15, WebhookMoves, ExecutionMoves, ThrowMoves, HandlerEnds, HandlerStarts
       DEF Progress, Onward, Moves
  <2>2. QED
    BY <1>15, <2>1 DEF Aside
<1>16. ASSUME NEW id \in JobId, Evict(id) \/ Recover(id) \/ LoseLock(id) PROVE worker' = worker
  BY <1>16 DEF Evict, Recover, LoseLock
<1>17. ASSUME NEW e \in Event, Deliver(e) PROVE worker' = worker
  BY <1>17 DEF Deliver
<1>18. Environment \/ UNCHANGED vars => worker' = worker
  BY DEF Environment, ChangeAccount, SetOrgActive, CaptureLapses, ChangeSubscription,
     ChangeRule, vars
<1>19. QED
  BY <1>10, <1>11, <1>12, <1>13, <1>14, <1>15, <1>16, <1>17, <1>18 DEF Next, Progress

(* The ledger gains the one answer that is recorded, and loses none.       *)
LEMMA WrongSteps ==
    ASSUME PipelineTypes, Claims, [Next]_vars
    PROVE  /\ WrongAnswers \subseteq WrongAnswers'
           /\ IsFiniteSet(WrongAnswers) => IsFiniteSet(WrongAnswers')
<1>1. ASSUME NEW e \in WrongAnswers PROVE e \in WrongAnswers'
  <2>1. e \in Event /\ ledger[e].outcome = "lead_capture" /\ ~ Kind[e].email
    BY DEF WrongAnswers
  <2>2. ASSUME NEW w \in Worker, MarkProcessed(w), EventOf(w) = e PROVE FALSE
    <3>1. handed[e] # <<>>
      BY <2>2, MarkClaims
    <3>2. QED
      BY <2>1, <3>1 DEF Claims, HandedFits
  <2>3. ledger'[e] = ledger[e]
    BY <2>1, <2>2, LedgerSteps
  <2>4. QED
    BY <2>1, <2>3 DEF WrongAnswers
<1>2. ASSUME NEW e \in WrongAnswers', e \notin WrongAnswers
      PROVE  \E w \in Worker : RecordProcessed(w) /\ EventOf(w) = e
  BY <1>2, LedgerSteps DEF WrongAnswers
<1>3. ASSUME IsFiniteSet(WrongAnswers) PROVE IsFiniteSet(WrongAnswers')
  <2>1. CASE \E w \in Worker : RecordProcessed(w)
    <3>1. PICK w \in Worker : RecordProcessed(w)
      BY <2>1
    <3>2. \A v \in Worker : RecordProcessed(v) => v = w
      <4>1. worker \in [Worker -> WorkerState]
        BY DEF PipelineTypes, HandsFit
      <4>2. ASSUME NEW v \in Worker, RecordProcessed(v), v # w PROVE FALSE
        <5>1. worker[w].at = "record" /\ worker'[w] = worker[w]
          BY <3>1, <4>1, <4>2 DEF RecordProcessed, Awaits, Goto
        <5>2. PICK step \in {"unsubscribe", "copy", "contact", "finish"} : Goto(w, step)
          BY <3>1 DEF RecordProcessed, AfterRecord
        <5>3. worker'[w].at = step
          BY <4>1, <5>2, GotoMoves DEF Step, WebhookStep, Settling, Moves
        <5>4. QED
          BY <5>1, <5>3
      <4>3. QED
        BY <4>2
    <3>3. WrongAnswers' \in SUBSET (WrongAnswers \cup {EventOf(w)})
      BY <1>2, <3>2
    <3>4. QED
      BY <1>3, <3>3, FS_AddElement, FS_Subset
  <2>2. CASE ~ \E w \in Worker : RecordProcessed(w)
    <3>1. WrongAnswers' = WrongAnswers
      BY <1>1, <1>2, <2>2
    <3>2. QED
      BY <1>3, <3>1
  <2>3. QED
    BY <2>1, <2>2
<1>4. QED
  BY <1>1, <1>3

(* An answer that is accounted for stays so.                               *)
LEMMA AnsweredSteps ==
    ASSUME PipelineTypes, Claims, [Next]_vars
    PROVE  Answered \subseteq Answered'
<1>1. ASSUME NEW e \in Answered, NEW w \in Worker, Counting(w)', EventOf(w)' = e PROVE FALSE
  <2>1. e \in Event /\ ledger[e].outcome = "lead_capture" /\ ~ (Counting(w) /\ EventOf(w) = e)
    BY <1>1 DEF Answered, WrongAnswers
  <2>2. Carries(worker'[w]) /\ worker'[w].at \in {"copy", "attempt"}
    BY <1>1 DEF Counting, Carries
  <2>3. EventOf(w) = e
    BY <1>1, <2>2, CarrierSteps DEF EventOf
  <2>4. Counting(w) \/ ledger[EventOf(w)].outcome = "none"
    BY <2>2, CarrierSteps DEF Counting
  <2>5. QED
    BY <2>1, <2>3, <2>4
<1>2. QED
  BY <1>1, WrongSteps DEF Answered

LEMMA AnswersStep ==
    ASSUME PipelineTypes, Claims, AnswersInv, [Next]_vars
    PROVE  AnswersInv'
<1>1. /\ worker \in [Worker -> WorkerState] /\ capture \in CaptureRow
      /\ \A w \in Worker : worker[w].attempts \in Nat /\ Lawful(w)
  BY DEF PipelineTypes, HandsFit, RowsTyped, WorkerState, Claims
<1>2. IsFiniteSet(WrongAnswers')
  BY WrongSteps DEF AnswersInv
<1>3. /\ IsFiniteSet(Answered) /\ IsFiniteSet(Answered')
      /\ Cardinality(Answered) \in Nat /\ Cardinality(Answered') \in Nat
      /\ Cardinality(Answered) <= Cardinality(Answered')
  <2>1. Answered \in SUBSET WrongAnswers /\ Answered' \in SUBSET WrongAnswers'
    BY DEF Answered
  <2>2. IsFiniteSet(Answered) /\ IsFiniteSet(Answered')
    BY <1>2, <2>1, FS_Subset DEF AnswersInv
  <2>3. QED
    BY <2>2, AnsweredSteps, FS_Subset, FS_CardinalityType
<1>4. ASSUME NEW w \in Worker, CountAttempt(w)
      PROVE  capture'.attempts <= Cardinality(Answered')
  <2>1. PICK e : e = EventOf(w)
    OBVIOUS
  <2>2. /\ worker[w].at = "attempt" /\ Counting(w) /\ Carries(worker[w])
        /\ capture'.attempts = worker[w].attempts + 1
    BY <1>1, <1>4 DEF CountAttempt, Awaits, Counting, Carries, CaptureRow
  <2>3. e \notin Answered
    BY <2>1, <2>2 DEF Answered
  <2>4. e \in Answered'
    <3>1. e \in Event
      BY <2>1, <2>2, InHandJob DEF PipelineTypes, HandsFit, EventOf
    <3>2. e \in WrongAnswers
      BY <1>1, <2>1, <2>2, <3>1 DEF Lawful, Answering, WrongAnswers, AnswersInv
    <3>3. PICK step \in {"reply", "finish"} : Goto(w, step)
      BY <1>4 DEF CountAttempt
    <3>4. Moves(w, step)
      BY <1>1, <3>3, GotoMoves DEF Step, WebhookStep, Settling
    <3>5. ASSUME NEW v \in Worker, Counting(v)' PROVE EventOf(v)' # e
      <4>1. v # w
        BY <3>4, <3>5 DEF Moves, Counting
      <4>2. Counting(v) /\ EventOf(v)' = EventOf(v)
        BY <3>4, <3>5, <4>1 DEF Moves, Aside, Counting, EventOf
      <4>3. QED
        BY <2>1, <2>2, <4>1, <4>2 DEF AnswersInv
    <3>6. QED
      BY <3>2, <3>5, WrongSteps DEF Answered
  <2>5. Cardinality(Answered) + 1 <= Cardinality(Answered')
    <3>1. /\ Answered \cup {e} \in SUBSET Answered'
          /\ Cardinality(Answered \cup {e}) = Cardinality(Answered) + 1
      BY <1>3, <2>3, <2>4, AnsweredSteps, FS_AddElement
    <3>2. Cardinality(Answered \cup {e}) <= Cardinality(Answered')
      BY <1>3, <3>1, FS_Subset
    <3>3. QED
      BY <3>1, <3>2
  <2>6. worker[w].attempts <= Cardinality(Answered)
    BY <2>2 DEF AnswersInv
  <2>7. QED
    BY <1>1, <1>3, <2>2, <2>5, <2>6
<1>5. capture'.attempts <= Cardinality(Answered')
  <2>1. CASE capture'.attempts = capture.attempts
    BY <1>1, <1>3, <2>1 DEF AnswersInv, CaptureRow
  <2>2. CASE \E w \in Worker : OpenLeadCapture(w)
    BY <1>3, <2>2 DEF OpenLeadCapture
  <2>3. CASE CaptureLapses \/ \E w \in Worker : CompleteCapture(w)
    BY <1>1, <2>1, <2>3 DEF CaptureLapses, CompleteCapture, CaptureRow
  <2>4. QED
    BY <1>4, <2>1, <2>2, <2>3, CaptureSteps
<1>6. ASSUME NEW w \in Worker, Carries(worker'[w])
      PROVE  worker'[w].attempts <= Cardinality(Answered')
  <2>1. \/ worker'[w].attempts = worker[w].attempts /\ Carries(worker[w])
        \/ worker'[w].attempts = capture.attempts
    BY <1>6, CarrierSteps DEF Carries
  <2>2. worker'[w].attempts <= Cardinality(Answered) /\ worker'[w].attempts \in Nat
    BY <1>1, <2>1 DEF AnswersInv, CaptureRow
  <2>3. QED
    BY <1>3, <2>2
<1>7. ASSUME NEW w \in Worker, worker'[w].at = "attempt"
      PROVE  ~ Kind[EventOf(w)'].email
  BY <1>7, CarrierSteps DEF Carries, EventOf, AnswersInv
<1>8. ASSUME NEW v \in Worker, NEW w \in Worker, v # w, Counting(v)', Counting(w)'
      PROVE  EventOf(v)' # EventOf(w)'
  <2>1. ASSUME NEW u \in Worker, Counting(u)'
        PROVE  /\ EventOf(u)' = EventOf(u)
               /\ \/ Counting(u)
                  \/ RecordProcessed(u) /\ ledger[EventOf(u)].outcome = "none"
    BY <2>1, CarrierSteps DEF Counting, Carries, EventOf
  <2>2. ASSUME NEW u \in Worker, Counting(u) PROVE ledger[EventOf(u)].outcome = "lead_capture"
    BY <1>1, <2>2 DEF Lawful, Counting, Answering
  <2>3. ~ (RecordProcessed(v) /\ RecordProcessed(w))
    <3>1. ASSUME RecordProcessed(v), RecordProcessed(w) PROVE FALSE
      <4>1. worker[w].at = "record" /\ worker'[w] = worker[w]
        BY <1>1, <1>8, <3>1 DEF RecordProcessed, Awaits, Goto
      <4>2. QED
        BY <1>8, <4>1 DEF Counting
    <3>2. QED
      BY <3>1
  <2>4. QED
    BY <1>8, <2>1, <2>2, <2>3 DEF AnswersInv
<1>9. QED
  BY <1>2, <1>5, <1>6, <1>7, <1>8 DEF AnswersInv

(* No answer costs a contact two attempts: of all the handlers that may    *)
(* take it up, after a redelivery, a retry or an expired lock, the one     *)
(* that creates its ledger row counts it.                                  *)
THEOREM AnswersCountOnceTheorem == Spec => []AnswersCountOnce
<1>1. ASSUME PipelineTypes, AnswersInv PROVE AnswersCountOnce
  <2>1. /\ IsFiniteSet(WrongAnswers) /\ Answered \in SUBSET WrongAnswers
        /\ capture.attempts \in Nat /\ capture.attempts <= Cardinality(Answered)
    BY <1>1 DEF AnswersInv, Answered, PipelineTypes, RowsTyped, CaptureRow
  <2>2. /\ Cardinality(Answered) \in Nat /\ Cardinality(WrongAnswers) \in Nat
        /\ Cardinality(Answered) <= Cardinality(WrongAnswers)
    BY <2>1, FS_Subset, FS_CardinalityType
  <2>3. QED
    BY <2>1, <2>2 DEF AnswersCountOnce
<1>2. Init => AnswersInv
  BY InitAnswers
<1>3. PipelineTypes /\ Claims /\ AnswersInv /\ [Next]_vars => AnswersInv'
  BY AnswersStep
<1>4. QED
  BY <1>1, <1>2, <1>3, ClaimsInvariant, PTL DEF Spec
=============================================================================
