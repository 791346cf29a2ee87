-------------------------- MODULE DmWorkflowsProofs --------------------------
(***************************************************************************)
(* Proofs about DmWorkflows, for any graphs, conversations, workers, plans *)
(* and bounds: what workflows do with the monthly quota, the types of what *)
(* they keep, and the heeding of STOP.                                     *)
(***************************************************************************)
EXTENDS DmWorkflows, DmQuotaProofs, SequenceTheorems

(* The steps of handlers that make no call of usage.ts.                    *)
QuotaUntouched(w) ==
    \/ DispatchProgress(w) \/ WalkProgress(w) \/ Settle(w) \/ SendDmFails(w)
    \/ CheckConsent(w) \/ CheckContactCap(w) \/ FindNotice(w) \/ CreateNotice(w)
    \/ FlagAccount(w) \/ RecordDm(w)

LEMMA UntouchedKeeps ==
    ASSUME NEW w \in Worker, QuotaUntouched(w)
    PROVE  UNCHANGED quotaVars
<1>1. CASE DispatchProgress(w)
  BY <1>1 DEF DispatchProgress, Dedup, Resolve, RecordProcessed, Unsubscribe, FindWaitingRun,
     ExpireRun, AwakenRun, FeedReply, MatchWorkflow, CreateRun, EnqueueRun
<1>2. CASE WalkProgress(w)
  BY <1>2 DEF WalkProgress, LoadRun, LoadAccount, WakeRun, Advance, Pause, BeginDelay,
     ScheduleResume, SaveContactField, ApplyAction, NotifyHandoff, ParkRun, CompleteRun
<1>3. QED
  BY <1>1, <1>2 DEF QuotaUntouched, Settle, SendDmFails, CheckConsent, CheckContactCap,
     FindNotice, CreateNotice, FlagAccount, RecordDm

(* Each step of the workflows is a step of the quota's module, or none.    *)
LEMMA QuotaStep ==
    ASSUME [Next]_vars
    PROVE  [QuotaNext]_quotaVars
<1>1. ASSUME NEW e \in Event, Deliver(e) \/ Evict(e) \/ Recover(e) PROVE UNCHANGED quotaVars
  BY <1>1 DEF Deliver, Evict, Recover
<1>2. ASSUME NEW i \in DOMAIN jobs, RecoverJob(i) PROVE UNCHANGED quotaVars
  BY <1>2 DEF RecoverJob
<1>3. ASSUME NEW w \in Worker, NEW e \in Event, TakeHook(w, e) PROVE UNCHANGED quotaVars
  BY <1>3 DEF TakeHook
<1>4. ASSUME NEW w \in Worker, NEW i \in DOMAIN jobs, TakeJob(w, i) PROVE UNCHANGED quotaVars
  BY <1>4 DEF TakeJob
<1>5. ASSUME NEW w \in Worker,
             \/ DispatchProgress(w) \/ WalkProgress(w) \/ SendProgress(w) \/ Settle(w)
             \/ SendDmFails(w) \/ Throw(w) \/ Crash(w)
      PROVE  [QuotaNext]_quotaVars
  <2>1. CASE QuotaUntouched(w)
    BY <2>1, UntouchedKeeps
  <2>2. CASE GetDmQuota(w)
    BY <2>2 DEF GetDmQuota, QuotaNext, Worker
  <2>3. CASE IncrementDmUsage(w)
    BY <2>3 DEF IncrementDmUsage, QuotaNext, Worker
  <2>4. CASE DecrementDmUsage(w)
    BY <2>4 DEF DecrementDmUsage, QuotaNext, Worker
  <2>5. CASE SendDm(w)
    BY <2>5 DEF SendDm, QuotaNext, Worker
  <2>6. CASE Throw(w) \/ Crash(w)
    BY <2>6 DEF Throw, Crash, LoseSlot, QuotaNext, Worker
  <2>7. QED
    BY <1>5, <2>1, <2>2, <2>3, <2>4, <2>5, <2>6 DEF SendProgress, QuotaUntouched
<1>6. ASSUME NEW r \in DOMAIN runs, StopRun(r) \/ LoseStop(r) \/ WaitLapses(r)
      PROVE  UNCHANGED quotaVars
  BY <1>6 DEF StopRun, LoseStop, WaitLapses
<1>7. ASSUME NEW f \in Workflow, ChangeWorkflow(f) PROVE UNCHANGED quotaVars
  BY <1>7 DEF ChangeWorkflow
<1>8. CASE ChangeTenant
  BY <1>8 DEF ChangeTenant
<1>9. CASE UNCHANGED vars
  BY <1>9 DEF vars
<1>10. QED
  BY <1>1, <1>2, <1>3, <1>4, <1>5, <1>6, <1>7, <1>8, <1>9 DEF Next

(* sendWorkflowDm uses the counter only as the protocol of usage.ts        *)
(* allows, in loops, retries and crashed walks too: the workflows          *)
(* implement the quota's specification.                                    *)
THEOREM WorkflowsUseQuota == Spec => QuotaSpec
<1>1. Init => QuotaInit
  BY DEF Init
<1>2. [Next]_vars => [QuotaNext]_quotaVars
  BY QuotaStep
<1>3. QED
  BY <1>1, <1>2, PTL DEF Spec, QuotaSpec

(* However the walks of runs, their retries and their crashes interleave   *)
(* around the calls of usage.ts, no period is oversold and every unit on   *)
(* its counter has an owner.                                               *)
THEOREM WorkflowsKeepQuota == Spec => [](NeverOversold /\ CounterAccountsForAll)
  BY WorkflowsUseQuota, NeverOversoldTheorem, CounterTheorem, PTL


------------------------------------------------------------------------------
(* What a handler has in hand                                              *)

Step == {"idle"} \cup DispatchStep \cup WalkStep \cup SendStep \cup Settling

(* The walk proper, once the run was loaded.                               *)
OnItsWay == (WalkStep \cup SendStep) \ {"load"}

(* The locals of handler v fit the step it is at.                          *)
InHand(v) ==
    /\ v.at = "idle" => v = Free
    /\ v.at \in DispatchStep => v.job = 0 /\ v.event \in Event
    /\ v.at \in WalkStep \cup SendStep \cup {"throttled"} => v.job \in DOMAIN jobs
    /\ v.at \in Settling => v.job \in DOMAIN jobs \/ (v.job = 0 /\ v.event \in Event)
    /\ v.at \in OnItsWay => v.run \in DOMAIN runs /\ v.graph \in Graph
    /\ v.at \in {"expire", "awaken", "feed", "enqueue"} => v.run \in DOMAIN runs
    /\ v.at = "create" => v.workflow \in Workflow /\ v.graph \in Graph
    /\ v.at \in SendStep => v.node \in Node /\ v.doing # "none"
    /\ v.at \in {"findNotice", "notice"} => v.period \in Period

(* What such a handler holds of the quota.                                 *)
SlotStages(v) ==
    CASE v.at = "reserve" -> {"quoted"}
      [] v.at = "send" -> {"held"}
      [] v.at = "release" -> {"over", "held"}
      [] OTHER -> {"idle"}

HandsFit ==
    /\ worker \in [Worker -> WorkerState]
    /\ \A w \in Worker : InHand(worker[w]) /\ sender[w].at \in SlotStages(worker[w])

(* Only w moves.                                                           *)
Aside(w) ==
    /\ worker' \in [Worker -> WorkerState]
    /\ \A v \in Worker \ {w} : worker'[v] = worker[v]

(* Handler w goes on to a step with the job it has; Stays: on the run and  *)
(* graph it has; Recalls: and with the other locals it has.                *)
Moves(w, step) ==
    /\ Aside(w)
    /\ worker'[w].at = step
    /\ worker'[w].event = worker[w].event
    /\ worker'[w].job = worker[w].job
    /\ worker'[w].stopped = worker[w].stopped

Stays(w) ==
    /\ worker'[w].run = worker[w].run
    /\ worker'[w].graph = worker[w].graph
    /\ worker'[w].loaded = worker[w].loaded

Recalls(w) ==
    /\ worker'[w].node = worker[w].node
    /\ worker'[w].doing = worker[w].doing
    /\ worker'[w].reply = worker[w].reply
    /\ worker'[w].error = worker[w].error
    /\ worker'[w].workflow = worker[w].workflow
    /\ worker'[w].period = worker[w].period

LEMMA GotoMoves ==
    ASSUME worker \in [Worker -> WorkerState], NEW w \in Worker, NEW step \in Step,
           Goto(w, step)
    PROVE  Moves(w, step) /\ Stays(w) /\ Recalls(w) /\ worker'[w].note = worker[w].note
<1> DEFINE x == [worker[w] EXCEPT !.at = step]
<1>1. worker[w] \in WorkerState
  OBVIOUS
<1>2. x \in WorkerState
  BY <1>1 DEF WorkerState, Step
<1>3. /\ x.at = step /\ x.event = worker[w].event /\ x.job = worker[w].job
      /\ x.stopped = worker[w].stopped /\ x.run = worker[w].run /\ x.graph = worker[w].graph
      /\ x.loaded = worker[w].loaded /\ x.node = worker[w].node /\ x.doing = worker[w].doing
      /\ x.reply = worker[w].reply /\ x.error = worker[w].error
      /\ x.workflow = worker[w].workflow /\ x.period = worker[w].period
      /\ x.note = worker[w].note
  BY <1>1 DEF WorkerState
<1>4. worker' = [worker EXCEPT ![w] = x]
  BY DEF Goto
<1> HIDE DEF x
<1>5. QED
  BY <1>2, <1>3, <1>4 DEF Moves, Stays, Recalls, Aside

LEMMA WriteMoves ==
    ASSUME worker \in [Worker -> WorkerState], NEW w \in Worker, NEW note \in Outcome,
           Write(w, note)
    PROVE  Moves(w, "record") /\ Stays(w) /\ worker'[w].note = note
<1> DEFINE x == [worker[w] EXCEPT !.at = "record", !.note = note]
<1>1. worker[w] \in WorkerState
  OBVIOUS
<1>2. x \in WorkerState
  BY <1>1 DEF WorkerState, DispatchStep
<1>3. /\ x.at = "record" /\ x.event = worker[w].event /\ x.job = worker[w].job
      /\ x.stopped = worker[w].stopped /\ x.run = worker[w].run /\ x.graph = worker[w].graph
      /\ x.loaded = worker[w].loaded /\ x.note = note
  BY <1>1 DEF WorkerState
<1>4. worker' = [worker EXCEPT ![w] = x]
  BY DEF Write
<1> HIDE DEF x
<1>5. QED
  BY <1>2, <1>3, <1>4 DEF Moves, Stays, Aside

LEMMA FreeFits == Free \in WorkerState /\ InHand(Free) /\ SlotStages(Free) = {"idle"}
<1>1. Fresh \in Vars
  BY DEF Fresh, Vars
<1>2. QED
  BY <1>1 DEF Free, WorkerState, InHand, SlotStages, DispatchStep, WalkStep, SendStep,
     OnItsWay, Settling, Outcome, RunStatus

------------------------------------------------------------------------------
(* Where a walk arrives                                                    *)

(* The handler counts its arrival at a node; with a reply at hand, a node  *)
(* that waits for one takes it.                                            *)
Arriving(s, n, step) == [s EXCEPT !.at = step, !.node = n, !.steps = @ + 1]

LEMMA Arrival ==
    ASSUME NEW s \in WorkerState, NEW n \in Node \cup {NoNode}, NEW step \in Step
    PROVE  LET x == Arriving(s, n, step) IN
           /\ x \in WorkerState
           /\ x.at = step /\ x.node = n
           /\ x.event = s.event /\ x.job = s.job /\ x.stopped = s.stopped
           /\ x.run = s.run /\ x.graph = s.graph /\ x.loaded = s.loaded
           /\ x.reply = s.reply /\ x.vars = s.vars /\ x.error = s.error
<1>1. PICK steps1 \in Nat : steps1 = s.steps + 1
  BY DEF WorkerState
<1>2. PICK x : x = Arriving(s, n, step)
  OBVIOUS
<1>3. x = [s EXCEPT !.at = step, !.node = n, !.steps = steps1]
  BY <1>1, <1>2 DEF WorkerState, Arriving
<1>4. x \in WorkerState
  BY <1>3 DEF WorkerState, Step
<1>5. /\ x.at = step /\ x.node = n
      /\ x.event = s.event /\ x.job = s.job /\ x.stopped = s.stopped
      /\ x.run = s.run /\ x.graph = s.graph /\ x.loaded = s.loaded
      /\ x.reply = s.reply /\ x.vars = s.vars /\ x.error = s.error
  BY <1>3 DEF WorkerState
<1>6. QED
  BY <1>2, <1>4, <1>5

LEMMA Hearing ==
    ASSUME NEW s \in WorkerState
    PROVE  /\ Heard(s) \in WorkerState
           /\ Heard(s).at = s.at /\ Heard(s).node = s.node
           /\ Heard(s).event = s.event /\ Heard(s).job = s.job /\ Heard(s).stopped = s.stopped
           /\ Heard(s).run = s.run /\ Heard(s).graph = s.graph /\ Heard(s).loaded = s.loaded
           /\ Heard(s).reply = NoEvent /\ Heard(s).error = s.error
<1>1. s.vars \in Vars /\ s.reply \in Event \cup {NoEvent}
  BY DEF WorkerState
<1>2. PICK vars1 \in Vars : vars1 = [s.vars EXCEPT !.reply = s.reply]
  BY <1>1 DEF Vars
<1>3. Heard(s) = [s EXCEPT !.vars = vars1, !.reply = NoEvent]
  BY <1>2 DEF Heard, WorkerState
<1>4. QED
  BY <1>3, ZenonT(60) DEF WorkerState


(* What the body of the walk makes of a node.                              *)
Landing(s, n, t) ==
    /\ t \in WorkerState
    /\ t.event = s.event /\ t.job = s.job /\ t.stopped = s.stopped
    /\ t.run = s.run /\ t.graph = s.graph /\ t.error = s.error
    /\ t.at \in {"complete", "finish", "consent", "delay", "advance", "pause", "save",
                 "setContact", "handoff"}
    /\ t.at = "finish" => Missing(s, n)
    /\ t.at = "consent" => t.node \in Node /\ t.doing # "none"
    /\ \/ t.reply = s.reply /\ Answered(s, n) = answered
       \/ /\ s.reply # NoEvent /\ t.reply = NoEvent
          /\ Answered(s, n) = [answered EXCEPT ![s.reply] = @ + 1]

LEMMA ArriveLands ==
    ASSUME NEW s \in WorkerState, s.graph \in Graph, NEW n \in Node \cup {NoNode}
    PROVE  Landing(s, n, Arrive(s, n))
<1> USE DEF Step, DispatchStep, WalkStep, SendStep, Settling
<1> DEFINE type == Shape[s.graph].type
           Near(step) == Arriving(s, n, step)
<1>1. DOMAIN type \subseteq Node /\ NoNode \notin Node
  BY WorkflowAssumption
<1>2. CASE n = NoNode \/ s.steps >= MaxSteps
  <2>1. Arrive(s, n) = [s EXCEPT !.at = "complete", !.node = n]
    BY <1>2 DEF Arrive
  <2>2. Answered(s, n) = answered
    <3>1. s.steps \in Nat /\ MaxSteps \in Nat
      BY WorkflowAssumption DEF WorkerState
    <3>2. QED
      BY <1>1, <1>2, <3>1 DEF Answered
  <2>3. QED
    BY <2>1, <2>2, ZenonT(60) DEF Landing, WorkerState
<1>3. CASE ~ (n = NoNode \/ s.steps >= MaxSteps) /\ n \notin DOMAIN type
  <2>1. Arrive(s, n) = [s EXCEPT !.at = "finish", !.node = n]
    BY <1>3 DEF Arrive
  <2>2. Missing(s, n)
    <3>1. s.steps \in Nat /\ MaxSteps \in Nat
      BY WorkflowAssumption DEF WorkerState
    <3>2. QED
      BY <1>3, <3>1 DEF Missing
  <2>3. Answered(s, n) = answered
    BY <1>3 DEF Answered
  <2>4. QED
    BY <2>1, <2>2, <2>3, ZenonT(60) DEF Landing, WorkerState
<1>4. CASE ~ (n = NoNode \/ s.steps >= MaxSteps) /\ n \in DOMAIN type
  <2>1. n \in Node /\ s.steps < MaxSteps
    <3>1. s.steps \in Nat /\ MaxSteps \in Nat
      BY WorkflowAssumption DEF WorkerState
    <3>2. QED
      BY <1>1, <1>4, <3>1
  <2>2. ASSUME NEW step \in Step
        PROVE  /\ Near(step) \in WorkerState
               /\ Near(step).at = step /\ Near(step).node = n
               /\ Near(step).event = s.event /\ Near(step).job = s.job
               /\ Near(step).stopped = s.stopped /\ Near(step).run = s.run
               /\ Near(step).graph = s.graph /\ Near(step).reply = s.reply
               /\ Near(step).error = s.error
    BY Arrival
  <2>3. CASE type[n] \in {"END", "DELAY", "SUBSCRIBE", "UNSUBSCRIBE", "ADD_TAG", "HANDOFF"}
             \/ type[n] \notin NodeType \/ type[n] \in {"TRIGGER", "CONDITION"}
             \/ (type[n] = "WAIT_REPLY" /\ s.reply = NoEvent)
    <3>1. \E step \in {"complete", "delay", "setContact", "handoff", "advance", "pause"} :
             Arrive(s, n) = Near(step)
      <4>1. \/ Arrive(s, n) = Near("complete") \/ Arrive(s, n) = Near("delay")
            \/ Arrive(s, n) = Near("setContact") \/ Arrive(s, n) = Near("handoff")
            \/ Arrive(s, n) = Near("advance") \/ Arrive(s, n) = Near("pause")
        BY <1>4, <2>3 DEF Arrive, Arriving, NodeType
      <4>2. QED
        BY <4>1
    <3>2. Answered(s, n) = answered
      BY <2>3 DEF Answered, NodeType
    <3> HIDE DEF Near
    <3>3. QED
      BY <2>2, <3>1, <3>2 DEF Landing
  <2>4. CASE type[n] \in {"SEND_MESSAGE", "SEND_LINK"}
             \/ (type[n] = "COLLECT_INPUT" /\ s.reply = NoEvent)
    <3>1. \E why \in {"message", "link", "prompt"} :
             Arrive(s, n) = [Near("consent") EXCEPT !.doing = why]
      <4>1. \/ Arrive(s, n) = [Near("consent") EXCEPT !.doing = "message"]
            \/ Arrive(s, n) = [Near("consent") EXCEPT !.doing = "link"]
            \/ Arrive(s, n) = [Near("consent") EXCEPT !.doing = "prompt"]
        BY <1>4, <2>4 DEF Arrive, Arriving
      <4>2. QED
        BY <4>1
    <3>2. Answered(s, n) = answered
      BY <2>4 DEF Answered
    <3>3. Near("consent") \in WorkerState
      BY <2>2
    <3> HIDE DEF Near
    <3>4. PICK why \in {"message", "link", "prompt"} :
             Arrive(s, n) = [Near("consent") EXCEPT !.doing = why]
      BY <3>1
    <3>5. LET t == [Near("consent") EXCEPT !.doing = why] IN
          /\ t \in WorkerState
          /\ t.at = "consent" /\ t.node = n /\ t.doing = why
          /\ t.event = s.event /\ t.job = s.job /\ t.stopped = s.stopped
          /\ t.run = s.run /\ t.graph = s.graph /\ t.error = s.error /\ t.reply = s.reply
      BY <2>2, <3>3, SMTT(30) DEF WorkerState
    <3>6. QED
      BY <2>1, <3>2, <3>4, <3>5 DEF Landing
  <2>5. CASE type[n] \in {"WAIT_REPLY", "COLLECT_INPUT"} /\ s.reply # NoEvent
    <3> DEFINE h == Heard(Near("advance"))
    <3>1. Answered(s, n) = [answered EXCEPT ![s.reply] = @ + 1]
      BY <1>4, <2>1, <2>5 DEF Answered
    <3>3. \/ Arrive(s, n) = h
          \/ Arrive(s, n) = [h EXCEPT !.at = "save"]
          \/ Arrive(s, n) = [h EXCEPT !.vars.asks = @ + 1]
          \/ Arrive(s, n) = [[h EXCEPT !.vars.asks = @ + 1] EXCEPT !.at = "consent", !.doing = "retry"]
      <4> HIDE DEF h
      <4>1. QED
        BY <1>4, <2>5 DEF Arrive, Arriving, h
    <3>4. Near("advance") \in WorkerState
      BY <2>2
    <3>5. /\ h \in WorkerState
          /\ h.at = "advance" /\ h.node = n /\ h.event = s.event /\ h.job = s.job
          /\ h.stopped = s.stopped /\ h.run = s.run /\ h.graph = s.graph
          /\ h.error = s.error /\ h.reply = NoEvent
      <4> HIDE DEF Near
      <4>1. QED
        BY <2>2, <3>4, Hearing
    <3> HIDE DEF h
    <3>6. PICK vars1 \in Vars : vars1 = [h.vars EXCEPT !.asks = @ + 1]
      <4>1. h.vars \in Vars
        BY <3>5 DEF WorkerState
      <4>2. h.vars.asks + 1 \in Nat
        BY <4>1 DEF Vars
      <4>3. QED
        BY <4>1, <4>2 DEF Vars
    <3>7. \/ Arrive(s, n) = h
          \/ Arrive(s, n) = [h EXCEPT !.at = "save"]
          \/ Arrive(s, n) = [h EXCEPT !.vars = vars1]
          \/ Arrive(s, n) = [h EXCEPT !.vars = vars1, !.at = "consent", !.doing = "retry"]
      BY <3>3, <3>5, <3>6 DEF WorkerState
    <3>8. CASE Arrive(s, n) = h
      BY <2>5, <3>1, <3>5, <3>8 DEF Landing
    <3>9. CASE Arrive(s, n) = [h EXCEPT !.at = "save"]
      BY <2>5, <3>1, <3>5, <3>9 DEF Landing, WorkerState
    <3>10. CASE Arrive(s, n) = [h EXCEPT !.vars = vars1]
      BY <2>5, <3>1, <3>5, <3>10 DEF Landing, WorkerState
    <3>11. CASE Arrive(s, n) = [h EXCEPT !.vars = vars1, !.at = "consent", !.doing = "retry"]
      <4> DEFINE t == [h EXCEPT !.vars = vars1, !.at = "consent", !.doing = "retry"]
      <4>1. t \in WorkerState
        <5> DEFINE u == [h EXCEPT !.vars = vars1]
        <5>1. u \in WorkerState
          BY <3>5 DEF WorkerState
        <5>2. t = [u EXCEPT !.at = "consent", !.doing = "retry"]
          BY <3>5 DEF WorkerState
        <5> HIDE DEF u, t
        <5>3. QED
          BY <5>1, <5>2, ZenonT(60) DEF WorkerState
      <4>2. /\ t.at = "consent" /\ t.doing = "retry" /\ t.node = n /\ t.reply = NoEvent
            /\ t.event = s.event /\ t.job = s.job /\ t.stopped = s.stopped
            /\ t.run = s.run /\ t.graph = s.graph /\ t.error = s.error
        BY <3>5 DEF WorkerState
      <4> HIDE DEF t
      <4>3. Arrive(s, n) = t
        BY <3>11 DEF t
      <4>4. QED
        BY <2>1, <2>5, <3>1, <4>1, <4>2, <4>3 DEF Landing
    <3>12. QED
      BY <3>7, <3>8, <3>9, <3>10, <3>11
  <2>6. QED
    BY <2>3, <2>4, <2>5 DEF NodeType
<1>5. QED
  BY <1>2, <1>3, <1>4

------------------------------------------------------------------------------
(* What the steps that write more than at and note do to the locals        *)

LEMMA WalkLands ==
    ASSUME worker \in [Worker -> WorkerState], NEW w \in Worker, worker[w].graph \in Graph,
           NEW n \in Node \cup {NoNode}, WalkOn(w, worker[w], n)
    PROVE  /\ Moves(w, worker'[w].at) /\ worker'[w].run = worker[w].run
           /\ worker'[w].graph = worker[w].graph
           /\ Landing(worker[w], n, worker'[w])
           /\ answered' = Answered(worker[w], n)
           /\ stops' = IF Missing(worker[w], n) THEN stops \cup {worker[w].run} ELSE stops
<1> DEFINE x == Arrive(worker[w], n)
<1>1. worker[w] \in WorkerState
  OBVIOUS
<1>2. Landing(worker[w], n, x)
  BY <1>1, ArriveLands
<1>3. worker' = [worker EXCEPT ![w] = x]
  BY DEF WalkOn
<1> HIDE DEF x
<1>4. QED
  BY <1>2, <1>3 DEF WalkOn, Landing, Moves, Aside

LEMMA WaitingFound ==
    ASSUME worker \in [Worker -> WorkerState], runs \in Seq(Run), NEW w \in Worker,
           FindWaitingRun(w)
    PROVE  \/ Moves(w, "match")
           \/ \E r \in DOMAIN runs, step \in {"expire", "awaken"} :
                 Moves(w, step) /\ worker'[w].run = r
<1>1. CASE Goto(w, "match")
  BY <1>1, GotoMoves DEF Step, DispatchStep
<1>2. ASSUME NEW r \in DOMAIN runs,
             worker' = [worker EXCEPT ![w].run = r,
                          ![w].at = IF runs[r].lapsed THEN "expire" ELSE "awaken"]
      PROVE  \E step \in {"expire", "awaken"} : Moves(w, step) /\ worker'[w].run = r
  <2>1. PICK step \in {"expire", "awaken"} : step = IF runs[r].lapsed THEN "expire" ELSE "awaken"
    OBVIOUS
  <2> DEFINE x == [worker[w] EXCEPT !.run = r, !.at = step]
  <2>2. worker[w] \in WorkerState /\ r \in Nat
    BY LenProperties
  <2>3. x \in WorkerState
    BY <2>2, ZenonT(60) DEF WorkerState, DispatchStep
  <2>4. /\ x.at = step /\ x.event = worker[w].event /\ x.job = worker[w].job
        /\ x.stopped = worker[w].stopped /\ x.run = r
    BY <2>2 DEF WorkerState
  <2>5. worker' = [worker EXCEPT ![w] = x]
    BY <1>2, <2>1
  <2> HIDE DEF x
  <2>6. QED
    BY <2>3, <2>4, <2>5 DEF Moves, Aside
<1>3. QED
  BY <1>1, <1>2 DEF FindWaitingRun

LEMMA WorkflowMatched ==
    ASSUME worker \in [Worker -> WorkerState], NEW w \in Worker, MatchWorkflow(w),
           \A f \in Workflow : flow[f].graph \in Graph
    PROVE  \/ Moves(w, "record") /\ worker'[w].note = "no_match"
           \/ /\ Moves(w, "create")
              /\ worker'[w].workflow \in Workflow /\ worker'[w].graph \in Graph
<1>1. CASE Write(w, "no_match")
  BY <1>1, WriteMoves DEF Outcome
<1>2. ASSUME NEW f \in Workflow,
             worker' = [worker EXCEPT ![w].at = "create", ![w].workflow = f,
                                      ![w].graph = flow[f].graph]
      PROVE  /\ Moves(w, "create")
             /\ worker'[w].workflow \in Workflow /\ worker'[w].graph \in Graph
  <2>1. PICK g \in Graph : g = flow[f].graph
    OBVIOUS
  <2> DEFINE x == [worker[w] EXCEPT !.at = "create", !.workflow = f, !.graph = g]
  <2>2. worker[w] \in WorkerState
    OBVIOUS
  <2>3. x \in WorkerState
    BY <2>2 DEF WorkerState, DispatchStep
  <2>4. /\ x.at = "create" /\ x.event = worker[w].event /\ x.job = worker[w].job
        /\ x.stopped = worker[w].stopped /\ x.workflow = f /\ x.graph = g
    BY <2>2 DEF WorkerState
  <2>5. worker' = [worker EXCEPT ![w] = x]
    BY <1>2, <2>1
  <2> HIDE DEF x
  <2>6. QED
    BY <2>3, <2>4, <2>5 DEF Moves, Aside
<1>3. QED
  BY <1>1, <1>2 DEF MatchWorkflow, Matching

LEMMA RunMade ==
    ASSUME worker \in [Worker -> WorkerState], runs \in Seq(Run), NEW w \in Worker, CreateRun(w)
    PROVE  Moves(w, "enqueue") /\ worker'[w].run = Len(runs) + 1
<1> DEFINE x == [worker[w] EXCEPT !.at = "enqueue", !.run = Len(runs) + 1]
<1>1. worker[w] \in WorkerState /\ Len(runs) + 1 \in Nat
  BY LenProperties
<1>2. x \in WorkerState
  BY <1>1 DEF WorkerState, DispatchStep
<1>3. /\ x.at = "enqueue" /\ x.event = worker[w].event /\ x.job = worker[w].job
      /\ x.stopped = worker[w].stopped /\ x.run = Len(runs) + 1
  BY <1>1 DEF WorkerState
<1>4. worker' = [worker EXCEPT ![w] = x]
  BY DEF CreateRun
<1> HIDE DEF x
<1>5. QED
  BY <1>2, <1>3, <1>4 DEF Moves, Aside

LEMMA RunLoaded ==
    ASSUME worker \in [Worker -> WorkerState], runs \in Seq(Run), jobs \in Seq(FlowJob),
           \A f \in Workflow : flow[f].graph \in Graph,
           NEW w \in Worker, worker[w].job \in DOMAIN jobs,
           JobOf(w).run \in DOMAIN runs, LoadRun(w)
    PROVE  LET j == JobOf(w)
               proceeds == Proceeds(runs[j.run].status, j.resume \/ j.reply # NoEvent) IN
           \/ Moves(w, "finish") /\ ~ proceeds /\ worker'[w].error = worker[w].error
           \/ /\ Moves(w, "account") /\ proceeds
              /\ worker'[w].run = j.run /\ worker'[w].graph \in Graph
              /\ worker'[w].reply = j.reply /\ worker'[w].error = worker[w].error
<1> DEFINE j == JobOf(w)
           run == runs[j.run]
           proceeds == Proceeds(run.status, j.resume \/ j.reply # NoEvent)
<1>1. CASE proceeds
  <2>1. j \in FlowJob /\ run \in Run /\ worker[w] \in WorkerState
    BY ElementOfSeq, LenProperties DEF JobOf
  <2>2. PICK g \in Graph : g = flow[run.workflow].graph
    BY <2>1 DEF Run
  <2> DEFINE x == [worker[w] EXCEPT !.at = "account", !.run = j.run, !.graph = g,
                      !.node = run.node, !.vars = run.vars, !.reply = j.reply,
                      !.loaded = run.status]
  <2>3. /\ j.run \in Nat /\ run.node \in Node \cup {NoNode} /\ run.vars \in Vars
        /\ j.reply \in Event \cup {NoEvent} /\ run.status \in RunStatus
    BY <2>1 DEF FlowJob, Run
  <2>4. worker' = [worker EXCEPT ![w] = x]
    BY <1>1, <2>2 DEF LoadRun
  <2> HIDE DEF j, run
  <2>5. x \in WorkerState
    BY <2>1, <2>3, ZenonT(60) DEF WorkerState, WalkStep
  <2>6. /\ x.at = "account" /\ x.event = worker[w].event /\ x.job = worker[w].job
        /\ x.stopped = worker[w].stopped /\ x.run = j.run /\ x.graph = g
        /\ x.reply = j.reply /\ x.error = worker[w].error
    BY <2>1 DEF WorkerState
  <2> HIDE DEF x
  <2>7. /\ Moves(w, "account")
        /\ worker'[w].run = j.run /\ worker'[w].graph \in Graph
        /\ worker'[w].reply = j.reply /\ worker'[w].error = worker[w].error
    BY <2>4, <2>5, <2>6 DEF Moves, Aside
  <2>8. QED
    BY <1>1, <2>7 DEF j, run
<1>2. CASE ~ proceeds
  <2>1. Goto(w, "finish")
    BY <1>2 DEF LoadRun, Goto
  <2>2. QED
    BY <1>2, <2>1, GotoMoves DEF Step, Settling, Recalls
<1>3. QED
  BY <1>1, <1>2

(* Where a send leads, well done or not.                                   *)
LEMMA SendReturns ==
    ASSUME worker \in [Worker -> WorkerState], NEW w \in Worker, worker[w].doing # "none",
           NEW ok \in BOOLEAN, Return(w, ok)
    PROVE  /\ Moves(w, AfterSend(worker[w], ok)) /\ Stays(w)
           /\ worker'[w].reply = worker[w].reply /\ worker'[w].error = "none"
           /\ AfterSend(worker[w], ok) \in {"advance", "pause", "finish"}
           /\ stops' = IF AfterSend(worker[w], ok) = "finish"
                       THEN stops \cup {worker[w].run} ELSE stops
<1>1. worker[w] \in WorkerState
  OBVIOUS
<1>2. AfterSend(worker[w], ok) \in {"advance", "pause", "finish"}
  BY <1>1 DEF AfterSend, WorkerState
<1>3. PICK step \in {"advance", "pause", "finish"} : step = AfterSend(worker[w], ok)
  BY <1>2
<1>4. PICK vars1 \in Vars :
         vars1 = [worker[w].vars EXCEPT !.asks = IF worker[w].doing = "prompt" /\ ok THEN 0 ELSE @]
  <2>1. worker[w].vars \in Vars
    BY <1>1 DEF WorkerState
  <2>2. QED
    BY <2>1 DEF Vars
<1> DEFINE x == [worker[w] EXCEPT !.at = step, !.doing = "none", !.error = "none", !.vars = vars1]
<1>5. x \in WorkerState
  <2> DEFINE y == [worker[w] EXCEPT !.at = step, !.doing = "none"]
  <2>1. y \in WorkerState
    <3>1. step \in Step
      BY DEF Step, WalkStep, Settling
    <3>2. QED
      BY <1>1, <3>1, ZenonT(60) DEF WorkerState, Step
  <2>2. x = [y EXCEPT !.error = "none", !.vars = vars1]
    BY <1>1 DEF WorkerState
  <2> HIDE DEF x, y
  <2>3. QED
    BY <2>1, <2>2 DEF WorkerState
<1>6. /\ x.at = step /\ x.event = worker[w].event /\ x.job = worker[w].job
      /\ x.stopped = worker[w].stopped /\ x.run = worker[w].run /\ x.graph = worker[w].graph
      /\ x.loaded = worker[w].loaded /\ x.reply = worker[w].reply /\ x.error = "none"
  BY <1>1 DEF WorkerState
<1>7. worker' = [worker EXCEPT ![w] = x]
  <2>1. Returned(worker[w], ok) = x
    BY <1>1, <1>3, <1>4 DEF Returned, WorkerState
  <2> HIDE DEF x
  <2>2. QED
    BY <2>1 DEF Return
<1> HIDE DEF x
<1>8. QED
  BY <1>2, <1>3, <1>5, <1>6, <1>7 DEF Return, Moves, Stays, Aside

(* What subscribes the contact again clears the mark of every handler.     *)
LEMMA ContactSet ==
    ASSUME worker \in [Worker -> WorkerState], NEW w \in Worker,
           SaveContactField(w) \/ ApplyAction(w)
    PROVE  /\ worker' \in [Worker -> WorkerState]
           /\ \A v \in Worker :
                /\ worker'[v].at = IF v = w THEN "advance" ELSE worker[v].at
                /\ worker'[v].event = worker[v].event /\ worker'[v].job = worker[v].job
                /\ worker'[v].run = worker[v].run /\ worker'[v].graph = worker[v].graph
                /\ worker'[v].node = worker[v].node /\ worker'[v].reply = worker[v].reply
                /\ worker'[v].doing = worker[v].doing /\ worker'[v].error = worker[v].error
                /\ worker'[v].workflow = worker[v].workflow
                /\ worker'[v].period = worker[v].period
                /\ worker'[v].note = worker[v].note
                /\ worker'[v].stopped =>
                     worker[v].stopped /\ ApplyAction(w) /\ TypeAt(w) # "SUBSCRIBE"
                /\ worker[v] = Free => worker'[v] = Free
<1>1. PICK f \in [Worker -> BOOLEAN] :
        /\ worker' = [v \in Worker |->
             [worker[v] EXCEPT !.stopped = f[v], !.at = IF v = w THEN "advance" ELSE @]]
        /\ \A v \in Worker :
             f[v] => worker[v].stopped /\ ApplyAction(w) /\ TypeAt(w) # "SUBSCRIBE"
  <2>1. CASE SaveContactField(w)
    <3> DEFINE f == [v \in Worker |-> FALSE]
    <3>1. /\ f \in [Worker -> BOOLEAN]
          /\ worker' = [v \in Worker |->
               [worker[v] EXCEPT !.stopped = f[v], !.at = IF v = w THEN "advance" ELSE @]]
          /\ \A v \in Worker : ~ f[v]
      BY <2>1 DEF SaveContactField
    <3> HIDE DEF f
    <3>2. QED
      BY <3>1
  <2>2. CASE ApplyAction(w)
    <3> DEFINE f == [v \in Worker |-> worker[v].stopped /\ TypeAt(w) # "SUBSCRIBE"]
    <3>1. \A v \in Worker : worker[v] \in WorkerState
      OBVIOUS
    <3>2. /\ f \in [Worker -> BOOLEAN]
          /\ \A v \in Worker : f[v] => worker[v].stopped /\ TypeAt(w) # "SUBSCRIBE"
      OBVIOUS
    <3>3. worker' = [v \in Worker |->
               [worker[v] EXCEPT !.stopped = f[v], !.at = IF v = w THEN "advance" ELSE @]]
      BY <2>2, <3>1 DEF ApplyAction, WorkerState
    <3> HIDE DEF f
    <3>4. QED
      BY <2>2, <3>2, <3>3
  <2>3. QED
    BY <2>1, <2>2
<1>2. ASSUME NEW v \in Worker
      PROVE  /\ worker'[v] \in WorkerState
             /\ worker'[v].at = IF v = w THEN "advance" ELSE worker[v].at
             /\ worker'[v].event = worker[v].event /\ worker'[v].job = worker[v].job
             /\ worker'[v].run = worker[v].run /\ worker'[v].graph = worker[v].graph
             /\ worker'[v].node = worker[v].node /\ worker'[v].reply = worker[v].reply
             /\ worker'[v].doing = worker[v].doing /\ worker'[v].error = worker[v].error
             /\ worker'[v].workflow = worker[v].workflow
             /\ worker'[v].period = worker[v].period
             /\ worker'[v].note = worker[v].note
             /\ worker'[v].stopped = f[v]
  <2>1. PICK step : step = IF v = w THEN "advance" ELSE worker[v].at
    OBVIOUS
  <2>2. worker[v] \in WorkerState /\ f[v] \in BOOLEAN
    OBVIOUS
  <2>3. step \in Step
    BY <2>1, <2>2 DEF WorkerState, Step, WalkStep
  <2>4. PICK x : x = [worker[v] EXCEPT !.stopped = f[v], !.at = step]
    OBVIOUS
  <2>5. worker'[v] = x
    BY <1>1, <2>1, <2>4
  <2>6. x \in WorkerState
    BY <2>2, <2>3, <2>4 DEF WorkerState, Step
  <2>7. /\ x.at = step /\ x.event = worker[v].event /\ x.job = worker[v].job
        /\ x.run = worker[v].run /\ x.graph = worker[v].graph
        /\ x.node = worker[v].node /\ x.reply = worker[v].reply
        /\ x.doing = worker[v].doing /\ x.error = worker[v].error
        /\ x.workflow = worker[v].workflow
        /\ x.period = worker[v].period /\ x.note = worker[v].note /\ x.stopped = f[v]
    BY <2>2, <2>4 DEF WorkerState
  <2>8. QED
    BY <2>1, <2>5, <2>6, <2>7
<1>3. ASSUME NEW v \in Worker, worker[v] = Free PROVE worker'[v] = Free
  <2>1. worker[v].at = "idle" /\ worker[v].stopped = FALSE
    BY <1>3 DEF Free
  <2>2. worker[w].at # "idle"
    BY DEF SaveContactField, ApplyAction, Awaits
  <2>3. v # w /\ f[v] = FALSE
    BY <1>1, <2>1, <2>2
  <2>4. worker'[v] = [worker[v] EXCEPT !.stopped = f[v], !.at = worker[v].at]
    BY <1>1, <2>3
  <2>5. worker[v] \in WorkerState
    OBVIOUS
  <2>6. [worker[v] EXCEPT !.stopped = f[v], !.at = worker[v].at] = worker[v]
    BY <2>1, <2>3, <2>5 DEF WorkerState
  <2>7. QED
    BY <1>3, <2>4, <2>6
<1>4. worker' \in [Worker -> WorkerState]
  BY <1>1, <1>2
<1>5. QED
  BY <1>1, <1>2, <1>3, <1>4, ZenonT(60)


LEMMA SlotReturned ==
    ASSUME worker \in [Worker -> WorkerState], QuotaTypeOK, NEW w \in Worker,
           DecrementDmUsage(w)
    PROVE  \/ /\ Moves(w, "findNotice") /\ Stays(w)
              /\ worker'[w].node = worker[w].node /\ worker'[w].doing = worker[w].doing
              /\ worker'[w].reply = worker[w].reply /\ worker'[w].error = worker[w].error
              /\ worker'[w].period \in Period
              /\ stops' = stops
           \/ Goto(w, "flag") /\ worker[w].error = "auth" /\ stops' = stops
           \/ Goto(w, "throttled") /\ worker[w].error = "limited" /\ stops' = stops
           \/ Return(w, FALSE)
<1>1. CASE sender[w].at = "over"
  <2>1. PICK p \in Period : p = sender[w].period
    BY <1>1 DEF QuotaTypeOK, Worker
  <2> DEFINE x == [worker[w] EXCEPT !.at = "findNotice", !.period = p]
  <2>2. worker[w] \in WorkerState
    OBVIOUS
  <2>3. x \in WorkerState
    BY <2>2 DEF WorkerState, SendStep
  <2>4. /\ x.at = "findNotice" /\ x.event = worker[w].event /\ x.job = worker[w].job
        /\ x.stopped = worker[w].stopped /\ x.run = worker[w].run /\ x.graph = worker[w].graph
        /\ x.loaded = worker[w].loaded /\ x.node = worker[w].node /\ x.doing = worker[w].doing
        /\ x.reply = worker[w].reply /\ x.error = worker[w].error /\ x.period = p
    BY <2>2 DEF WorkerState
  <2>5. worker' = [worker EXCEPT ![w] = x] /\ stops' = stops
    BY <1>1, <2>1 DEF DecrementDmUsage
  <2> HIDE DEF x
  <2>6. QED
    BY <2>3, <2>4, <2>5 DEF Moves, Stays, Aside
<1>2. CASE sender[w].at # "over"
  BY <1>2 DEF DecrementDmUsage
<1>3. QED
  BY <1>1, <1>2

LEMMA ErrorCaught ==
    ASSUME worker \in [Worker -> WorkerState], NEW w \in Worker,
           NEW error \in {"auth", "limited", "other"},
           worker' = [worker EXCEPT ![w].at = "release", ![w].error = error]
    PROVE  /\ Moves(w, "release") /\ Stays(w)
           /\ worker'[w].node = worker[w].node /\ worker'[w].doing = worker[w].doing
           /\ worker'[w].reply = worker[w].reply
<1> DEFINE x == [worker[w] EXCEPT !.at = "release", !.error = error]
<1>1. worker[w] \in WorkerState
  OBVIOUS
<1>2. x \in WorkerState
  BY <1>1, ZenonT(60) DEF WorkerState, SendStep
<1>3. /\ x.at = "release" /\ x.event = worker[w].event /\ x.job = worker[w].job
      /\ x.stopped = worker[w].stopped /\ x.run = worker[w].run /\ x.graph = worker[w].graph
      /\ x.loaded = worker[w].loaded /\ x.node = worker[w].node /\ x.doing = worker[w].doing
      /\ x.reply = worker[w].reply
  BY <1>1 DEF WorkerState
<1>4. worker' = [worker EXCEPT ![w] = x]
  OBVIOUS
<1> HIDE DEF x
<1>5. QED
  BY <1>2, <1>3, <1>4 DEF Moves, Stays, Aside

LEMMA HandlerEnds ==
    ASSUME worker \in [Worker -> WorkerState], NEW w \in Worker, Settle(w) \/ Crash(w)
    PROVE  Aside(w) /\ worker'[w] = Free
<1>1. worker' = [worker EXCEPT ![w] = Free]
  BY DEF Settle, Crash
<1>2. QED
  BY <1>1, FreeFits DEF Aside

LEMMA HookTaken ==
    ASSUME worker \in [Worker -> WorkerState], NEW w \in Worker, NEW e \in Event, TakeHook(w, e)
    PROVE  /\ Aside(w)
           /\ worker[w].at = "idle" /\ worker'[w].at = "dedup"
           /\ worker'[w].event = e /\ worker'[w].job = 0
           /\ worker'[w].stopped <=> contact = "unsubscribed"
           /\ worker'[w].error = "none"
<1>1. PICK b \in BOOLEAN : b <=> contact = "unsubscribed"
  OBVIOUS
<1> DEFINE x == [Free EXCEPT !.at = "dedup", !.stopped = b, !.event = e]
<1>2. Free \in WorkerState
  BY FreeFits
<1>3. x \in WorkerState
  BY <1>2 DEF WorkerState, DispatchStep
<1>4. /\ x.at = "dedup" /\ x.event = e /\ x.job = 0 /\ x.stopped = b /\ x.error = "none"
  BY DEF Free
<1>5. worker' = [worker EXCEPT ![w] = x]
  <2>1. x = [[Free EXCEPT !.at = "dedup", !.stopped = contact = "unsubscribed"] EXCEPT !.event = e]
    BY <1>1 DEF Free
  <2>2. QED
    BY <2>1 DEF TakeHook, Started
<1> HIDE DEF x
<1>6. QED
  BY <1>1, <1>3, <1>4, <1>5 DEF Aside, TakeHook, Awaits

LEMMA JobTaken ==
    ASSUME worker \in [Worker -> WorkerState], NEW w \in Worker, NEW i \in Nat, TakeJob(w, i)
    PROVE  /\ Aside(w)
           /\ worker[w].at = "idle" /\ worker'[w].at = "load" /\ worker'[w].job = i
           /\ worker'[w].stopped <=> contact = "unsubscribed"
           /\ worker'[w].error = "none"
<1>1. PICK b \in BOOLEAN : b <=> contact = "unsubscribed"
  OBVIOUS
<1> DEFINE x == [Free EXCEPT !.at = "load", !.stopped = b, !.job = i]
<1>2. Free \in WorkerState
  BY FreeFits
<1>3. x \in WorkerState
  BY <1>2, ZenonT(60) DEF WorkerState, WalkStep
<1>4. x.at = "load" /\ x.job = i /\ x.stopped = b /\ x.error = "none"
  BY DEF Free
<1>5. worker' = [worker EXCEPT ![w] = x]
  <2>1. x = [[Free EXCEPT !.at = "load", !.stopped = contact = "unsubscribed"] EXCEPT !.job = i]
    BY <1>1 DEF Free
  <2>2. QED
    BY <2>1 DEF TakeJob, Started
<1> HIDE DEF x
<1>6. QED
  BY <1>1, <1>3, <1>4, <1>5 DEF Aside, TakeJob, Awaits


(* Only the attempt of w moves, to stage.                                  *)
SlotMoves(w, stage) ==
    /\ sender'[w].at = stage
    /\ \A v \in Worker \ {w} : sender'[v] = sender[v]

LEMMA SlotSteps ==
    ASSUME QuotaTypeOK, NEW w \in Worker
    PROVE  /\ ReadQuota(w) => SlotMoves(w, "quoted")
           /\ Reserve(w) => SlotMoves(w, "over") \/ SlotMoves(w, "held")
           /\ Release(w) \/ Keep(w) \/ Charge(w) \/ Abandon(w) => SlotMoves(w, "idle")
           /\ SendUncapped(w) => SlotMoves(w, "owed")
           /\ LoseSlot(w) => SlotMoves(w, "idle")
           /\ UNCHANGED quotaVars => SlotMoves(w, sender[w].at)
<1>1. sender \in [Worker -> Attempt]
  BY DEF QuotaTypeOK, Worker
<1>2. ASSUME NEW stage \in Stage, Stand(w, stage) PROVE SlotMoves(w, stage)
  BY <1>1, <1>2 DEF Stand, SlotMoves, Attempt
<1>3. ASSUME End(w) PROVE SlotMoves(w, "idle")
  BY <1>1, <1>3 DEF End, SlotMoves, Idle
<1>4. ReadQuota(w) => SlotMoves(w, "quoted")
  BY <1>1 DEF ReadQuota, SlotMoves
<1>5. Reserve(w) => SlotMoves(w, "over") \/ SlotMoves(w, "held")
  BY <1>2 DEF Reserve, Stage
<1>6. Release(w) \/ Keep(w) \/ Charge(w) \/ Abandon(w) => SlotMoves(w, "idle")
  BY <1>3 DEF Release, Keep, Charge, Abandon
<1>7. SendUncapped(w) => SlotMoves(w, "owed")
  BY <1>2 DEF SendUncapped, Stage
<1>8. UNCHANGED quotaVars => SlotMoves(w, sender[w].at)
  BY DEF quotaVars, SlotMoves
<1>9. LoseSlot(w) => SlotMoves(w, "idle")
  BY <1>6, <1>8 DEF LoseSlot
<1>10. QED
  BY <1>4, <1>5, <1>6, <1>7, <1>8, <1>9

------------------------------------------------------------------------------
(* The type invariant                                                      *)

(* Whoever holds the lock of a job is the worker it is active with.        *)
OwnedJob == {j \in Bull!Job : j.state = "active" <=> j.owner \in Worker}

QueuesFit ==
    /\ hook \in [Event -> OwnedJob]
    /\ jobs \in Seq(FlowJob)
    /\ \A i \in DOMAIN jobs : jobs[i].bull \in OwnedJob /\ jobs[i].run \in DOMAIN runs

RunsFit ==
    /\ runs \in Seq(Run)
    /\ recency \subseteq (DOMAIN runs) \X (DOMAIN runs)
    /\ stops \subseteq DOMAIN runs
    /\ delivered \in Seq([Node -> Nat]) /\ Len(delivered) = Len(runs)
    /\ raced \subseteq DOMAIN runs

RowsTyped ==
    /\ said \in Conversation
    /\ ledger \in [Event -> Outcome]
    /\ dmRows \subseteq Nat \X (Node \cup {ActionNode}) \X Nat
    /\ flow \in [Workflow -> [status : {"ACTIVE", "PAUSED"}, live : BOOLEAN, graph : Graph]]
    /\ contact \in {"none", "subscribed", "unsubscribed"}
    /\ account \in [status : {"CONNECTED", "NEEDS_RECONNECT"}, live : BOOLEAN]
    /\ orgActive \in BOOLEAN
    /\ notices \in [Period -> Nat]
    /\ handoffs \in Nat
    /\ fed \in [Event -> Nat]
    /\ answered \in [Event -> Nat]
    /\ faults \in 0..MaxUpsets
    /\ edits \in 0..MaxUpsets

(* Inductive: StateTypeOK with what the locals of each handler are at each *)
(* step, what the handler then holds of the quota, who holds a lock, and   *)
(* that jobs and handlers only name runs that exist.                       *)
FlowTypes == HandsFit /\ QueuesFit /\ RunsFit /\ RowsTyped /\ QuotaTypeOK

(* Runs and jobs are only ever added.                                      *)
Grown == DOMAIN jobs \subseteq DOMAIN jobs' /\ DOMAIN runs \subseteq DOMAIN runs'

LEMMA AppendGrows ==
    ASSUME NEW S, NEW seq \in Seq(S), NEW x
    PROVE  /\ DOMAIN seq \subseteq DOMAIN Append(seq, x)
           /\ Len(seq) + 1 \in DOMAIN Append(seq, x)
           /\ DOMAIN Append(seq, x) = DOMAIN seq \cup {Len(seq) + 1}
           /\ Append(seq, x)[Len(seq) + 1] = x
           /\ \A i \in DOMAIN seq : Append(seq, x)[i] = seq[i]
<1>1. seq \in Seq(S \cup {x}) /\ x \in S \cup {x}
  BY SeqMonotonic
<1>2. Append(seq, x) \in Seq(S \cup {x}) /\ Len(Append(seq, x)) = Len(seq) + 1
  BY <1>1
<1>3. /\ Len(seq) \in Nat /\ DOMAIN seq = 1..Len(seq)
      /\ DOMAIN Append(seq, x) = 1..(Len(seq) + 1)
  BY <1>1, <1>2, LenProperties
<1>4. QED
  BY <1>1, <1>3

LEMMA SendGrows ==
    ASSUME NEW w \in Worker, SendProgress(w)
    PROVE  jobs' = jobs /\ runs' = runs
<1>1. CASE CheckConsent(w) \/ CheckContactCap(w) \/ GetDmQuota(w)
  BY <1>1 DEF CheckConsent, CheckContactCap, GetDmQuota, queueVars, runVars
<1>2. CASE IncrementDmUsage(w) \/ DecrementDmUsage(w) \/ FindNotice(w) \/ CreateNotice(w)
  BY <1>2 DEF IncrementDmUsage, DecrementDmUsage, FindNotice, CreateNotice, queueVars, runVars
<1>3. CASE SendDm(w) \/ FlagAccount(w) \/ RecordDm(w)
  BY <1>3 DEF SendDm, FlagAccount, RecordDm, queueVars, runVars
<1>4. QED
  BY <1>1, <1>2, <1>3 DEF SendProgress

LEMMA Grows ==
    ASSUME QueuesFit, RunsFit, [Next]_vars
    PROVE  Grown
<1> USE DEF queueVars, runVars
<1>1. ASSUME NEW e \in Event, Deliver(e) \/ Evict(e) \/ Recover(e) PROVE Grown
  BY <1>1 DEF Deliver, Evict, Recover, Grown
<1>2. ASSUME NEW i \in DOMAIN jobs, RecoverJob(i) PROVE Grown
  BY <1>2 DEF RecoverJob, Grown
<1>3. ASSUME NEW w \in Worker, NEW e \in Event, TakeHook(w, e) PROVE Grown
  BY <1>3 DEF TakeHook, Grown
<1>4. ASSUME NEW w \in Worker, NEW i \in DOMAIN jobs, TakeJob(w, i) PROVE Grown
  BY <1>4 DEF TakeJob, Grown
<1>5. ASSUME NEW w \in Worker,
             FeedReply(w) \/ EnqueueRun(w) \/ ScheduleResume(w)
      PROVE  Grown
  BY <1>5, AppendGrows DEF FeedReply, EnqueueRun, ScheduleResume, AddJob, QueuesFit, Grown
<1>6. ASSUME NEW w \in Worker, CreateRun(w) PROVE Grown
  BY <1>6, AppendGrows DEF CreateRun, RunsFit, Grown
<1>7. ASSUME NEW w \in Worker, DispatchProgress(w), ~ FeedReply(w), ~ EnqueueRun(w), ~ CreateRun(w)
      PROVE  Grown
  BY <1>7 DEF DispatchProgress, Dedup, Resolve, RecordProcessed, Unsubscribe, FindWaitingRun,
     ExpireRun, AwakenRun, MatchWorkflow, UpdateRun, Grown
<1>8. ASSUME NEW w \in Worker, WalkProgress(w), ~ ScheduleResume(w)
      PROVE  Grown
  BY <1>8 DEF WalkProgress, LoadRun, LoadAccount, WakeRun, Advance, Pause, BeginDelay,
     SaveContactField, ApplyAction, NotifyHandoff, ParkRun, CompleteRun, UpdateRun, Grown
<1>9. ASSUME NEW w \in Worker, SendProgress(w) PROVE Grown
  BY <1>9, SendGrows DEF Grown
<1>10. ASSUME NEW w \in Worker, Settle(w) \/ SendDmFails(w) \/ Throw(w) \/ Crash(w) PROVE Grown
  BY <1>10 DEF Settle, SendDmFails, Throw, Crash, Grown
<1>11. ASSUME NEW r \in DOMAIN runs, StopRun(r) \/ LoseStop(r) \/ WaitLapses(r) PROVE Grown
  BY <1>11 DEF StopRun, LoseStop, WaitLapses, UpdateRun, Grown
<1>12. ASSUME NEW f \in Workflow, ChangeWorkflow(f) PROVE Grown
  BY <1>12 DEF ChangeWorkflow, Grown
<1>13. CASE ChangeTenant
  BY <1>13 DEF ChangeTenant, Grown
<1>14. CASE UNCHANGED vars
  BY <1>14 DEF vars, Grown
<1>15. QED
  BY <1>1, <1>2, <1>3, <1>4, <1>5, <1>6, <1>7, <1>8, <1>9, <1>10, <1>11, <1>12, <1>13, <1>14
     DEF Next


------------------------------------------------------------------------------
(* Handlers keep the fit                                                   *)

LEMMA HandsKept ==
    ASSUME HandsFit, Grown, NEW w \in Worker, NEW stage, Aside(w), SlotMoves(w, stage),
           InHand(worker[w])', stage \in SlotStages(worker'[w])
    PROVE  HandsFit'
<1>1. ASSUME NEW v \in Worker
      PROVE  InHand(worker[v])' /\ sender'[v].at \in SlotStages(worker'[v])
  <2>1. CASE v = w
    BY <2>1 DEF SlotMoves
  <2>2. CASE v # w
    <3>1. worker'[v] = worker[v] /\ sender'[v] = sender[v]
      BY <2>2 DEF SlotMoves, Aside
    <3>2. InHand(worker[v]) /\ sender[v].at \in SlotStages(worker[v])
      BY DEF HandsFit
    <3>3. InHand(worker[v])'
      BY <3>1, <3>2 DEF InHand, Grown
    <3>4. QED
      BY <3>1, <3>2, <3>3
  <2>3. QED
    BY <2>1, <2>2
<1>2. QED
  BY <1>1 DEF HandsFit, Aside

LEMMA DispatchKept ==
    ASSUME HandsFit, Grown, NEW w \in Worker, worker[w].at \in DispatchStep,
           NEW step \in DispatchStep \cup {"finish", "rethrow"}, Moves(w, step),
           SlotMoves(w, "idle"),
           step \in {"expire", "awaken", "feed", "enqueue"} => worker'[w].run \in DOMAIN runs',
           step = "create" => worker'[w].workflow \in Workflow /\ worker'[w].graph \in Graph
    PROVE  HandsFit'
<1>1. worker[w].job = 0 /\ worker[w].event \in Event
  BY DEF HandsFit, InHand
<1>2. worker'[w].at = step /\ worker'[w].job = 0 /\ worker'[w].event \in Event
  BY <1>1 DEF Moves
<1>3. InHand(worker[w])'
  BY <1>2 DEF InHand, DispatchStep, WalkStep, SendStep, OnItsWay, Settling
<1>4. "idle" \in SlotStages(worker'[w])
  BY <1>2 DEF SlotStages, DispatchStep
<1>5. QED
  BY <1>3, <1>4, HandsKept DEF Moves

LEMMA WalkKept ==
    ASSUME HandsFit, Grown, NEW w \in Worker, worker[w].at \in WalkStep \cup SendStep,
           NEW step \in OnItsWay \cup Settling, Moves(w, step),
           NEW stage, SlotMoves(w, stage), stage \in SlotStages(worker'[w]),
           step \in OnItsWay => worker'[w].run \in DOMAIN runs' /\ worker'[w].graph \in Graph,
           step \in SendStep => worker'[w].node \in Node /\ worker'[w].doing # "none",
           step \in {"findNotice", "notice"} => worker'[w].period \in Period
    PROVE  HandsFit'
<1>1. worker[w].job \in DOMAIN jobs
  BY DEF HandsFit, InHand
<1>2. worker'[w].at = step /\ worker'[w].job \in DOMAIN jobs'
  BY <1>1 DEF Moves, Grown
<1>3. InHand(worker[w])'
  BY <1>2 DEF InHand, DispatchStep, WalkStep, SendStep, OnItsWay, Settling
<1>4. QED
  BY <1>3, HandsKept DEF Moves

(* What is known of a handler by the step it is at.                        *)
LEMMA HandKnown ==
    ASSUME FlowTypes, NEW w \in Worker
    PROVE  /\ worker \in [Worker -> WorkerState] /\ worker[w] \in WorkerState
           /\ InHand(worker[w]) /\ sender[w].at \in SlotStages(worker[w])
           /\ worker[w].at \in OnItsWay =>
                /\ worker[w].run \in DOMAIN runs /\ worker[w].graph \in Graph
                /\ runs[worker[w].run] \in Run
           /\ \A f \in Workflow : flow[f].graph \in Graph
           /\ \A r \in DOMAIN runs : runs[r] \in Run
<1>1. \A r \in DOMAIN runs : runs[r] \in Run
  BY ElementOfSeq, LenProperties DEF FlowTypes, RunsFit
<1>2. QED
  BY <1>1 DEF FlowTypes, HandsFit, InHand, RowsTyped

LEMMA DispatchHands ==
    ASSUME FlowTypes, Grown, NEW w \in Worker, DispatchProgress(w)
    PROVE  HandsFit'
<1> USE DEF Step, DispatchStep
<1>1. /\ worker \in [Worker -> WorkerState] /\ worker[w] \in WorkerState
      /\ InHand(worker[w]) /\ sender[w].at \in SlotStages(worker[w])
      /\ \A f \in Workflow : flow[f].graph \in Graph
      /\ HandsFit /\ runs \in Seq(Run) /\ QuotaTypeOK
  BY HandKnown DEF FlowTypes, RunsFit
<1>2. worker[w].at \in DispatchStep
  BY DEF DispatchProgress, Dedup, Resolve, RecordProcessed, Unsubscribe, FindWaitingRun,
     ExpireRun, AwakenRun, FeedReply, MatchWorkflow, CreateRun, EnqueueRun, Awaits
<1>3. SlotMoves(w, "idle")
  <2>1. sender[w].at = "idle"
    BY <1>1, <1>2 DEF SlotStages
  <2>2. UNCHANGED quotaVars
    BY UntouchedKeeps DEF QuotaUntouched
  <2>3. QED
    BY <1>1, <2>1, <2>2, SlotSteps
<1>4. ASSUME NEW step \in DispatchStep \cup {"finish", "rethrow"}, Goto(w, step),
             step \notin {"expire", "awaken", "create", "enqueue"},
             step = "feed" => worker[w].run \in DOMAIN runs
      PROVE  HandsFit'
  <2>1. Moves(w, step) /\ Stays(w)
    BY <1>1, <1>4, GotoMoves DEF Settling
  <2>2. QED
    BY <1>1, <1>2, <1>3, <1>4, <2>1, DispatchKept DEF Stays, Grown
<1>5. ASSUME NEW note \in Outcome, Write(w, note) PROVE HandsFit'
  BY <1>1, <1>2, <1>3, <1>5, WriteMoves, DispatchKept
<1>6. CASE Dedup(w)
  BY <1>4, <1>6 DEF Dedup
<1>7. CASE Resolve(w)
  <2>1. Refusal \in Outcome
    BY DEF Refusal, Outcome
  <2>2. \/ \E note \in Outcome : Write(w, note)
        \/ Goto(w, "findRun") \/ Goto(w, "match")
    BY <1>7, <2>1 DEF Resolve, Outcome
  <2>3. QED
    BY <1>4, <1>5, <2>2
<1>8. CASE RecordProcessed(w)
  BY <1>4, <1>8 DEF RecordProcessed
<1>9. CASE Unsubscribe(w)
  BY <1>4, <1>9 DEF Unsubscribe
<1>10. CASE FindWaitingRun(w)
  <2>1. \/ Moves(w, "match")
        \/ \E r \in DOMAIN runs, step \in {"expire", "awaken"} :
              Moves(w, step) /\ worker'[w].run = r
    BY <1>1, <1>10, WaitingFound
  <2>2. QED
    BY <1>1, <1>2, <1>3, <2>1, DispatchKept DEF Grown
<1>11. CASE ExpireRun(w)
  BY <1>4, <1>11 DEF ExpireRun
<1>12. CASE AwakenRun(w)
  BY <1>1, <1>4, <1>12 DEF AwakenRun, Awaits, InHand
<1>13. CASE FeedReply(w) \/ EnqueueRun(w)
  BY <1>5, <1>13 DEF FeedReply, EnqueueRun, Outcome
<1>14. CASE MatchWorkflow(w)
  BY <1>1, <1>2, <1>3, <1>14, WorkflowMatched, DispatchKept
<1>15. CASE CreateRun(w)
  <2>1. Moves(w, "enqueue") /\ worker'[w].run = Len(runs) + 1
    BY <1>1, <1>15, RunMade
  <2>2. Len(runs) + 1 \in DOMAIN runs'
    BY <1>1, <1>15, AppendGrows DEF CreateRun
  <2>3. QED
    BY <1>1, <1>2, <1>3, <2>1, <2>2, DispatchKept
<1>16. QED
  BY <1>6, <1>7, <1>8, <1>9, <1>10, <1>11, <1>12, <1>13, <1>14, <1>15 DEF DispatchProgress


LEMMA TargetsAreNodes ==
    ASSUME NEW g \in Graph, NEW n, NEW handle
    PROVE  /\ FirstEdgeTargets(g, n) \subseteq Node \cup {NoNode}
           /\ BranchTargets(g, n, handle) \subseteq Node \cup {NoNode}
<1>1. \A e \in Shape[g].edges : e.to \in Node
  BY WorkflowAssumption DEF Edge
<1>2. FirstEdgeTargets(g, n) \subseteq Node \cup {NoNode}
  BY <1>1 DEF FirstEdgeTargets
<1>3. QED
  BY <1>1, <1>2 DEF BranchTargets

(* A handler that walks on arrives somewhere.                              *)
LEMMA WalkOnHands ==
    ASSUME FlowTypes, Grown, NEW w \in Worker, worker[w].at \in OnItsWay,
           SlotMoves(w, "idle"), NEW n \in Node \cup {NoNode}, WalkOn(w, worker[w], n)
    PROVE  HandsFit'
<1> USE DEF WalkStep, SendStep, OnItsWay, Settling
<1>1. /\ worker \in [Worker -> WorkerState] /\ InHand(worker[w]) /\ HandsFit
      /\ worker[w].run \in DOMAIN runs /\ worker[w].graph \in Graph
  BY HandKnown DEF FlowTypes
<1>2. /\ Moves(w, worker'[w].at) /\ worker'[w].run = worker[w].run
      /\ worker'[w].graph = worker[w].graph /\ Landing(worker[w], n, worker'[w])
  BY <1>1, WalkLands
<1>3. PICK step \in {"complete", "finish", "consent", "delay", "advance", "pause", "save",
                     "setContact", "handoff"} : step = worker'[w].at
  BY <1>2 DEF Landing
<1>4. step = "consent" => worker'[w].node \in Node /\ worker'[w].doing # "none"
  BY <1>2, <1>3 DEF Landing
<1>5. "idle" \in SlotStages(worker'[w])
  BY <1>3 DEF SlotStages
<1>6. QED
  BY <1>1, <1>2, <1>3, <1>4, <1>5, WalkKept DEF Grown

LEMMA WalkHands ==
    ASSUME FlowTypes, Grown, NEW w \in Worker, WalkProgress(w)
    PROVE  HandsFit'
<1> USE DEF Step, WalkStep, OnItsWay, Settling
<1>1. /\ worker \in [Worker -> WorkerState] /\ worker[w] \in WorkerState
      /\ InHand(worker[w]) /\ sender[w].at \in SlotStages(worker[w])
      /\ \A f \in Workflow : flow[f].graph \in Graph
      /\ HandsFit /\ runs \in Seq(Run) /\ jobs \in Seq(FlowJob) /\ QuotaTypeOK
      /\ \A i \in DOMAIN jobs : jobs[i].run \in DOMAIN runs
  BY HandKnown DEF FlowTypes, RunsFit, QueuesFit
<1>2. /\ worker[w].at \in WalkStep /\ worker[w].job \in DOMAIN jobs
      /\ LoadRun(w) \/ (worker[w].at \in OnItsWay /\ worker[w].graph \in Graph
                        /\ worker[w].run \in DOMAIN runs /\ runs[worker[w].run] \in Run)
  <2>1. worker[w].at \in WalkStep /\ (LoadRun(w) \/ worker[w].at \in OnItsWay)
    BY DEF WalkProgress, LoadRun, LoadAccount, WakeRun, Advance, Pause, BeginDelay,
       ScheduleResume, SaveContactField, ApplyAction, NotifyHandoff, ParkRun, CompleteRun, Awaits
  <2>2. QED
    BY <1>1, <2>1, HandKnown DEF InHand
<1>3. SlotMoves(w, "idle") /\ UNCHANGED quotaVars
  <2>1. sender[w].at = "idle"
    BY <1>1, <1>2 DEF SlotStages
  <2>2. UNCHANGED quotaVars
    BY UntouchedKeeps DEF QuotaUntouched
  <2>3. QED
    BY <1>1, <2>1, <2>2, SlotSteps
<1>4. ASSUME NEW step \in {"finish", "wake", "schedule", "park", "account"}, Moves(w, step),
             step # "finish" => worker'[w].run \in DOMAIN runs' /\ worker'[w].graph \in Graph
      PROVE  HandsFit'
  <2>1. "idle" \in SlotStages(worker'[w])
    BY <1>4 DEF SlotStages, Moves
  <2>2. step \in OnItsWay \cup Settling /\ step \notin SendStep
        /\ (step \in OnItsWay => step # "finish")
    BY DEF SendStep
  <2>3. QED
    BY <1>1, <1>2, <1>3, <1>4, <2>1, <2>2, WalkKept DEF SendStep
<1>5. ASSUME NEW step \in {"finish", "wake", "schedule", "park"}, Goto(w, step),
              step = "finish" \/ worker[w].at \in OnItsWay
       PROVE  HandsFit'
  <2>1. Moves(w, step) /\ Stays(w)
    BY <1>1, <1>5, GotoMoves
  <2>2. step # "finish" => worker[w].run \in DOMAIN runs /\ worker[w].graph \in Graph
    BY <1>1, <1>5 DEF InHand
  <2>3. QED
    BY <1>4, <2>1, <2>2 DEF Stays, Grown
<1>6. CASE LoadRun(w)
  <2>1. \/ Moves(w, "finish")
        \/ /\ Moves(w, "account")
           /\ worker'[w].run = JobOf(w).run /\ worker'[w].graph \in Graph
    BY <1>1, <1>2, <1>6, RunLoaded DEF JobOf
  <2>2. JobOf(w).run \in DOMAIN runs'
    BY <1>1, <1>2 DEF JobOf, Grown
  <2>3. QED
    BY <1>4, <2>1, <2>2
<1>7. CASE LoadAccount(w)
  <2>1. worker[w].node \in Node \cup {NoNode} /\ worker[w].at \in OnItsWay
    BY <1>1, <1>7 DEF WorkerState, LoadAccount, Awaits
  <2>2. Goto(w, "finish") \/ Goto(w, "wake") \/ WalkOn(w, worker[w], worker[w].node)
    BY <1>7 DEF LoadAccount
  <2>3. QED
    BY <1>3, <1>5, <2>1, <2>2, WalkOnHands
<1>8. CASE WakeRun(w)
  <2>1. worker[w].node \in Node \cup {NoNode} /\ worker[w].at \in OnItsWay
    BY <1>1, <1>8 DEF WorkerState, WakeRun, Awaits
  <2>2. QED
    BY <1>3, <1>8, <2>1, WalkOnHands DEF WakeRun
<1>9. CASE Advance(w)
  <2>1. worker[w].at \in OnItsWay
    BY <1>9 DEF Advance, Awaits
  <2>2. Targets(w) \subseteq Node \cup {NoNode}
    BY <1>2, <1>9, <2>1, TargetsAreNodes DEF Targets, LoadRun, Advance, Awaits
  <2>3. PICK n \in Targets(w) : WalkOn(w, worker[w], n)
    BY <1>9 DEF Advance
  <2>4. QED
    BY <1>3, <2>1, <2>2, <2>3, WalkOnHands
<1>10. CASE Pause(w) \/ ParkRun(w) \/ CompleteRun(w) \/ ScheduleResume(w)
  BY <1>5, <1>10 DEF Pause, ParkRun, CompleteRun, ScheduleResume
<1>11. CASE BeginDelay(w) \/ NotifyHandoff(w)
  BY <1>5, <1>11 DEF BeginDelay, NotifyHandoff, Awaits
<1>12. CASE SaveContactField(w) \/ ApplyAction(w)
  <2>1. /\ worker' \in [Worker -> WorkerState]
        /\ \A v \in Worker :
             /\ worker'[v].at = IF v = w THEN "advance" ELSE worker[v].at
             /\ worker'[v].event = worker[v].event /\ worker'[v].job = worker[v].job
             /\ worker'[v].run = worker[v].run /\ worker'[v].graph = worker[v].graph
             /\ worker'[v].node = worker[v].node /\ worker'[v].doing = worker[v].doing
             /\ worker'[v].workflow = worker[v].workflow
             /\ worker'[v].period = worker[v].period
             /\ worker[v] = Free => worker'[v] = Free
    BY <1>1, <1>12, ContactSet
  <2>2. worker[w].at \in OnItsWay
    BY <1>12 DEF SaveContactField, ApplyAction, Awaits
  <2>3. ASSUME NEW v \in Worker
        PROVE  InHand(worker[v])' /\ sender'[v].at \in SlotStages(worker'[v])
    <3>1. InHand(worker[v]) /\ sender[v].at \in SlotStages(worker[v]) /\ sender' = sender
      BY <1>3, HandKnown DEF quotaVars
    <3>2. CASE v = w
      <4>1. /\ worker'[w].at = "advance" /\ worker'[w].job = worker[w].job
            /\ worker'[w].run = worker[w].run /\ worker'[w].graph = worker[w].graph
        BY <2>1
      <4>2. InHand(worker[w])'
        BY <1>1, <1>2, <2>2, <4>1 DEF InHand, Grown, DispatchStep, SendStep
      <4>3. sender[w].at = "idle" /\ SlotStages(worker'[w]) = {"idle"}
        BY <1>1, <1>2, <4>1 DEF SlotStages
      <4>4. QED
        BY <3>1, <3>2, <4>2, <4>3
    <3>3. CASE v # w
      <4>1. worker'[v].at = worker[v].at
        BY <2>1, <3>3
      <4>2. worker[v].at = "idle" => worker'[v] = Free
        BY <2>1, <3>1 DEF InHand
      <4>3. InHand(worker[v])'
        BY <2>1, <3>1, <4>1, <4>2 DEF InHand, Grown
      <4>4. SlotStages(worker'[v]) = SlotStages(worker[v])
        BY <4>1 DEF SlotStages
      <4>5. QED
        BY <3>1, <4>3, <4>4
    <3>4. QED
      BY <3>2, <3>3
  <2>4. QED
    BY <2>1, <2>3 DEF HandsFit
<1>13. QED
  BY <1>6, <1>7, <1>8, <1>9, <1>10, <1>11, <1>12 DEF WalkProgress


LEMMA SendHands ==
    ASSUME FlowTypes, Grown, NEW w \in Worker, SendProgress(w) \/ SendDmFails(w)
    PROVE  HandsFit'
<1> USE DEF Step, SendStep, OnItsWay, Settling
<1>1. /\ worker \in [Worker -> WorkerState] /\ worker[w] \in WorkerState
      /\ InHand(worker[w]) /\ sender[w].at \in SlotStages(worker[w])
      /\ HandsFit /\ QuotaTypeOK
  BY HandKnown DEF FlowTypes
<1>2. worker[w].at \in SendStep
  BY DEF SendProgress, CheckConsent, CheckContactCap, GetDmQuota, IncrementDmUsage,
     DecrementDmUsage, FindNotice, CreateNotice, SendDm, SendDmFails, FlagAccount, RecordDm,
     Awaits
<1>3. /\ worker[w].run \in DOMAIN runs' /\ worker[w].graph \in Graph
      /\ worker[w].node \in Node /\ worker[w].doing # "none"
      /\ worker[w].at \in {"findNotice", "notice"} => worker[w].period \in Period
  BY <1>1, <1>2, HandKnown DEF InHand, Grown
<1>4. ASSUME NEW step \in SendStep, Moves(w, step), Stays(w),
             worker'[w].node = worker[w].node, worker'[w].doing = worker[w].doing,
             NEW stage, SlotMoves(w, stage), stage \in SlotStages(worker'[w]),
             step \in {"findNotice", "notice"} => worker'[w].period \in Period
      PROVE  HandsFit'
  BY <1>1, <1>2, <1>3, <1>4, WalkKept DEF Stays
<1>5. ASSUME NEW step \in SendStep, Goto(w, step), NEW stage, SlotMoves(w, stage),
             stage \in SlotStages(worker'[w]),
             step \in {"findNotice", "notice"} => worker[w].period \in Period
      PROVE  HandsFit'
  <2>1. Moves(w, step) /\ Stays(w) /\ Recalls(w)
    BY <1>1, <1>5, GotoMoves
  <2>2. QED
    BY <1>4, <1>5, <2>1 DEF Recalls
<1>6. ASSUME NEW ok \in BOOLEAN, Return(w, ok), SlotMoves(w, "idle") PROVE HandsFit'
  <2>1. PICK step \in {"advance", "pause", "finish"} : Moves(w, step) /\ Stays(w)
    BY <1>1, <1>3, <1>6, SendReturns
  <2>2. "idle" \in SlotStages(worker'[w])
    BY <2>1 DEF Moves, SlotStages
  <2>3. step \in OnItsWay \cup Settling /\ step \notin SendStep
    BY DEF WalkStep
  <2>4. QED
    BY <1>1, <1>2, <1>3, <1>6, <2>1, <2>2, <2>3, WalkKept DEF Stays
<1>7. ASSUME worker[w].at \in {"consent", "cap", "quota", "findNotice", "notice", "flag", "dmRow"},
             UNCHANGED quotaVars
      PROVE  SlotMoves(w, "idle")
  <2>1. sender[w].at = "idle"
    BY <1>1, <1>7 DEF SlotStages
  <2>2. QED
    BY <1>1, <1>7, <2>1, SlotSteps
<1>8. ASSUME NEW step \in SendStep, Goto(w, step) PROVE worker'[w].at = step
  BY <1>1, <1>8, GotoMoves DEF Moves
<1>9. CASE CheckConsent(w) \/ CheckContactCap(w) \/ FindNotice(w)
  <2>1. SlotMoves(w, "idle")
    BY <1>7, <1>9 DEF CheckConsent, CheckContactCap, FindNotice, Awaits
  <2>2. CASE Return(w, FALSE)
    BY <1>6, <2>1, <2>2
  <2>3. ASSUME NEW step \in {"cap", "quota", "notice"}, Goto(w, step),
               step = "notice" => worker[w].at = "findNotice"
        PROVE  HandsFit'
    <3>1. "idle" \in SlotStages(worker'[w])
      BY <1>8, <2>3 DEF SlotStages
    <3>2. QED
      BY <1>3, <1>5, <2>1, <2>3, <3>1
  <2>4. QED
    BY <1>9, <2>2, <2>3 DEF CheckConsent, CheckContactCap, FindNotice, Awaits
<1>10. CASE GetDmQuota(w)
  <2>1. Goto(w, "reserve") /\ SlotMoves(w, "quoted")
    BY <1>1, <1>10, SlotSteps DEF GetDmQuota
  <2>2. "quoted" \in SlotStages(worker'[w])
    BY <1>8, <2>1 DEF SlotStages
  <2>3. QED
    BY <1>5, <2>1, <2>2
<1>11. CASE IncrementDmUsage(w)
  <2>1. \/ SlotMoves(w, "over") /\ Goto(w, "release")
        \/ SlotMoves(w, "held") /\ Goto(w, "send")
    BY <1>1, <1>11, SlotSteps DEF IncrementDmUsage, SlotMoves
  <2>2. CASE SlotMoves(w, "over") /\ Goto(w, "release")
    <3>1. "over" \in SlotStages(worker'[w])
      BY <1>8, <2>2 DEF SlotStages
    <3>2. QED
      BY <1>5, <2>2, <3>1
  <2>3. CASE SlotMoves(w, "held") /\ Goto(w, "send")
    <3>1. "held" \in SlotStages(worker'[w])
      BY <1>8, <2>3 DEF SlotStages
    <3>2. QED
      BY <1>5, <2>3, <3>1
  <2>4. QED
    BY <2>1, <2>2, <2>3
<1>12. CASE DecrementDmUsage(w)
  <2>1. SlotMoves(w, "idle")
    BY <1>1, <1>12, SlotSteps DEF DecrementDmUsage
  <2>2. CASE /\ Moves(w, "findNotice") /\ Stays(w)
             /\ worker'[w].node = worker[w].node /\ worker'[w].doing = worker[w].doing
             /\ worker'[w].period \in Period
    <3>1. "idle" \in SlotStages(worker'[w])
      BY <2>2 DEF SlotStages, Moves
    <3>2. QED
      BY <1>4, <2>1, <2>2, <3>1
  <2>3. CASE Goto(w, "flag")
    <3>1. "idle" \in SlotStages(worker'[w])
      BY <1>8, <2>3 DEF SlotStages
    <3>2. QED
      BY <1>5, <2>1, <2>3, <3>1
  <2>4. CASE Goto(w, "throttled")
    <3>1. Moves(w, "throttled") /\ Stays(w)
      BY <1>1, <2>4, GotoMoves
    <3>2. "idle" \in SlotStages(worker'[w])
      BY <3>1 DEF SlotStages, Moves
    <3>3. QED
      BY <1>1, <1>2, <1>3, <2>1, <3>1, <3>2, WalkKept DEF Stays
  <2>5. QED
    BY <1>1, <1>6, <1>12, <2>1, <2>2, <2>3, <2>4, SlotReturned
<1>13. CASE CreateNotice(w) \/ FlagAccount(w) \/ RecordDm(w)
  <2>1. SlotMoves(w, "idle")
    BY <1>7, <1>13 DEF CreateNotice, FlagAccount, RecordDm, Awaits
  <2>2. QED
    BY <1>6, <1>13, <2>1 DEF CreateNotice, FlagAccount, RecordDm
<1>14. CASE SendDm(w)
  <2>1. Goto(w, "dmRow") /\ SlotMoves(w, "idle")
    BY <1>1, <1>14, SlotSteps DEF SendDm
  <2>2. "idle" \in SlotStages(worker'[w])
    BY <1>8, <2>1 DEF SlotStages
  <2>3. QED
    BY <1>5, <2>1, <2>2
<1>15. CASE SendDmFails(w)
  <2>1. Moves(w, "release") /\ Stays(w)
        /\ worker'[w].node = worker[w].node /\ worker'[w].doing = worker[w].doing
    BY <1>1, <1>15, ErrorCaught DEF SendDmFails
  <2>2. worker[w].at = "send" /\ UNCHANGED quotaVars
    BY <1>15 DEF SendDmFails, Awaits
  <2>3. sender[w].at = "held"
    BY <1>1, <2>2 DEF SlotStages
  <2>4. SlotMoves(w, "held") /\ "held" \in SlotStages(worker'[w])
    BY <1>1, <2>1, <2>2, <2>3, SlotSteps DEF SlotStages, Moves
  <2>5. QED
    BY <1>4, <2>1, <2>4
<1>16. QED
  BY <1>9, <1>10, <1>11, <1>12, <1>13, <1>14, <1>15 DEF SendProgress

LEMMA HandsStep ==
    ASSUME FlowTypes, [Next]_vars
    PROVE  HandsFit'
<1> USE DEF queueVars
<1>0. /\ HandsFit /\ QueuesFit /\ RunsFit /\ QuotaTypeOK /\ Grown
      /\ worker \in [Worker -> WorkerState]
  BY Grows DEF FlowTypes, HandsFit
<1>1. ASSUME UNCHANGED <<worker, quotaVars>> PROVE HandsFit'
  <2>1. \A v \in Worker : InHand(worker[v])'
    BY <1>0, <1>1 DEF HandsFit, InHand, Grown
  <2>2. worker' = worker /\ sender' = sender
    BY <1>1 DEF quotaVars
  <2>3. \A v \in Worker : sender'[v].at \in SlotStages(worker'[v])
    BY <1>0, <2>2 DEF HandsFit
  <2>4. QED
    BY <1>0, <2>1, <2>2, <2>3 DEF HandsFit
<1>2. ASSUME NEW w \in Worker, NEW e \in Event, TakeHook(w, e) PROVE HandsFit'
  <2>1. Aside(w) /\ worker'[w].at = "dedup" /\ worker'[w].event = e /\ worker'[w].job = 0
    BY <1>0, <1>2, HookTaken
  <2>2. InHand(worker[w])'
    BY <2>1 DEF InHand, DispatchStep, WalkStep, SendStep, OnItsWay, Settling
  <2>3. SlotMoves(w, "idle")
    <3>1. sender[w].at \in SlotStages(worker[w]) /\ worker[w].at = "idle" /\ UNCHANGED quotaVars
      BY <1>0, <1>2 DEF HandsFit, TakeHook, Awaits
    <3>2. QED
      BY <1>0, <3>1, SlotSteps DEF SlotStages
  <2>4. QED
    BY <1>0, <2>1, <2>2, <2>3, HandsKept DEF SlotStages
<1>3. ASSUME NEW w \in Worker, NEW i \in DOMAIN jobs, TakeJob(w, i) PROVE HandsFit'
  <2>1. i \in Nat /\ i \in DOMAIN jobs'
    BY <1>0, LenProperties DEF QueuesFit, Grown
  <2>2. Aside(w) /\ worker'[w].at = "load" /\ worker'[w].job = i
    BY <1>0, <1>3, <2>1, JobTaken
  <2>3. InHand(worker[w])'
    BY <2>1, <2>2 DEF InHand, DispatchStep, WalkStep, SendStep, OnItsWay, Settling
  <2>4. SlotMoves(w, "idle")
    <3>1. sender[w].at \in SlotStages(worker[w]) /\ worker[w].at = "idle" /\ UNCHANGED quotaVars
      BY <1>0, <1>3 DEF HandsFit, TakeJob, Awaits
    <3>2. QED
      BY <1>0, <3>1, SlotSteps DEF SlotStages
  <2>5. QED
    BY <1>0, <2>2, <2>3, <2>4, HandsKept DEF SlotStages
<1>4. ASSUME NEW w \in Worker, Settle(w) \/ Crash(w) PROVE HandsFit'
  <2>1. Aside(w) /\ worker'[w] = Free
    BY <1>0, <1>4, HandlerEnds
  <2>2. SlotMoves(w, "idle")
    <3>1. CASE Settle(w)
      <4>1. sender[w].at \in SlotStages(worker[w]) /\ UNCHANGED quotaVars
        BY <1>0, <3>1 DEF HandsFit, Settle
      <4>2. sender[w].at = "idle"
        BY <3>1, <4>1 DEF SlotStages, Settle, Settling
      <4>3. QED
        BY <1>0, <4>1, <4>2, SlotSteps
    <3>2. CASE Crash(w)
      BY <1>0, <3>2, SlotSteps DEF Crash
    <3>3. QED
      BY <1>4, <3>1, <3>2
  <2>3. InHand(worker[w])' /\ SlotStages(worker'[w]) = {"idle"}
    <3>1. worker'[w].at = "idle"
      BY <2>1 DEF Free
    <3>2. InHand(worker[w])'
      BY <2>1, <3>1 DEF InHand, DispatchStep, WalkStep, SendStep, OnItsWay, Settling
    <3>3. QED
      BY <2>1, <3>2, FreeFits
  <2>4. QED
    BY <1>0, <2>1, <2>2, <2>3, HandsKept
<1>5. ASSUME NEW w \in Worker, Throw(w) PROVE HandsFit'
  <2>1. SlotMoves(w, "idle")
    BY <1>0, <1>5, SlotSteps DEF Throw
  <2>2. /\ worker[w].at \in DispatchStep \cup WalkStep \cup SendStep
        /\ InHand(worker[w])
    BY <1>0, <1>5 DEF HandsFit, WorkerState, Throw
  <2>3. CASE Return(w, TRUE) /\ worker[w].at = "dmRow"
    <3>1. /\ worker[w].run \in DOMAIN runs /\ worker[w].graph \in Graph
          /\ worker[w].doing # "none"
      BY <2>2, <2>3 DEF InHand, SendStep, OnItsWay
    <3>2. PICK step \in {"advance", "pause", "finish"} : Moves(w, step) /\ Stays(w)
      BY <1>0, <2>3, <3>1, SendReturns
    <3>3. "idle" \in SlotStages(worker'[w])
      BY <3>2 DEF Moves, SlotStages
    <3>4. /\ step \in OnItsWay \cup Settling /\ step \notin SendStep
          /\ worker[w].at \in WalkStep \cup SendStep
      BY <2>3 DEF WalkStep, SendStep, OnItsWay, Settling
    <3>5. step \notin {"findNotice", "notice"}
      OBVIOUS
    <3>6. QED
      BY <1>0, <2>1, <3>1, <3>2, <3>3, <3>4, <3>5, WalkKept DEF Stays, Grown
  <2>4. CASE Goto(w, "rethrow")
    <3>1. Moves(w, "rethrow")
      BY <1>0, <2>4, GotoMoves DEF Step, Settling
    <3>2. "idle" \in SlotStages(worker'[w])
      BY <3>1 DEF Moves, SlotStages
    <3>3. CASE worker[w].at \in DispatchStep
      BY <1>0, <2>1, <3>1, <3>3, DispatchKept
    <3>4. CASE worker[w].at \in WalkStep \cup SendStep
      <4>1. "rethrow" \in OnItsWay \cup Settling /\ "rethrow" \notin OnItsWay \cup SendStep
        BY DEF WalkStep, SendStep, OnItsWay, Settling
      <4>2. QED
        BY <1>0, <2>1, <3>1, <3>2, <3>4, <4>1, WalkKept
    <3>5. QED
      BY <2>2, <3>3, <3>4
  <2>5. QED
    BY <1>5, <2>3, <2>4 DEF Throw, Awaits
<1>6. ASSUME NEW w \in Worker, DispatchProgress(w) \/ WalkProgress(w) \/ SendProgress(w)
                               \/ SendDmFails(w)
      PROVE  HandsFit'
  BY <1>0, <1>6, DispatchHands, WalkHands, SendHands
<1>7. ASSUME NEW e \in Event, Deliver(e) \/ Evict(e) \/ Recover(e) PROVE HandsFit'
  BY <1>1, <1>7 DEF Deliver, Evict, Recover
<1>8. ASSUME NEW i \in DOMAIN jobs, RecoverJob(i) PROVE HandsFit'
  BY <1>1, <1>8 DEF RecoverJob
<1>9. ASSUME NEW r \in DOMAIN runs, StopRun(r) \/ LoseStop(r) \/ WaitLapses(r) PROVE HandsFit'
  BY <1>1, <1>9 DEF StopRun, LoseStop, WaitLapses
<1>10. ASSUME NEW f \in Workflow, ChangeWorkflow(f) PROVE HandsFit'
  BY <1>1, <1>10 DEF ChangeWorkflow
<1>11. CASE ChangeTenant
  BY <1>1, <1>11 DEF ChangeTenant
<1>12. CASE UNCHANGED vars
  BY <1>1, <1>12 DEF vars
<1>13. QED
  BY <1>2, <1>3, <1>4, <1>5, <1>6, <1>7, <1>8, <1>9, <1>10, <1>11, <1>12 DEF Next


------------------------------------------------------------------------------
(* Queues keep their shape                                                 *)

LEMMA AbsentJob == Bull!Absent \in OwnedJob
  BY WorkflowAssumption DEF OwnedJob, Bull!Absent, Bull!Job, Bull!JobState

LEMMA JobSteps ==
    ASSUME NEW j \in OwnedJob
    PROVE  /\ Bull!Added(j) \in OwnedJob
           /\ Bull!Stalled(j) \in OwnedJob
           /\ \A w \in Worker :
                /\ Bull!Taken(j, w) \in OwnedJob
                /\ Bull!Completed(j, w) \in OwnedJob
                /\ \A attempts : Bull!Failed(j, w, attempts) \in OwnedJob
                /\ Bull!RateLimited(j, w) \in OwnedJob
<1> USE WorkflowAssumption DEF OwnedJob, Bull!Job, Bull!JobState, Bull!Absent
<1>1. j.made + 1 \in Nat /\ j.stalls + 1 \in Nat
  OBVIOUS
<1>2. Bull!Added(j) \in OwnedJob
  BY DEF Bull!Added
<1>3. Bull!Stalled(j) \in OwnedJob
  BY <1>1 DEF Bull!Stalled
<1>4. ASSUME NEW w \in Worker
      PROVE  /\ Bull!Taken(j, w) \in OwnedJob
             /\ Bull!Completed(j, w) \in OwnedJob
             /\ \A attempts : Bull!Failed(j, w, attempts) \in OwnedJob
             /\ Bull!RateLimited(j, w) \in OwnedJob
  <2>1. Bull!Taken(j, w) \in OwnedJob
    BY DEF Bull!Taken
  <2>2. Bull!Completed(j, w) \in OwnedJob
    BY DEF Bull!Completed
  <2>3. \A attempts : Bull!Failed(j, w, attempts) \in OwnedJob
    BY <1>1 DEF Bull!Failed
  <2>4. Bull!RateLimited(j, w) \in OwnedJob
    BY DEF Bull!RateLimited
  <2>5. QED
    BY <2>1, <2>2, <2>3, <2>4
<1>5. QED
  BY <1>2, <1>3, <1>4

LEMMA JobUpdated ==
    ASSUME QueuesFit, NEW i \in DOMAIN jobs, NEW b \in OwnedJob,
           jobs' = [jobs EXCEPT ![i].bull = b]
    PROVE  /\ jobs' \in Seq(FlowJob) /\ DOMAIN jobs' = DOMAIN jobs
           /\ \A k \in DOMAIN jobs :
                /\ jobs'[k].run = jobs[k].run /\ jobs'[k].resume = jobs[k].resume
                /\ jobs'[k].reply = jobs[k].reply
                /\ jobs'[k].bull = IF k = i THEN b ELSE jobs[k].bull
<1>1. /\ jobs \in Seq(FlowJob) /\ DOMAIN jobs = 1..Len(jobs) /\ b \in Bull!Job
      /\ \A k \in DOMAIN jobs : jobs[k] \in FlowJob
  BY LenProperties, ElementOfSeq DEF QueuesFit, OwnedJob
<1> DEFINE x == [jobs[i] EXCEPT !.bull = b]
<1>2. /\ x \in FlowJob
      /\ x.run = jobs[i].run /\ x.resume = jobs[i].resume
      /\ x.reply = jobs[i].reply /\ x.bull = b
  BY <1>1 DEF FlowJob
<1>3. jobs' = [jobs EXCEPT ![i] = x]
  OBVIOUS
<1> HIDE DEF x
<1>4. /\ [jobs EXCEPT ![i] = x] \in Seq(FlowJob)
      /\ \A k \in 1..Len(jobs) : [jobs EXCEPT ![i] = x][k] = IF k = i THEN x ELSE jobs[k]
  BY <1>1, <1>2, ExceptSeq
<1>5. QED
  BY <1>1, <1>2, <1>3, <1>4

LEMMA JobAdded ==
    ASSUME QueuesFit, RunsFit, NEW r \in DOMAIN runs, NEW resume \in BOOLEAN,
           NEW reply \in Event \cup {NoEvent}, AddJob(r, resume, reply)
    PROVE  LET k == Len(jobs) + 1 IN
           /\ jobs' \in Seq(FlowJob) /\ DOMAIN jobs' = DOMAIN jobs \cup {k}
           /\ k \notin DOMAIN jobs
           /\ jobs'[k].run = r /\ jobs'[k].resume = resume /\ jobs'[k].reply = reply
           /\ jobs'[k].bull \in OwnedJob /\ jobs'[k].bull.state = "waiting"
           /\ \A i \in DOMAIN jobs : jobs'[i] = jobs[i]
<1>1. /\ jobs \in Seq(FlowJob) /\ DOMAIN jobs = 1..Len(jobs) /\ Len(jobs) \in Nat
      /\ r \in Nat
  BY LenProperties DEF QueuesFit, RunsFit
<1>2. PICK b \in OwnedJob : b = Bull!Added(Bull!Absent) /\ b.state = "waiting"
  BY AbsentJob, JobSteps DEF Bull!Added, Bull!Absent
<1> DEFINE x == [run |-> r, resume |-> resume, reply |-> reply, bull |-> b]
<1>3. x \in FlowJob
  BY <1>1 DEF FlowJob, OwnedJob
<1>4. jobs' = Append(jobs, x)
  BY <1>2 DEF AddJob
<1>5. x.run = r /\ x.resume = resume /\ x.reply = reply /\ x.bull = b
  OBVIOUS
<1> HIDE DEF x
<1>6. Append(jobs, x) \in Seq(FlowJob)
  BY <1>1, <1>3
<1>7. QED
  BY <1>1, <1>2, <1>4, <1>5, <1>6, AppendGrows

LEMMA QueuesStep ==
    ASSUME FlowTypes, [Next]_vars
    PROVE  QueuesFit'
<1> USE DEF queueVars
<1>0. /\ QueuesFit /\ RunsFit /\ Grown /\ HandsFit /\ worker \in [Worker -> WorkerState]
  BY Grows DEF FlowTypes, HandsFit
<1>1. ASSUME jobs' = jobs, hook' \in [Event -> OwnedJob] PROVE QueuesFit'
  BY <1>0, <1>1 DEF QueuesFit, Grown
<1>2. ASSUME jobs' = jobs, hook' = hook PROVE QueuesFit'
  BY <1>0, <1>1, <1>2 DEF QueuesFit
<1>3. ASSUME NEW i \in DOMAIN jobs, NEW b \in OwnedJob, jobs' = [jobs EXCEPT ![i].bull = b],
             hook' = hook
      PROVE  QueuesFit'
  <2>1. /\ jobs' \in Seq(FlowJob) /\ DOMAIN jobs' = DOMAIN jobs
        /\ \A k \in DOMAIN jobs :
             /\ jobs'[k].run = jobs[k].run
             /\ jobs'[k].bull = IF k = i THEN b ELSE jobs[k].bull
    BY <1>0, <1>3, JobUpdated
  <2>2. QED
    BY <1>0, <1>3, <2>1 DEF QueuesFit, Grown
<1>4. ASSUME NEW r \in DOMAIN runs, NEW resume \in BOOLEAN, NEW reply \in Event \cup {NoEvent},
             AddJob(r, resume, reply), hook' = hook
      PROVE  QueuesFit'
  <2>1. PICK k : k = Len(jobs) + 1
    OBVIOUS
  <2>2. /\ jobs' \in Seq(FlowJob) /\ DOMAIN jobs' = DOMAIN jobs \cup {k}
        /\ jobs'[k].run = r /\ jobs'[k].bull \in OwnedJob
        /\ \A i \in DOMAIN jobs : jobs'[i] = jobs[i]
    BY <1>0, <1>4, <2>1, JobAdded
  <2>3. QED
    BY <1>0, <1>4, <2>2 DEF QueuesFit, Grown
<1>5. ASSUME NEW e \in Event, Deliver(e) \/ Evict(e) \/ Recover(e) PROVE QueuesFit'
  <2>1. /\ hook \in [Event -> OwnedJob] /\ jobs' = jobs
        /\ \/ hook' = [hook EXCEPT ![e] = Bull!Added(@)]
           \/ hook' = [hook EXCEPT ![e] = Bull!Absent]
           \/ hook' = [hook EXCEPT ![e] = Bull!Stalled(@)]
    BY <1>0, <1>5 DEF Deliver, Evict, Recover, QueuesFit
  <2>2. QED
    BY <1>1, <2>1, AbsentJob, JobSteps
<1>6. ASSUME NEW i \in DOMAIN jobs, RecoverJob(i) PROVE QueuesFit'
  <2>1. PICK b \in OwnedJob : b = Bull!Stalled(jobs[i].bull)
    BY <1>0, JobSteps DEF QueuesFit
  <2>2. jobs' = [jobs EXCEPT ![i].bull = b] /\ hook' = hook
    BY <1>6, <2>1 DEF RecoverJob
  <2>3. QED
    BY <1>3, <2>2
<1>7. ASSUME NEW w \in Worker, NEW e \in Event, TakeHook(w, e) PROVE QueuesFit'
  BY <1>0, <1>1, <1>7, JobSteps DEF TakeHook, QueuesFit
<1>8. ASSUME NEW w \in Worker, NEW i \in DOMAIN jobs, TakeJob(w, i) PROVE QueuesFit'
  <2>1. PICK b \in OwnedJob : b = Bull!Taken(jobs[i].bull, w)
    BY <1>0, JobSteps DEF QueuesFit
  <2>2. jobs' = [jobs EXCEPT ![i].bull = b] /\ hook' = hook
    BY <1>8, <2>1 DEF TakeJob
  <2>3. QED
    BY <1>3, <2>2
<1>9. ASSUME NEW w \in Worker, Settle(w) PROVE QueuesFit'
  <2>1. /\ worker[w].job \in DOMAIN jobs \/ (worker[w].job = 0 /\ worker[w].event \in Event)
        /\ worker[w].at \in {"finish", "rethrow", "throttled"}
    BY <1>0, <1>9 DEF Settle, Settling, HandsFit, InHand
  <2>2. ASSUME NEW j \in OwnedJob, NEW attempts
        PROVE  Settled(w, j, attempts) \in OwnedJob
    BY <2>1, JobSteps DEF Settled, Awaits
  <2>3. CASE worker[w].job = 0
    <3>1. worker[w].event \in Event
      <4>1. 0 \notin DOMAIN jobs
        BY <1>0, LenProperties DEF QueuesFit
      <4>2. QED
        BY <2>1, <2>3, <4>1
    <3>2. PICK b \in OwnedJob : b = Settled(w, hook[worker[w].event], WebhookAttempts)
      BY <1>0, <2>2, <3>1 DEF QueuesFit
    <3>3. hook' = [hook EXCEPT ![worker[w].event] = b] /\ jobs' = jobs
      BY <1>9, <2>3, <3>2 DEF Settle
    <3>4. QED
      BY <1>0, <1>1, <3>1, <3>3 DEF QueuesFit
  <2>4. CASE worker[w].job # 0
    <3>1. worker[w].job \in DOMAIN jobs
      BY <2>1, <2>4
    <3>2. PICK b \in OwnedJob : b = Settled(w, jobs[worker[w].job].bull, WorkflowAttempts)
      BY <1>0, <2>2, <3>1 DEF QueuesFit
    <3>3. jobs' = [jobs EXCEPT ![worker[w].job].bull = b] /\ hook' = hook
      BY <1>9, <2>4, <3>2 DEF Settle
    <3>4. QED
      BY <1>3, <3>1, <3>3
  <2>5. QED
    BY <2>3, <2>4
<1>10. ASSUME NEW w \in Worker, FeedReply(w) \/ EnqueueRun(w) \/ ScheduleResume(w)
       PROVE  QueuesFit'
  <2>1. InHand(worker[w]) /\ worker[w].at \in {"feed", "enqueue", "schedule"}
    BY <1>0, <1>10 DEF HandsFit, FeedReply, EnqueueRun, ScheduleResume, Awaits
  <2>2. worker[w].run \in DOMAIN runs /\ (worker[w].at # "schedule" => EventOf(w) \in Event)
    BY <2>1 DEF InHand, DispatchStep, OnItsWay, WalkStep, EventOf
  <2>3. \E resume \in BOOLEAN, reply \in Event \cup {NoEvent} :
           AddJob(worker[w].run, resume, reply)
    BY <1>10, <2>2 DEF FeedReply, EnqueueRun, ScheduleResume, RunOf, Awaits
  <2>4. hook' = hook
    BY <1>10 DEF FeedReply, EnqueueRun, ScheduleResume
  <2>5. QED
    BY <1>4, <2>2, <2>3, <2>4
<1>11. ASSUME NEW w \in Worker,
              DispatchProgress(w) /\ ~ FeedReply(w) /\ ~ EnqueueRun(w)
       PROVE  QueuesFit'
  BY <1>2, <1>11 DEF DispatchProgress, Dedup, Resolve, RecordProcessed, Unsubscribe,
     FindWaitingRun, ExpireRun, AwakenRun, MatchWorkflow, CreateRun
<1>12. ASSUME NEW w \in Worker, WalkProgress(w) /\ ~ ScheduleResume(w) PROVE QueuesFit'
  BY <1>2, <1>12 DEF WalkProgress, LoadRun, LoadAccount, WakeRun, Advance, Pause, BeginDelay,
     SaveContactField, ApplyAction, NotifyHandoff, ParkRun, CompleteRun
<1>13. ASSUME NEW w \in Worker, SendProgress(w) PROVE QueuesFit'
  BY <1>2, <1>13 DEF SendProgress, CheckConsent, CheckContactCap, GetDmQuota, IncrementDmUsage,
     DecrementDmUsage, FindNotice, CreateNotice, SendDm, FlagAccount, RecordDm
<1>14. ASSUME NEW w \in Worker, SendDmFails(w) \/ Throw(w) \/ Crash(w) PROVE QueuesFit'
  BY <1>2, <1>14 DEF SendDmFails, Throw, Crash
<1>15. ASSUME NEW r \in DOMAIN runs, StopRun(r) \/ LoseStop(r) \/ WaitLapses(r)
       PROVE  QueuesFit'
  BY <1>2, <1>15 DEF StopRun, LoseStop, WaitLapses
<1>16. ASSUME NEW f \in Workflow, ChangeWorkflow(f) PROVE QueuesFit'
  BY <1>2, <1>16 DEF ChangeWorkflow
<1>17. CASE ChangeTenant \/ UNCHANGED vars
  BY <1>2, <1>17 DEF ChangeTenant, vars
<1>18. QED
  BY <1>5, <1>6, <1>7, <1>8, <1>9, <1>10, <1>11, <1>12, <1>13, <1>14, <1>15, <1>16, <1>17
     DEF Next


------------------------------------------------------------------------------
(* Runs keep their shape                                                   *)

LEMMA RunUpdated ==
    ASSUME RunsFit, NEW r \in DOMAIN runs, NEW row \in Run, UpdateRun(r, row)
    PROVE  /\ runs' \in Seq(Run) /\ DOMAIN runs' = DOMAIN runs /\ Len(runs') = Len(runs)
           /\ \A q \in DOMAIN runs : runs'[q] = IF q = r THEN row ELSE runs[q]
           /\ recency' \subseteq (DOMAIN runs) \X (DOMAIN runs)
<1>1. runs \in Seq(Run) /\ DOMAIN runs = 1..Len(runs)
  BY LenProperties DEF RunsFit
<1>2. runs' = [runs EXCEPT ![r] = row] /\ recency' = Touched(r)
  BY DEF UpdateRun
<1>3. /\ [runs EXCEPT ![r] = row] \in Seq(Run)
      /\ Len([runs EXCEPT ![r] = row]) = Len(runs)
      /\ \A q \in 1..Len(runs) : [runs EXCEPT ![r] = row][q] = IF q = r THEN row ELSE runs[q]
  BY <1>1, ExceptSeq
<1>4. DOMAIN [runs EXCEPT ![r] = row] = DOMAIN runs
  OBVIOUS
<1>5. Touched(r) \subseteq (DOMAIN runs) \X (DOMAIN runs)
  BY DEF Touched, RunsFit
<1>6. QED
  BY <1>1, <1>2, <1>3, <1>4, <1>5

(* The rows that updates of a run write are rows of a run.                 *)
LEMMA RowsWritten ==
    ASSUME NEW row \in Run
    PROVE  /\ \A status \in RunStatus : [row EXCEPT !.status = status] \in Run
           /\ [row EXCEPT !.lapsed = TRUE] \in Run
           /\ \A n \in Node \cup {NoNode}, v \in Vars :
                /\ [row EXCEPT !.node = n, !.vars = v] \in Run
                /\ \A status \in RunStatus, wait \in {"none", "reply", "delay"} :
                     /\ [row EXCEPT !.status = status, !.node = n, !.vars = v] \in Run
                     /\ [row EXCEPT !.status = status, !.node = n, !.wait = wait, !.vars = v] \in Run
                     /\ [row EXCEPT !.status = status, !.node = n, !.wait = wait,
                                    !.lapsed = FALSE, !.vars = v] \in Run
<1>1. \A status \in RunStatus : [row EXCEPT !.status = status] \in Run
  BY DEF Run
<1>2. [row EXCEPT !.lapsed = TRUE] \in Run
  BY DEF Run
<1>3. ASSUME NEW n \in Node \cup {NoNode}, NEW v \in Vars
      PROVE  [row EXCEPT !.node = n, !.vars = v] \in Run
  BY DEF Run
<1>4. ASSUME NEW n \in Node \cup {NoNode}, NEW v \in Vars, NEW status \in RunStatus,
             NEW wait \in {"none", "reply", "delay"}
      PROVE  /\ [row EXCEPT !.status = status, !.node = n, !.vars = v] \in Run
             /\ [row EXCEPT !.status = status, !.node = n, !.wait = wait, !.vars = v] \in Run
             /\ [row EXCEPT !.status = status, !.node = n, !.wait = wait,
                            !.lapsed = FALSE, !.vars = v] \in Run
  <2> DEFINE y == [row EXCEPT !.node = n, !.vars = v]
             z == [y EXCEPT !.status = status, !.wait = wait]
  <2>1. y \in Run
    BY <1>3
  <2>2. [row EXCEPT !.status = status, !.node = n, !.vars = v] = [y EXCEPT !.status = status]
    BY DEF Run
  <2>3. [row EXCEPT !.status = status, !.node = n, !.wait = wait, !.vars = v] = z
    BY DEF Run
  <2>4. [row EXCEPT !.status = status, !.node = n, !.wait = wait, !.lapsed = FALSE, !.vars = v]
          = [z EXCEPT !.lapsed = FALSE]
    BY DEF Run
  <2> HIDE DEF y
  <2>5. [y EXCEPT !.status = status] \in Run /\ z \in Run
    BY <2>1 DEF Run
  <2> HIDE DEF z
  <2>6. [z EXCEPT !.lapsed = FALSE] \in Run
    BY <2>5 DEF Run
  <2>7. QED
    BY <2>2, <2>3, <2>4, <2>5, <2>6
<1>5. QED
  BY <1>1, <1>2, <1>3, <1>4

LEMMA RunCreated ==
    ASSUME FlowTypes, NEW w \in Worker, CreateRun(w)
    PROVE  LET r == Len(runs) + 1 IN
           /\ runs' \in Seq(Run) /\ DOMAIN runs' = DOMAIN runs \cup {r} /\ r \notin DOMAIN runs
           /\ Len(runs') = Len(runs) + 1
           /\ runs'[r].status = "RUNNING"
           /\ \A q \in DOMAIN runs : runs'[q] = runs[q]
           /\ recency' \subseteq (DOMAIN runs') \X (DOMAIN runs')
           /\ delivered' \in Seq([Node -> Nat]) /\ Len(delivered') = Len(runs')
<1>1. /\ runs \in Seq(Run) /\ DOMAIN runs = 1..Len(runs) /\ Len(runs) \in Nat
      /\ delivered \in Seq([Node -> Nat]) /\ Len(delivered) = Len(runs)
  BY LenProperties DEF FlowTypes, RunsFit
<1>2. /\ worker[w].workflow \in Workflow /\ worker[w].graph \in Graph /\ EventOf(w) \in Event
  BY HandKnown DEF InHand, CreateRun, Awaits, DispatchStep, EventOf
<1>3. PICK n \in Node \cup {NoNode} :
        runs' = Append(runs, [workflow |-> worker[w].workflow, event |-> EventOf(w),
                              status |-> "RUNNING", node |-> n, wait |-> "none",
                              lapsed |-> FALSE, vars |-> Fresh])
  BY <1>2, TargetsAreNodes DEF CreateRun
<1>4. Fresh \in Vars
  BY DEF Fresh, Vars
<1>5. PICK row \in Run : runs' = Append(runs, row) /\ row.status = "RUNNING"
  <2> DEFINE row == [workflow |-> worker[w].workflow, event |-> EventOf(w),
                     status |-> "RUNNING", node |-> n, wait |-> "none",
                     lapsed |-> FALSE, vars |-> Fresh]
  <2>1. row \in Run /\ row.status = "RUNNING"
    BY <1>2, <1>4 DEF Run, RunStatus
  <2>2. runs' = Append(runs, row)
    BY <1>3
  <2> HIDE DEF row
  <2>3. QED
    BY <2>1, <2>2
<1>6. /\ runs' \in Seq(Run) /\ Len(runs') = Len(runs) + 1
      /\ DOMAIN runs' = DOMAIN runs \cup {Len(runs) + 1}
      /\ runs'[Len(runs) + 1] = row
      /\ \A q \in DOMAIN runs : runs'[q] = runs[q]
  BY <1>1, <1>5, AppendGrows
<1>7. recency' \subseteq (DOMAIN runs') \X (DOMAIN runs')
  <2>1. recency \subseteq (DOMAIN runs) \X (DOMAIN runs)
    BY DEF FlowTypes, RunsFit
  <2>2. recency' = recency \cup {<<q, Len(runs) + 1>> : q \in DOMAIN runs}
    BY DEF CreateRun
  <2>3. QED
    BY <1>6, <2>1, <2>2
<1>8. delivered' \in Seq([Node -> Nat]) /\ Len(delivered') = Len(runs')
  <2>1. [n1 \in Node |-> 0] \in [Node -> Nat]
    OBVIOUS
  <2>2. delivered' = Append(delivered, [n1 \in Node |-> 0])
    BY DEF CreateRun
  <2>3. QED
    BY <1>1, <1>6, <2>1, <2>2
<1>9. QED
  BY <1>1, <1>5, <1>6, <1>7, <1>8

LEMMA DeliveryCounted ==
    ASSUME RunsFit, NEW w \in Worker, RunOf(w) \in DOMAIN runs, worker[w].node \in Node
    PROVE  /\ Delivered(w) \in Seq([Node -> Nat]) /\ Len(Delivered(w)) = Len(runs)
<1>1. /\ delivered \in Seq([Node -> Nat]) /\ RunOf(w) \in 1..Len(delivered)
      /\ delivered[RunOf(w)] \in [Node -> Nat]
  BY LenProperties, ElementOfSeq DEF RunsFit
<1>2. delivered[RunOf(w)][worker[w].node] + 1 \in Nat
  BY <1>1
<1>3. PICK row \in [Node -> Nat] : row = [delivered[RunOf(w)] EXCEPT ![worker[w].node] = @ + 1]
  BY <1>1, <1>2
<1>4. Delivered(w) = [delivered EXCEPT ![RunOf(w)] = row]
  BY <1>3 DEF Delivered
<1>5. QED
  BY <1>1, <1>3, <1>4, ExceptSeq DEF RunsFit

(* The updates of a run that a walk makes.                                 *)
LEMMA WalkUpdates ==
    ASSUME FlowTypes, NEW w \in Worker,
           WakeRun(w) \/ Advance(w) \/ Pause(w) \/ BeginDelay(w) \/ ParkRun(w) \/ CompleteRun(w)
    PROVE  RunOf(w) \in DOMAIN runs /\ \E row \in Run : UpdateRun(RunOf(w), row)
<1> USE DEF WalkStep, OnItsWay
<1>1. /\ worker[w] \in WorkerState
      /\ worker[w].at \in OnItsWay => RunOf(w) \in DOMAIN runs /\ runs[RunOf(w)] \in Run
                                      /\ worker[w].graph \in Graph
  BY HandKnown DEF RunOf
<1>2. worker[w].at \in OnItsWay /\ worker[w].at \in WalkStep
  BY DEF WakeRun, Advance, Pause, BeginDelay, ParkRun, CompleteRun, Awaits
<1>3. /\ RunOf(w) \in DOMAIN runs /\ runs[RunOf(w)] \in Run /\ RunOf(w) = worker[w].run
      /\ worker[w].vars \in Vars /\ worker[w].node \in Node \cup {NoNode}
      /\ worker[w].graph \in Graph
  BY <1>1, <1>2 DEF WorkerState, RunOf
<1>4. {"RUNNING", "WAITING", "HANDOFF", "COMPLETED"} \subseteq RunStatus
  BY DEF RunStatus
<1>5. CASE WakeRun(w)
  BY <1>3, <1>4, <1>5, RowsWritten DEF WakeRun
<1>6. CASE Advance(w)
  <2>1. Targets(w) \subseteq Node \cup {NoNode}
    BY <1>3, TargetsAreNodes DEF Targets
  <2>2. QED
    BY <1>3, <1>6, <2>1, RowsWritten DEF Advance
<1>7. CASE Pause(w)
  BY <1>3, <1>4, <1>7, RowsWritten DEF Pause
<1>8. CASE BeginDelay(w)
  <2>1. FirstEdgeTargets(worker[w].graph, worker[w].node) \subseteq Node \cup {NoNode}
    BY <1>3, TargetsAreNodes
  <2>2. QED
    BY <1>3, <1>4, <1>8, <2>1, RowsWritten DEF BeginDelay
<1>9. CASE ParkRun(w)
  BY <1>3, <1>4, <1>9, RowsWritten DEF ParkRun
<1>10. CASE CompleteRun(w)
  <2>1. NoNode \in Node \cup {NoNode}
    OBVIOUS
  <2>2. QED
    BY <1>3, <1>4, <1>10, <2>1, RowsWritten DEF CompleteRun
<1>11. QED
  BY <1>5, <1>6, <1>7, <1>8, <1>9, <1>10

(* What a handler that walks on or returns from a send may stop.           *)
LEMMA StopsOwnRun ==
    ASSUME FlowTypes, NEW w \in Worker,
           WalkProgress(w) \/ SendProgress(w) \/ Throw(w)
    PROVE  /\ stops' \in {stops, stops \cup {RunOf(w)}}
           /\ stops' # stops => RunOf(w) \in DOMAIN runs
<1>1. worker[w].at \in OnItsWay => RunOf(w) \in DOMAIN runs
  BY HandKnown DEF RunOf
<1>2. worker[w].at \in OnItsWay \/ UNCHANGED stops
  <2>1. CASE WalkProgress(w)
    BY <2>1 DEF WalkProgress, LoadRun, LoadAccount, WakeRun, Advance, Pause, BeginDelay,
       ScheduleResume, SaveContactField, ApplyAction, NotifyHandoff, ParkRun, CompleteRun,
       Awaits, OnItsWay, WalkStep, runVars
  <2>2. CASE SendProgress(w)
    BY <2>2 DEF SendProgress, CheckConsent, CheckContactCap, GetDmQuota, IncrementDmUsage,
       DecrementDmUsage, FindNotice, CreateNotice, SendDm, FlagAccount, RecordDm, Awaits,
       OnItsWay, SendStep
  <2>3. CASE Throw(w)
    BY <2>3 DEF Throw, Awaits, OnItsWay, SendStep
  <2>4. QED
    BY <2>1, <2>2, <2>3
<1>3. stops' \in {stops, stops \cup {RunOf(w)}}
  <2>1. ASSUME NEW n, WalkOn(w, worker[w], n) PROVE stops' \in {stops, stops \cup {RunOf(w)}}
    BY <2>1 DEF WalkOn, RunOf
  <2>2. ASSUME NEW ok, Return(w, ok) PROVE stops' \in {stops, stops \cup {RunOf(w)}}
    BY <2>2 DEF Return, RunOf
  <2>3. CASE WalkProgress(w)
    BY <2>1, <2>3 DEF WalkProgress, LoadRun, LoadAccount, WakeRun, Advance, Pause, BeginDelay,
       ScheduleResume, SaveContactField, ApplyAction, NotifyHandoff, ParkRun, CompleteRun,
       RunOf, runVars
  <2>4. CASE SendProgress(w)
    BY <2>2, <2>4 DEF SendProgress, CheckConsent, CheckContactCap, GetDmQuota,
       IncrementDmUsage, DecrementDmUsage, FindNotice, CreateNotice, SendDm, FlagAccount,
       RecordDm, runVars
  <2>5. CASE Throw(w)
    BY <2>2, <2>5 DEF Throw
  <2>6. QED
    BY <2>3, <2>4, <2>5
<1>4. QED
  BY <1>1, <1>2, <1>3

LEMMA RunsStep ==
    ASSUME FlowTypes, [Next]_vars
    PROVE  RunsFit'
<1> USE DEF runVars, historyVars
<1>0. RunsFit /\ QueuesFit
  BY DEF FlowTypes
<1>1. ASSUME runs' = runs, recency' = recency, delivered' = delivered, raced' = raced,
             stops' \subseteq DOMAIN runs
      PROVE  RunsFit'
  BY <1>0, <1>1 DEF RunsFit
<1>2. ASSUME UNCHANGED <<runVars, delivered, raced>> PROVE RunsFit'
  BY <1>0, <1>1, <1>2 DEF RunsFit
<1>3. ASSUME NEW r \in DOMAIN runs, NEW row \in Run, UpdateRun(r, row),
             delivered' = delivered, raced' = raced, stops' \subseteq DOMAIN runs
      PROVE  RunsFit'
  BY <1>0, <1>3, RunUpdated DEF RunsFit
<1>4. ASSUME NEW e \in Event, Deliver(e) \/ Evict(e) \/ Recover(e) PROVE RunsFit'
  BY <1>2, <1>4 DEF Deliver, Evict, Recover
<1>5. ASSUME NEW i \in DOMAIN jobs, RecoverJob(i) PROVE RunsFit'
  BY <1>2, <1>5 DEF RecoverJob
<1>6. ASSUME NEW w \in Worker, NEW e \in Event, TakeHook(w, e) PROVE RunsFit'
  BY <1>2, <1>6 DEF TakeHook
<1>7. ASSUME NEW w \in Worker, NEW i \in DOMAIN jobs, TakeJob(w, i) PROVE RunsFit'
  BY <1>2, <1>7 DEF TakeJob
<1>8. ASSUME NEW w \in Worker, CreateRun(w) PROVE RunsFit'
  <2>1. /\ runs' \in Seq(Run) /\ DOMAIN runs \subseteq DOMAIN runs'
        /\ recency' \subseteq (DOMAIN runs') \X (DOMAIN runs')
        /\ delivered' \in Seq([Node -> Nat]) /\ Len(delivered') = Len(runs')
    BY <1>8, RunCreated
  <2>2. stops' = stops /\ raced' = raced
    BY <1>8 DEF CreateRun
  <2>3. QED
    BY <1>0, <2>1, <2>2 DEF RunsFit
<1>9. ASSUME NEW w \in Worker, ExpireRun(w) \/ AwakenRun(w) PROVE RunsFit'
  <2>1. worker[w].run \in DOMAIN runs /\ runs[worker[w].run] \in Run
    BY <1>9, HandKnown DEF ExpireRun, AwakenRun, Awaits, InHand
  <2>2. \E row \in Run : UpdateRun(worker[w].run, row)
    BY <1>9, <2>1, RowsWritten DEF ExpireRun, AwakenRun, RunStatus
  <2>3. UNCHANGED <<stops, delivered, raced>>
    BY <1>9 DEF ExpireRun, AwakenRun
  <2>4. QED
    BY <1>0, <1>3, <2>1, <2>2, <2>3 DEF RunsFit
<1>10. ASSUME NEW w \in Worker, DispatchProgress(w), ~ CreateRun(w), ~ ExpireRun(w), ~ AwakenRun(w)
       PROVE  RunsFit'
  BY <1>2, <1>10 DEF DispatchProgress, Dedup, Resolve, RecordProcessed, Unsubscribe,
     FindWaitingRun, FeedReply, MatchWorkflow, EnqueueRun
<1>11. ASSUME NEW w \in Worker, LoadRun(w) PROVE RunsFit'
  <2>1. worker[w].job \in DOMAIN jobs
    BY <1>11, HandKnown DEF LoadRun, Awaits, InHand, WalkStep
  <2>2. JobOf(w).run \in DOMAIN runs
    BY <1>0, <2>1 DEF QueuesFit, JobOf
  <2>3. raced' \subseteq raced \cup {JobOf(w).run}
    BY <1>11 DEF LoadRun
  <2>4. UNCHANGED <<runVars, delivered>>
    BY <1>11 DEF LoadRun
  <2>5. QED
    BY <1>0, <2>2, <2>3, <2>4 DEF RunsFit
<1>12. ASSUME NEW w \in Worker, WalkProgress(w) \/ SendProgress(w) \/ Throw(w)
       PROVE  stops' \subseteq DOMAIN runs
  BY <1>0, <1>12, StopsOwnRun DEF RunsFit
<1>13. ASSUME NEW w \in Worker,
              WakeRun(w) \/ Advance(w) \/ Pause(w) \/ BeginDelay(w) \/ ParkRun(w) \/ CompleteRun(w)
       PROVE  RunsFit'
  <2>1. RunOf(w) \in DOMAIN runs /\ \E row \in Run : UpdateRun(RunOf(w), row)
    BY <1>13, WalkUpdates
  <2>2. stops' \subseteq DOMAIN runs
    BY <1>12, <1>13 DEF WalkProgress
  <2>3. UNCHANGED <<delivered, raced>>
    BY <1>13 DEF WakeRun, Advance, Pause, BeginDelay, ParkRun, CompleteRun
  <2>4. QED
    BY <1>3, <2>1, <2>2, <2>3
<1>14. ASSUME NEW w \in Worker,
              LoadAccount(w) \/ ScheduleResume(w) \/ SaveContactField(w) \/ ApplyAction(w)
              \/ NotifyHandoff(w)
       PROVE  RunsFit'
  <2>1. stops' \subseteq DOMAIN runs
    BY <1>12, <1>14 DEF WalkProgress
  <2>2. UNCHANGED <<runs, recency, delivered, raced>>
    BY <1>14 DEF LoadAccount, ScheduleResume, SaveContactField, ApplyAction, NotifyHandoff
  <2>3. QED
    BY <1>1, <2>1, <2>2
<1>15. ASSUME NEW w \in Worker, SendDm(w) \/ SendDmFails(w) PROVE RunsFit'
  <2>1. RunOf(w) \in DOMAIN runs /\ worker[w].node \in Node
    BY <1>15, HandKnown DEF SendDm, SendDmFails, Awaits, InHand, RunOf, SendStep, OnItsWay
  <2>2. delivered' \in {delivered, Delivered(w)} /\ UNCHANGED <<runVars, raced>>
    BY <1>15 DEF SendDm, SendDmFails
  <2>3. QED
    BY <1>0, <2>1, <2>2, DeliveryCounted DEF RunsFit
<1>16. ASSUME NEW w \in Worker, SendProgress(w) /\ ~ SendDm(w) PROVE RunsFit'
  <2>1. stops' \subseteq DOMAIN runs
    BY <1>12, <1>16
  <2>2. UNCHANGED <<runs, recency, delivered, raced>>
    BY <1>16 DEF SendProgress, CheckConsent, CheckContactCap, GetDmQuota,
       IncrementDmUsage, DecrementDmUsage, FindNotice, CreateNotice, FlagAccount, RecordDm
  <2>3. QED
    BY <1>1, <2>1, <2>2
<1>17. ASSUME NEW w \in Worker, Throw(w) PROVE RunsFit'
  BY <1>1, <1>12, <1>17 DEF Throw
<1>18. ASSUME NEW w \in Worker, Settle(w) \/ Crash(w) PROVE RunsFit'
  BY <1>2, <1>18 DEF Settle, Crash
<1>19. ASSUME NEW r \in DOMAIN runs, StopRun(r) PROVE RunsFit'
  <2>1. runs[r] \in Run
    BY <1>0, LenProperties, ElementOfSeq DEF RunsFit
  <2>2. \E row \in Run : UpdateRun(r, row)
    BY <1>19, <2>1, RowsWritten DEF StopRun, RunStatus
  <2>3. stops' \subseteq DOMAIN runs /\ UNCHANGED <<delivered, raced>>
    BY <1>0, <1>19 DEF StopRun, RunsFit
  <2>4. QED
    BY <1>3, <2>2, <2>3
<1>20. ASSUME NEW r \in DOMAIN runs, LoseStop(r) PROVE RunsFit'
  BY <1>0, <1>1, <1>20 DEF LoseStop, RunsFit
<1>21. ASSUME NEW r \in DOMAIN runs, WaitLapses(r) PROVE RunsFit'
  <2>1. runs \in Seq(Run) /\ r \in 1..Len(runs) /\ runs[r] \in Run
    BY <1>0, LenProperties, ElementOfSeq DEF RunsFit
  <2>2. PICK row \in Run : row = [runs[r] EXCEPT !.lapsed = TRUE]
    BY <2>1, RowsWritten
  <2>3. runs' = [runs EXCEPT ![r] = row] /\ DOMAIN runs' = DOMAIN runs
    BY <1>21, <2>2 DEF WaitLapses
  <2>4. runs' \in Seq(Run) /\ Len(runs') = Len(runs)
    BY <2>1, <2>3, ExceptSeq
  <2>5. UNCHANGED <<recency, stops, delivered, raced>>
    BY <1>21 DEF WaitLapses
  <2>6. QED
    BY <1>0, <2>3, <2>4, <2>5 DEF RunsFit
<1>22. ASSUME NEW f \in Workflow, ChangeWorkflow(f) PROVE RunsFit'
  BY <1>2, <1>22 DEF ChangeWorkflow
<1>23. CASE ChangeTenant \/ UNCHANGED vars
  BY <1>2, <1>23 DEF ChangeTenant, vars
<1>24. QED
  BY <1>4, <1>5, <1>6, <1>7, <1>8, <1>9, <1>10, <1>11, <1>13, <1>14, <1>15, <1>16, <1>17,
     <1>18, <1>19, <1>20, <1>21, <1>22, <1>23 DEF Next, WalkProgress

------------------------------------------------------------------------------
(* Rows keep their shape                                                   *)

LEMMA CountedOnce ==
    ASSUME NEW S, NEW f \in [S -> Nat], NEW x \in S
    PROVE  [f EXCEPT ![x] = @ + 1] \in [S -> Nat]
<1>1. f[x] + 1 \in Nat
  OBVIOUS
<1>2. QED
  BY <1>1

LEMMA BudgetKept ==
    ASSUME faults \in 0..MaxUpsets, edits \in 0..MaxUpsets,
           Fault \/ Edit \/ UNCHANGED budgetVars
    PROVE  faults' \in 0..MaxUpsets /\ edits' \in 0..MaxUpsets
<1>1. MaxUpsets \in Nat
  BY WorkflowAssumption
<1>2. QED
  BY <1>1 DEF Fault, Edit, budgetVars

(* The waits a walk answers are counted under an event that came.          *)
LEMMA AnswersCounted ==
    ASSUME FlowTypes, NEW w \in Worker, worker[w].graph \in Graph,
           NEW n \in Node \cup {NoNode}, WalkOn(w, worker[w], n)
    PROVE  answered' \in [Event -> Nat]
<1>1. worker \in [Worker -> WorkerState] /\ worker[w] \in WorkerState /\ answered \in [Event -> Nat]
  BY HandKnown DEF FlowTypes, RowsTyped
<1>2. answered' = Answered(worker[w], n)
  BY DEF WalkOn
<1>3. CASE answered' = answered
  BY <1>1, <1>3
<1>4. CASE worker[w].reply # NoEvent /\ answered' = [answered EXCEPT ![worker[w].reply] = @ + 1]
  <2>1. worker[w].reply \in Event
    BY <1>1, <1>4 DEF WorkerState
  <2>2. QED
    BY <1>1, <1>4, <2>1, CountedOnce
<1>5. QED
  BY <1>2, <1>3, <1>4 DEF Answered

LEMMA AnswersStep ==
    ASSUME FlowTypes, NEW w \in Worker, LoadAccount(w) \/ WakeRun(w) \/ Advance(w)
    PROVE  answered' \in [Event -> Nat]
<1>1. worker[w].at \in OnItsWay
  BY DEF LoadAccount, WakeRun, Advance, Awaits, OnItsWay, WalkStep
<1>2. worker[w].graph \in Graph /\ worker[w] \in WorkerState
  BY <1>1, HandKnown
<1>3. /\ answered \in [Event -> Nat] /\ Targets(w) \subseteq Node \cup {NoNode}
      /\ worker[w].node \in Node \cup {NoNode}
  BY <1>2, TargetsAreNodes DEF FlowTypes, RowsTyped, Targets, WorkerState
<1>4. \/ answered' = answered \/ WalkOn(w, worker[w], worker[w].node)
      \/ \E n \in Targets(w) : WalkOn(w, worker[w], n)
  BY DEF LoadAccount, WakeRun, Advance
<1>5. QED
  BY <1>2, <1>3, <1>4, AnswersCounted

LEMMA RowsStep ==
    ASSUME FlowTypes, [Next]_vars
    PROVE  RowsTyped'
<1> USE DEF queueVars, rowVars, tenantVars, historyVars
<1>0. RowsTyped
  BY DEF FlowTypes
<1>1. ASSUME UNCHANGED <<said, rowVars, tenantVars, fed, answered>>,
             Fault \/ Edit \/ UNCHANGED budgetVars
      PROVE  RowsTyped'
  BY <1>0, <1>1, BudgetKept DEF RowsTyped
<1>2. ASSUME UNCHANGED <<said, rowVars, tenantVars, fed, budgetVars>>,
             answered' \in [Event -> Nat]
      PROVE  RowsTyped'
  BY <1>0, <1>2 DEF RowsTyped, budgetVars
<1>3. ASSUME NEW e \in Event, Deliver(e) \/ Evict(e) \/ Recover(e) PROVE RowsTyped'
  BY <1>1, <1>3 DEF Deliver, Evict, Recover
<1>4. ASSUME NEW i \in DOMAIN jobs, RecoverJob(i) PROVE RowsTyped'
  BY <1>1, <1>4 DEF RecoverJob
<1>5. ASSUME NEW w \in Worker, NEW e \in Event, TakeHook(w, e) PROVE RowsTyped'
  BY <1>1, <1>5 DEF TakeHook
<1>6. ASSUME NEW w \in Worker, NEW i \in DOMAIN jobs, TakeJob(w, i) PROVE RowsTyped'
  BY <1>1, <1>6 DEF TakeJob
<1>7. ASSUME NEW w \in Worker, Settle(w) \/ SendDmFails(w) \/ Throw(w) \/ Crash(w)
      PROVE  RowsTyped'
  BY <1>1, <1>7 DEF Settle, SendDmFails, Throw, Crash
<1>8. ASSUME NEW w \in Worker, RecordProcessed(w) \/ Unsubscribe(w) PROVE RowsTyped'
  <2>1. worker[w].note \in Outcome
    BY HandKnown DEF WorkerState
  <2>2. ledger' \in [Event -> Outcome]
    BY <1>0, <1>8, <2>1 DEF RecordProcessed, Unsubscribe, RowsTyped
  <2>3. /\ contact' \in {contact, "unsubscribed"}
        /\ UNCHANGED <<said, dmRows, notices, handoffs, tenantVars, historyVars, budgetVars>>
    BY <1>8 DEF RecordProcessed, Unsubscribe
  <2>4. QED
    BY <1>0, <2>2, <2>3 DEF RowsTyped, budgetVars
<1>9. ASSUME NEW w \in Worker, FeedReply(w) \/ EnqueueRun(w) PROVE RowsTyped'
  <2>1. EventOf(w) \in Event
    BY <1>9, HandKnown DEF FeedReply, EnqueueRun, Awaits, InHand, DispatchStep, EventOf
  <2>2. fed' \in [Event -> Nat]
    <3>1. fed' = [fed EXCEPT ![EventOf(w)] = @ + 1] /\ fed \in [Event -> Nat]
      BY <1>0, <1>9 DEF FeedReply, EnqueueRun, RowsTyped
    <3>2. QED
      BY <2>1, <3>1, CountedOnce
  <2>3. UNCHANGED <<said, rowVars, tenantVars, answered, budgetVars>>
    BY <1>9 DEF FeedReply, EnqueueRun
  <2>4. QED
    BY <1>0, <2>2, <2>3 DEF RowsTyped, budgetVars
<1>10. ASSUME NEW w \in Worker, DispatchProgress(w), ~ RecordProcessed(w), ~ Unsubscribe(w),
              ~ FeedReply(w), ~ EnqueueRun(w)
       PROVE  RowsTyped'
  BY <1>1, <1>10 DEF DispatchProgress, Dedup, Resolve, FindWaitingRun, ExpireRun, AwakenRun,
     MatchWorkflow, CreateRun
<1>11. ASSUME NEW w \in Worker, LoadAccount(w) \/ WakeRun(w) \/ Advance(w) PROVE RowsTyped'
  BY <1>2, <1>11, AnswersStep DEF LoadAccount, WakeRun, Advance
<1>12. ASSUME NEW w \in Worker, SaveContactField(w) \/ ApplyAction(w) \/ NotifyHandoff(w)
       PROVE  RowsTyped'
  <2>1. /\ contact' \in {contact, "subscribed", "unsubscribed"}
        /\ handoffs' \in {handoffs, handoffs + 1}
        /\ UNCHANGED <<said, ledger, dmRows, notices, tenantVars, historyVars, budgetVars>>
    BY <1>12 DEF SaveContactField, ApplyAction, NotifyHandoff
  <2>2. handoffs' \in Nat
    BY <1>0, <2>1 DEF RowsTyped
  <2>3. QED
    BY <1>0, <2>1, <2>2 DEF RowsTyped, budgetVars
<1>13. ASSUME NEW w \in Worker,
              LoadRun(w) \/ Pause(w) \/ BeginDelay(w) \/ ScheduleResume(w) \/ ParkRun(w)
              \/ CompleteRun(w)
       PROVE  RowsTyped'
  BY <1>1, <1>13 DEF LoadRun, Pause, BeginDelay, ScheduleResume, ParkRun, CompleteRun
<1>14. ASSUME NEW w \in Worker, CreateNotice(w) PROVE RowsTyped'
  <2>1. worker[w].period \in Period
    BY <1>14, HandKnown DEF CreateNotice, Awaits, InHand
  <2>2. notices' \in [Period -> Nat]
    BY <1>0, <1>14, <2>1, CountedOnce DEF CreateNotice, RowsTyped
  <2>3. UNCHANGED <<said, ledger, dmRows, contact, handoffs, tenantVars, historyVars, budgetVars>>
    BY <1>14 DEF CreateNotice
  <2>4. QED
    BY <1>0, <2>2, <2>3 DEF RowsTyped, budgetVars
<1>15. ASSUME NEW w \in Worker, FlagAccount(w) PROVE RowsTyped'
  BY <1>0, <1>15 DEF FlagAccount, RowsTyped, budgetVars
<1>16. ASSUME NEW w \in Worker, RecordDm(w) PROVE RowsTyped'
  <2>1. worker[w].at = "dmRow" /\ worker[w] \in WorkerState /\ InHand(worker[w])
    BY <1>16, HandKnown DEF RecordDm, Awaits
  <2>2. worker[w].node \in Node /\ worker[w].run \in Nat /\ worker[w].steps \in Nat
    BY <2>1 DEF WorkerState, InHand, SendStep
  <2>3. DmKey(worker[w]) \in Nat \X (Node \cup {ActionNode}) \X Nat
    BY <2>2 DEF DmKey
  <2>4. dmRows' \subseteq Nat \X (Node \cup {ActionNode}) \X Nat
    BY <1>0, <1>16, <2>3 DEF RecordDm, RowsTyped
  <2>5. UNCHANGED <<said, ledger, contact, notices, handoffs, tenantVars, historyVars, budgetVars>>
    BY <1>16 DEF RecordDm
  <2>6. QED
    BY <1>0, <2>4, <2>5 DEF RowsTyped, budgetVars
<1>17. ASSUME NEW w \in Worker, SendProgress(w), ~ CreateNotice(w), ~ FlagAccount(w), ~ RecordDm(w)
       PROVE  RowsTyped'
  BY <1>1, <1>17 DEF SendProgress, CheckConsent, CheckContactCap, GetDmQuota,
     IncrementDmUsage, DecrementDmUsage, FindNotice, SendDm
<1>18. ASSUME NEW r \in DOMAIN runs, StopRun(r) \/ LoseStop(r) \/ WaitLapses(r)
       PROVE  RowsTyped'
  BY <1>1, <1>18 DEF StopRun, LoseStop, WaitLapses
<1>19. ASSUME NEW f \in Workflow, ChangeWorkflow(f) PROVE RowsTyped'
  <2>1. flow' \in [Workflow -> [status : {"ACTIVE", "PAUSED"}, live : BOOLEAN, graph : Graph]]
    <3> DEFINE Row == [status : {"ACTIVE", "PAUSED"}, live : BOOLEAN, graph : Graph]
    <3>1. flow \in [Workflow -> Row] /\ flow[f] \in Row
      BY <1>0 DEF RowsTyped
    <3>2. \E row \in Row : flow' = [flow EXCEPT ![f] = row]
      <4>1. CASE \E g \in Graph : flow' = [flow EXCEPT ![f].graph = g]
        <5>1. PICK g \in Graph : flow' = [flow EXCEPT ![f].graph = g]
          BY <4>1
        <5>2. [flow[f] EXCEPT !.graph = g] \in Row
          BY <3>1
        <5>3. QED
          BY <5>1, <5>2
      <4>2. CASE \E status \in {"ACTIVE", "PAUSED"} : flow' = [flow EXCEPT ![f].status = status]
        <5>1. PICK status \in {"ACTIVE", "PAUSED"} : flow' = [flow EXCEPT ![f].status = status]
          BY <4>2
        <5>2. [flow[f] EXCEPT !.status = status] \in Row
          BY <3>1
        <5>3. QED
          BY <5>1, <5>2
      <4>3. CASE flow' = [flow EXCEPT ![f].live = FALSE, ![f].status = "PAUSED"]
        <5>1. [flow[f] EXCEPT !.live = FALSE, !.status = "PAUSED"] \in Row
          BY <3>1
        <5>2. flow' = [flow EXCEPT ![f] = [flow[f] EXCEPT !.live = FALSE, !.status = "PAUSED"]]
          BY <3>1, <4>3
        <5>3. QED
          BY <5>1, <5>2
      <4>4. QED
        BY <1>19, <4>1, <4>2, <4>3 DEF ChangeWorkflow
    <3> HIDE DEF Row
    <3>3. flow' \in [Workflow -> Row]
      BY <3>1, <3>2
    <3>4. QED
      BY <3>3 DEF Row
  <2>2. UNCHANGED <<said, rowVars, account, orgActive, historyVars>> /\ Edit
    BY <1>19 DEF ChangeWorkflow
  <2>3. QED
    BY <1>0, <2>1, <2>2, BudgetKept DEF RowsTyped
<1>20. CASE ChangeTenant
  BY <1>0, <1>20, BudgetKept DEF ChangeTenant, RowsTyped
<1>21. CASE UNCHANGED vars
  BY <1>1, <1>21 DEF vars
<1>22. QED
  BY <1>3, <1>4, <1>5, <1>6, <1>7, <1>8, <1>9, <1>10, <1>11, <1>12, <1>13, <1>14, <1>15,
     <1>16, <1>17, <1>18, <1>19, <1>20, <1>21 DEF Next, WalkProgress

LEMMA InitTypes == Init => FlowTypes
<1> SUFFICES ASSUME Init PROVE FlowTypes
  OBVIOUS
<1>1. QuotaTypeOK
  BY InitQuotaInv DEF Init, QuotaInv
<1>2. HandsFit
  BY FreeFits DEF Init, StateInit, QuotaInit, HandsFit, Idle, Worker
<1>3. QueuesFit
  BY AbsentJob DEF Init, StateInit, QueuesFit
<1>4. RunsFit
  BY DEF Init, StateInit, RunsFit
<1>5. RowsTyped
  <2>1. "none" \in Outcome /\ MaxUpsets \in Nat
    BY WorkflowAssumption DEF Outcome
  <2>2. flow \in [Workflow -> [status : {"ACTIVE", "PAUSED"}, live : BOOLEAN, graph : Graph]]
    <3>1. /\ flow \in [Workflow -> [status : {"ACTIVE"}, live : {TRUE}, graph : Graph]]
          /\ [status : {"ACTIVE"}, live : {TRUE}, graph : Graph]
               \subseteq [status : {"ACTIVE", "PAUSED"}, live : BOOLEAN, graph : Graph]
      BY DEF Init, StateInit
    <3>2. QED
      BY <3>1
  <2>3. /\ ledger \in [Event -> Outcome] /\ notices \in [Period -> Nat]
        /\ fed \in [Event -> Nat] /\ answered \in [Event -> Nat]
        /\ faults \in 0..MaxUpsets /\ edits \in 0..MaxUpsets
    BY <2>1 DEF Init, StateInit
  <2>4. QED
    BY <2>2, <2>3 DEF Init, StateInit, RowsTyped
<1>6. QED
  BY <1>1, <1>2, <1>3, <1>4, <1>5 DEF FlowTypes

LEMMA TypesStep == FlowTypes /\ [Next]_vars => FlowTypes'
<1> SUFFICES ASSUME FlowTypes, [Next]_vars PROVE FlowTypes'
  OBVIOUS
<1>1. QuotaTypeOK'
  BY QuotaStep, TypeStep DEF FlowTypes
<1>2. QED
  BY <1>1, HandsStep, QueuesStep, RunsStep, RowsStep DEF FlowTypes

LEMMA TypesInvariant == Spec => []FlowTypes
<1>1. Init => FlowTypes
  BY InitTypes
<1>2. FlowTypes /\ [Next]_vars => FlowTypes'
  BY TypesStep
<1>3. QED
  BY <1>1, <1>2, PTL DEF Spec

(* Whatever graphs are walked and whichever handlers crash, throw or lose  *)
(* their locks, every row, job, run and local keeps its type: no job and   *)
(* no handler names a run that does not exist, and no handler is at a call *)
(* of usage.ts with a slot it does not hold.                               *)
THEOREM WorkflowTypeTheorem == Spec => []WorkflowTypeOK
<1>1. FlowTypes => WorkflowTypeOK
  <2> SUFFICES ASSUME FlowTypes PROVE WorkflowTypeOK
    OBVIOUS
  <2>1. hook \in [Event -> Bull!Job] /\ jobs \in Seq(FlowJob)
    BY DEF FlowTypes, QueuesFit, OwnedJob
  <2>2. QED
    BY <2>1 DEF FlowTypes, HandsFit, RunsFit, RowsTyped, WorkflowTypeOK, StateTypeOK
<1>2. QED
  BY <1>1, TypesInvariant, PTL

------------------------------------------------------------------------------
(* The ways of a handler                                                   *)

Landings == {"complete", "finish", "consent", "delay", "advance", "pause", "save", "setContact",
             "handoff"}
Returns == {"advance", "pause", "finish"}

(* The steps that may follow each step, an uncaught error apart; those     *)
(* that write the contact of a walk, which end at "advance", are kept      *)
(* apart too.                                                              *)
Follows(step) ==
    CASE step = "dedup" -> {"resolve", "finish"}
      [] step = "resolve" -> {"record", "findRun", "match"}
      [] step = "record" -> {"unsubscribe", "finish"}
      [] step = "findRun" -> {"match", "expire", "awaken"}
      [] step = "expire" -> {"match"}
      [] step = "awaken" -> {"feed"}
      [] step = "match" -> {"record", "create"}
      [] step = "create" -> {"enqueue"}
      [] step \in {"feed", "enqueue"} -> {"record"}
      [] step = "load" -> {"account", "finish"}
      [] step = "account" -> {"wake"} \cup Landings
      [] step \in {"wake", "advance"} -> Landings
      [] step = "delay" -> {"schedule"}
      [] step = "handoff" -> {"park"}
      [] step = "consent" -> {"cap"} \cup Returns
      [] step = "cap" -> {"quota"} \cup Returns
      [] step = "quota" -> {"reserve"}
      [] step = "reserve" -> {"release", "send"}
      [] step = "send" -> {"dmRow", "release"}
      [] step = "release" -> {"findNotice", "flag", "throttled"} \cup Returns
      [] step = "findNotice" -> {"notice"} \cup Returns
      [] step \in {"notice", "flag", "dmRow"} -> Returns
      [] OTHER -> {"finish"}

(* w goes on along these ways, and what it has found decides which.        *)
Onward(w, step) ==
    /\ Moves(w, step)
    /\ worker[w].at \notin Settling \cup {"idle"}
    /\ step \in Follows(worker[w].at) \cup {"rethrow"}
    /\ step = "rethrow" => Fault
    /\ step = "finish" /\ worker[w].at = "dedup" => ledger[EventOf(w)] # "none"
    /\ step = "cap" => contact # "unsubscribed"
    /\ step = "record" => worker'[w].note # "none"
    /\ step = "throttled" => worker[w].error = "limited"
    /\ worker[w].at \in WalkStep \cup SendStep =>
          worker'[w].error \in {worker[w].error, "none"} \/ Fault

LEMMA DispatchOnward ==
    ASSUME FlowTypes, NEW w \in Worker, DispatchProgress(w)
    PROVE  \E step \in Step : Onward(w, step)
<1> USE DEF Step, DispatchStep, WalkStep, SendStep, Settling, Follows
<1>1. /\ worker \in [Worker -> WorkerState] /\ runs \in Seq(Run)
      /\ \A f \in Workflow : flow[f].graph \in Graph
  BY HandKnown DEF FlowTypes, RunsFit
<1>2. CASE Dedup(w)
  <2>1. PICK step \in {"resolve", "finish"} :
          Goto(w, step) /\ (step = "finish" => ledger[EventOf(w)] # "none")
    BY <1>2 DEF Dedup
  <2>2. QED
    BY <1>1, <1>2, <2>1, GotoMoves DEF Dedup, Onward, Awaits
<1>3. CASE Resolve(w)
  <2>1. \/ \E note \in Outcome \ {"none"} : Write(w, note)
        \/ Goto(w, "findRun") \/ Goto(w, "match")
    BY <1>3 DEF Resolve, Refusal, Outcome
  <2>2. PICK step \in {"record", "findRun", "match"} :
          Moves(w, step) /\ (step = "record" => worker'[w].note # "none")
    BY <1>1, <2>1, GotoMoves, WriteMoves
  <2>3. QED
    BY <1>3, <2>2 DEF Resolve, Onward, Awaits
<1>4. CASE RecordProcessed(w)
  <2>1. PICK step \in {"unsubscribe", "finish"} : Goto(w, step)
    BY <1>4 DEF RecordProcessed
  <2>2. QED
    BY <1>1, <1>4, <2>1, GotoMoves DEF RecordProcessed, Onward, Awaits
<1>5. CASE Unsubscribe(w) \/ ExpireRun(w) \/ AwakenRun(w)
  <2>1. PICK step \in {"finish", "match", "feed"} :
          Goto(w, step) /\ step \in Follows(worker[w].at) /\ worker[w].at # "dedup"
          /\ worker[w].at \in {"unsubscribe", "expire", "awaken"}
    BY <1>5 DEF Unsubscribe, ExpireRun, AwakenRun, Awaits
  <2>2. QED
    BY <1>1, <2>1, GotoMoves DEF Onward
<1>6. CASE FindWaitingRun(w)
  <2>1. PICK step \in {"match", "expire", "awaken"} : Moves(w, step)
    BY <1>1, <1>6, WaitingFound
  <2>2. QED
    BY <1>6, <2>1 DEF FindWaitingRun, Onward, Awaits
<1>7. CASE FeedReply(w) \/ EnqueueRun(w)
  <2>1. Moves(w, "record") /\ worker'[w].note # "none"
    BY <1>1, <1>7, WriteMoves DEF FeedReply, EnqueueRun, Outcome
  <2>2. QED
    <3>1. worker[w].at \in {"feed", "enqueue"}
      BY <1>7 DEF FeedReply, EnqueueRun, Awaits
    <3>2. "record" \in Follows(worker[w].at)
      BY <3>1
    <3>3. QED
      BY <2>1, <3>1, <3>2 DEF Onward
<1>8. CASE MatchWorkflow(w)
  <2>1. PICK step \in {"record", "create"} :
          Moves(w, step) /\ (step = "record" => worker'[w].note # "none")
    BY <1>1, <1>8, WorkflowMatched
  <2>2. QED
    BY <1>8, <2>1 DEF MatchWorkflow, Onward, Awaits
<1>9. CASE CreateRun(w)
  <2>1. Moves(w, "enqueue")
    BY <1>1, <1>9, RunMade
  <2>2. QED
    BY <1>9, <2>1 DEF CreateRun, Onward, Awaits
<1>10. QED
  BY <1>2, <1>3, <1>4, <1>5, <1>6, <1>7, <1>8, <1>9 DEF DispatchProgress

LEMMA WalkOnward ==
    ASSUME FlowTypes, NEW w \in Worker, WalkProgress(w), ~ SaveContactField(w), ~ ApplyAction(w)
    PROVE  \E step \in Step : Onward(w, step)
<1> USE DEF Step, WalkStep, SendStep, Settling, Follows, Landings
<1>1. /\ worker \in [Worker -> WorkerState] /\ runs \in Seq(Run) /\ jobs \in Seq(FlowJob)
      /\ \A f \in Workflow : flow[f].graph \in Graph
  BY HandKnown DEF FlowTypes, RunsFit, QueuesFit
<1>2. worker[w].at \in OnItsWay => worker[w].graph \in Graph
  BY HandKnown
<1>3. ASSUME NEW n \in Node \cup {NoNode}, WalkOn(w, worker[w], n), worker[w].at \in OnItsWay
      PROVE  /\ Moves(w, worker'[w].at) /\ worker'[w].at \in Landings
             /\ worker'[w].error = worker[w].error
  BY <1>1, <1>2, <1>3, WalkLands DEF Landing
<1>4. CASE LoadRun(w)
  <2>1. worker[w].job \in DOMAIN jobs
    BY <1>4, HandKnown DEF LoadRun, Awaits, InHand
  <2>2. JobOf(w).run \in DOMAIN runs
    BY <2>1 DEF FlowTypes, QueuesFit, JobOf
  <2>3. PICK step \in {"account", "finish"} :
          Moves(w, step) /\ worker'[w].error = worker[w].error
    BY <1>1, <1>4, <2>1, <2>2, RunLoaded
  <2>4. QED
    BY <1>4, <2>3 DEF LoadRun, Onward, Awaits
<1>5. CASE LoadAccount(w) \/ WakeRun(w) \/ Advance(w)
  <2>1. worker[w].at \in OnItsWay /\ worker[w].at \in {"account", "wake", "advance"}
    BY <1>5 DEF LoadAccount, WakeRun, Advance, Awaits, OnItsWay
  <2>2. worker[w].node \in Node \cup {NoNode} /\ Targets(w) \subseteq Node \cup {NoNode}
    BY <1>2, <2>1, TargetsAreNodes, HandKnown DEF Targets, WorkerState
  <2>3. \/ worker[w].at = "account" /\ (Goto(w, "finish") \/ Goto(w, "wake"))
        \/ \E n \in Node \cup {NoNode} : WalkOn(w, worker[w], n)
    BY <1>5, <2>2 DEF LoadAccount, WakeRun, Advance, Awaits
  <2>4. CASE worker[w].at = "account" /\ (Goto(w, "finish") \/ Goto(w, "wake"))
    BY <1>1, <2>4, GotoMoves DEF Onward, Recalls
  <2>5. CASE \E n \in Node \cup {NoNode} : WalkOn(w, worker[w], n)
    <3>1. PICK step \in Landings : Moves(w, step) /\ worker'[w].error = worker[w].error
      BY <1>3, <2>1, <2>5
    <3>2. step \in Step /\ step \in Follows(worker[w].at)
      BY <2>1, <3>1 DEF SendStep
    <3>3. QED
      BY <2>1, <3>1, <3>2 DEF Onward
  <2>6. QED
    BY <2>3, <2>4, <2>5
<1>6. CASE Pause(w) \/ BeginDelay(w) \/ ScheduleResume(w) \/ NotifyHandoff(w) \/ ParkRun(w)
           \/ CompleteRun(w)
  <2>1. PICK step \in {"finish", "schedule", "park"} :
          Goto(w, step) /\ step \in Follows(worker[w].at)
          /\ worker[w].at \in {"pause", "delay", "schedule", "handoff", "park", "complete"}
    BY <1>6 DEF Pause, BeginDelay, ScheduleResume, NotifyHandoff, ParkRun, CompleteRun, Awaits
  <2>2. QED
    BY <1>1, <2>1, GotoMoves DEF Onward, Recalls
<1>7. QED
  BY <1>4, <1>5, <1>6 DEF WalkProgress

LEMMA SendOnward ==
    ASSUME FlowTypes, NEW w \in Worker, SendProgress(w) \/ SendDmFails(w) \/ Throw(w)
    PROVE  \E step \in Step : Onward(w, step)
<1> USE DEF Step, SendStep, Settling, Follows, Returns
<1>1. /\ worker \in [Worker -> WorkerState] /\ QuotaTypeOK
      /\ worker[w].at \in SendStep => worker[w].doing # "none"
  BY HandKnown DEF FlowTypes, InHand
<1>2. ASSUME NEW ok \in BOOLEAN, Return(w, ok), worker[w].at \in SendStep
      PROVE  \E step \in Returns : Moves(w, step) /\ worker'[w].error = "none"
  BY <1>1, <1>2, SendReturns
<1>3. ASSUME NEW ok \in BOOLEAN, Return(w, ok),
             worker[w].at \in {"consent", "cap", "release", "findNotice", "notice", "flag", "dmRow"}
      PROVE  \E step \in Step : Onward(w, step)
  <2>1. PICK step \in Returns : Moves(w, step) /\ worker'[w].error = "none"
    BY <1>2, <1>3
  <2>2. step \in Follows(worker[w].at) /\ step \in Step
    BY <1>3 DEF WalkStep
  <2>3. QED
    BY <1>3, <2>1, <2>2 DEF Onward
<1>4. ASSUME NEW step \in SendStep \cup {"throttled"}, Goto(w, step),
             step \in Follows(worker[w].at), worker[w].at \in SendStep,
             step = "cap" => contact # "unsubscribed",
             step = "throttled" => worker[w].error = "limited"
      PROVE  \E s \in Step : Onward(w, s)
  <2>1. Moves(w, step) /\ worker'[w].error = worker[w].error
    BY <1>1, <1>4, GotoMoves DEF Recalls
  <2>2. QED
    BY <1>4, <2>1 DEF Onward
<1>5. CASE CheckConsent(w) \/ CheckContactCap(w) \/ FindNotice(w)
  <2>1. worker[w].at \in {"consent", "cap", "findNotice"}
    BY <1>5 DEF CheckConsent, CheckContactCap, FindNotice, Awaits
  <2>2. \/ Return(w, FALSE)
        \/ \E step \in SendStep : Goto(w, step) /\ step \in Follows(worker[w].at)
                                  /\ (step = "cap" => contact # "unsubscribed")
    BY <1>5 DEF CheckConsent, CheckContactCap, FindNotice, Awaits
  <2>3. QED
    BY <1>3, <1>4, <2>1, <2>2
<1>6. CASE GetDmQuota(w) \/ IncrementDmUsage(w) \/ SendDm(w)
  <2>1. worker[w].at \in SendStep
    BY <1>6 DEF GetDmQuota, IncrementDmUsage, SendDm, Awaits
  <2>2. \E step \in SendStep : Goto(w, step) /\ step \in Follows(worker[w].at) /\ step # "cap"
    BY <1>6 DEF GetDmQuota, IncrementDmUsage, SendDm, Awaits
  <2>3. QED
    BY <1>4, <2>1, <2>2
<1>7. CASE DecrementDmUsage(w)
  <2>1. worker[w].at = "release"
    BY <1>7 DEF DecrementDmUsage, Awaits
  <2>2. \/ Moves(w, "findNotice") /\ worker'[w].error = worker[w].error
        \/ Goto(w, "flag")
        \/ Goto(w, "throttled") /\ worker[w].error = "limited"
        \/ Return(w, FALSE)
    BY <1>1, <1>7, SlotReturned
  <2>3. CASE Moves(w, "findNotice") /\ worker'[w].error = worker[w].error
    BY <2>1, <2>3 DEF Onward
  <2>4. CASE Goto(w, "flag") \/ (Goto(w, "throttled") /\ worker[w].error = "limited")
    BY <1>4, <2>1, <2>4
  <2>5. QED
    BY <1>3, <2>1, <2>2, <2>3, <2>4
<1>8. CASE CreateNotice(w) \/ FlagAccount(w) \/ RecordDm(w)
  <2>1. worker[w].at \in {"notice", "flag", "dmRow"} /\ (Return(w, FALSE) \/ Return(w, TRUE))
    BY <1>8 DEF CreateNotice, FlagAccount, RecordDm, Awaits
  <2>2. QED
    BY <1>3, <2>1
<1>9. CASE SendDmFails(w)
  <2>1. Moves(w, "release")
    BY <1>1, <1>9, ErrorCaught DEF SendDmFails
  <2>2. QED
    BY <1>9, <2>1 DEF SendDmFails, Awaits, Onward
<1>10. CASE Throw(w)
  <2>1. CASE worker[w].at = "dmRow"
    BY <1>3, <1>10, <2>1 DEF Throw, Awaits
  <2>2. CASE worker[w].at # "dmRow"
    <3>1. Moves(w, "rethrow")
      BY <1>1, <1>10, <2>2, GotoMoves DEF Throw, Awaits
    <3>2. worker[w].at \notin Settling \cup {"idle"} /\ Fault
      BY <1>10 DEF Throw
    <3>3. QED
      BY <3>1, <3>2 DEF Onward
  <2>3. QED
    BY <2>1, <2>2
<1>11. QED
  BY <1>5, <1>6, <1>7, <1>8, <1>9, <1>10 DEF SendProgress

(* Whatever moves no handler and subscribes nobody.                        *)
Apart ==
    \/ \E e \in Event : Deliver(e) \/ Evict(e) \/ Recover(e)
    \/ \E i \in DOMAIN jobs : RecoverJob(i)
    \/ \E r \in DOMAIN runs : StopRun(r) \/ LoseStop(r) \/ WaitLapses(r)
    \/ \E f \in Workflow : ChangeWorkflow(f)
    \/ ChangeTenant
    \/ UNCHANGED vars

(* A step of handler w between taking a job and settling it.               *)
Acts(w) ==
    \/ DispatchProgress(w) \/ WalkProgress(w) \/ SendProgress(w)
    \/ SendDmFails(w) \/ Throw(w)

LEMMA NextCases ==
    ASSUME [Next]_vars
    PROVE  \/ Apart
           \/ \E w \in Worker :
                \/ \E e \in Event : TakeHook(w, e)
                \/ \E i \in DOMAIN jobs : TakeJob(w, i)
                \/ Settle(w) \/ Crash(w) \/ Acts(w)
  BY DEF Next, Apart, Acts

LEMMA ApartKeeps ==
    ASSUME Apart
    PROVE  UNCHANGED <<worker, rowVars, historyVars>>
<1>1. CASE \E e \in Event : Deliver(e) \/ Evict(e) \/ Recover(e)
  BY <1>1 DEF Deliver, Evict, Recover
<1>2. CASE \E i \in DOMAIN jobs : RecoverJob(i)
  BY <1>2 DEF RecoverJob
<1>3. CASE \E r \in DOMAIN runs : StopRun(r) \/ LoseStop(r) \/ WaitLapses(r)
  BY <1>3 DEF StopRun, LoseStop, WaitLapses
<1>4. CASE \E f \in Workflow : ChangeWorkflow(f)
  BY <1>4 DEF ChangeWorkflow
<1>5. CASE ChangeTenant \/ UNCHANGED vars
  BY <1>5 DEF ChangeTenant, vars
<1>6. QED
  BY <1>1, <1>2, <1>3, <1>4, <1>5 DEF Apart

(* Each step of a handler goes one of its ways, or writes the contact.     *)
LEMMA ActsOnward ==
    ASSUME FlowTypes, NEW w \in Worker, Acts(w)
    PROVE  \/ \E step \in Step : Onward(w, step)
           \/ SaveContactField(w) \/ ApplyAction(w)
  BY DispatchOnward, WalkOnward, SendOnward DEF Acts

LEMMA ActsContact ==
    ASSUME NEW w \in Worker, Acts(w), ~ SaveContactField(w), ~ ApplyAction(w)
    PROVE  contact' \in {contact, "unsubscribed"}
<1> USE DEF rowVars
<1>1. CASE DispatchProgress(w)
  BY <1>1 DEF DispatchProgress, Dedup, Resolve, RecordProcessed, Unsubscribe, FindWaitingRun,
     ExpireRun, AwakenRun, FeedReply, MatchWorkflow, CreateRun, EnqueueRun
<1>2. CASE WalkProgress(w)
  BY <1>2 DEF WalkProgress, LoadRun, LoadAccount, WakeRun, Advance, Pause, BeginDelay,
     ScheduleResume, NotifyHandoff, ParkRun, CompleteRun
<1>3. CASE SendProgress(w)
  BY <1>3 DEF SendProgress, CheckConsent, CheckContactCap, GetDmQuota, IncrementDmUsage,
     DecrementDmUsage, FindNotice, CreateNotice, SendDm, FlagAccount, RecordDm
<1>4. CASE SendDmFails(w) \/ Throw(w)
  BY <1>4 DEF SendDmFails, Throw
<1>5. QED
  BY <1>1, <1>2, <1>3, <1>4 DEF Acts

------------------------------------------------------------------------------
(* STOP                                                                    *)

(* Inductive: an attempt that began after the STOP is never past the       *)
(* consent check of a send while the contact stays unsubscribed, because   *)
(* only that check leads there and it looks at the contact's row.          *)
StopInv ==
    \A w \in Worker :
        worker[w].stopped =>
            contact = "unsubscribed" /\ worker[w].at \notin {"cap", "quota", "reserve", "send"}

LEMMA StopStep == FlowTypes /\ StopInv /\ [Next]_vars => StopInv'
<1> SUFFICES ASSUME FlowTypes, StopInv, [Next]_vars PROVE StopInv'
  OBVIOUS
<1>0. /\ worker \in [Worker -> WorkerState]
      /\ \A i \in DOMAIN jobs : i \in Nat
  BY HandKnown, LenProperties DEF FlowTypes, HandsFit, QueuesFit
<1>1. CASE Apart
  BY <1>1, ApartKeeps DEF StopInv, rowVars
<1>2. ASSUME NEW w \in Worker, Aside(w), contact' = contact,
             worker'[w].stopped => contact = "unsubscribed" /\ worker'[w].at \in {"dedup", "load"}
      PROVE  StopInv'
  BY <1>2 DEF StopInv, Aside
<1>3. ASSUME NEW w \in Worker, NEW e \in Event, TakeHook(w, e) PROVE StopInv'
  <2>1. contact' = contact
    BY <1>3 DEF TakeHook, rowVars
  <2>2. QED
    BY <1>0, <1>2, <1>3, <2>1, HookTaken
<1>4. ASSUME NEW w \in Worker, NEW i \in DOMAIN jobs, TakeJob(w, i) PROVE StopInv'
  <2>1. contact' = contact
    BY <1>4 DEF TakeJob, rowVars
  <2>2. QED
    BY <1>0, <1>2, <1>4, <2>1, JobTaken
<1>5. ASSUME NEW w \in Worker, Settle(w) \/ Crash(w) PROVE StopInv'
  <2>1. contact' = contact
    BY <1>5 DEF Settle, Crash, rowVars
  <2>2. Aside(w) /\ ~ worker'[w].stopped
    BY <1>0, <1>5, HandlerEnds DEF Free
  <2>3. QED
    BY <1>2, <2>1, <2>2
<1>6. ASSUME NEW w \in Worker, SaveContactField(w) \/ ApplyAction(w) PROVE StopInv'
  <2>1. \A v \in Worker :
          /\ worker'[v].at = IF v = w THEN "advance" ELSE worker[v].at
          /\ worker'[v].stopped => worker[v].stopped /\ ApplyAction(w) /\ TypeAt(w) # "SUBSCRIBE"
    BY <1>0, <1>6, ContactSet
  <2>2. ApplyAction(w) /\ TypeAt(w) # "SUBSCRIBE" /\ contact = "unsubscribed"
          => contact' = "unsubscribed"
    BY DEF ApplyAction
  <2>3. ASSUME NEW v \in Worker, worker'[v].stopped
        PROVE  contact' = "unsubscribed" /\ worker'[v].at \notin {"cap", "quota", "reserve", "send"}
    BY <2>1, <2>2, <2>3 DEF StopInv
  <2>4. QED
    BY <2>3 DEF StopInv
<1>7. ASSUME NEW w \in Worker, Acts(w), ~ SaveContactField(w), ~ ApplyAction(w) PROVE StopInv'
  <2>1. PICK step \in Step : Onward(w, step)
    BY <1>7, ActsOnward
  <2>2. contact' \in {contact, "unsubscribed"}
    BY <1>7, ActsContact
  <2>3. /\ worker'[w].at = step /\ worker'[w].stopped = worker[w].stopped
        /\ \A v \in Worker \ {w} : worker'[v] = worker[v]
    BY <2>1 DEF Onward, Moves, Aside
  <2>4. worker[w].stopped => step \notin {"cap", "quota", "reserve", "send"}
    <3>1. step = "quota" => worker[w].at = "cap"
      BY <2>1 DEF Onward, Follows, Landings, Returns
    <3>2. step = "reserve" => worker[w].at = "quota"
      BY <2>1 DEF Onward, Follows, Landings, Returns
    <3>3. step = "send" => worker[w].at = "reserve"
      BY <2>1 DEF Onward, Follows, Landings, Returns
    <3>4. QED
      BY <2>1, <3>1, <3>2, <3>3 DEF StopInv, Onward
  <2>5. QED
    BY <2>2, <2>3, <2>4 DEF StopInv
<1>8. QED
  BY <1>1, <1>3, <1>4, <1>5, <1>6, <1>7, NextCases

(* A walk taken up after the contact said STOP sends nothing until         *)
(* something subscribes them again, in any graph: not to a contact who     *)
(* unsubscribed through a node of the walk itself either.                  *)
THEOREM StopStopsFlowsTheorem == Spec => []StopStopsFlows
<1>1. Init => StopInv
  BY DEF Init, StateInit, StopInv, Free
<1>2. FlowTypes /\ StopInv /\ [Next]_vars => StopInv'
  BY StopStep
<1>3. StopInv => StopStopsFlows
  BY DEF StopInv, StopStopsFlows, Awaits
<1>4. QED
  BY <1>1, <1>2, <1>3, TypesInvariant, PTL DEF Spec
==============================================================================
