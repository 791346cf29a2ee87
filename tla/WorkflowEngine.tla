---------------------------- MODULE WorkflowEngine ---------------------------
(***************************************************************************)
(* runWorkflow and sendWorkflowDm of                                       *)
(* growasy-worker/src/queues/workflow-engine.ts, one action per awaited    *)
(* call.  The quota calls are the actions of DmQuota.  A handler works on  *)
(* the graph and the variables it loaded, whatever becomes of the rows.    *)
(***************************************************************************)
EXTENDS WorkflowDispatch

RunOf(w) == worker[w].run
JobOf(w) == jobs[worker[w].job]
TypeAt(w) == Shape[worker[w].graph].type[worker[w].node]

(* Mutant: a run that waits is not touched, resumed or not. *)
ProceedsRunning(status, isResume) == status = "RUNNING"

Proceeds(status, isResume) == status = "RUNNING" \/ (status = "WAITING" /\ isResume)

Walking(w, r) == worker[w].at \in (WalkStep \cup SendStep) \ {"load"} /\ RunOf(w) = r

(* findUnique returns the run with its workflow's current graph. *)
LoadRun(w) ==
    LET j == JobOf(w)
        run == runs[j.run] IN
    /\ Awaits(w, "load")
    /\ worker' = [worker EXCEPT ![w] =
         IF Proceeds(run.status, j.resume \/ j.reply # NoEvent)
         THEN [@ EXCEPT !.at = "account", !.run = j.run, !.graph = flow[run.workflow].graph,
                        !.node = run.node, !.vars = run.vars, !.reply = j.reply,
                        !.loaded = run.status]
         ELSE [@ EXCEPT !.at = "finish"]]
    /\ raced' = raced \cup {r \in {j.run} : \E v \in Worker : Walking(v, r)}
    /\ UNCHANGED <<queueVars, runVars, rowVars, tenantVars, delivered, fed, answered,
                   budgetVars, quotaVars>>

------------------------------------------------------------------------------
(* The body of the walk, up to its next awaited call                       *)

(* Mutant: the reply stays at hand for the waits to come. *)
HeardStill(s) == [s EXCEPT !.vars.reply = s.reply]

(* pendingReply is "consumed once, at the first wait node". *)
Heard(s) == [s EXCEPT !.vars.reply = s.reply, !.reply = NoEvent]

(* The locals s of a handler that has arrived at node n. *)
Arrive(s, n) ==
    LET type == Shape[s.graph].type
        answers == s.reply # NoEvent
        at(step) == [s EXCEPT !.at = step, !.node = n, !.steps = @ + 1]
        heard == Heard(at("advance"))
        asking(why) == [at("consent") EXCEPT !.doing = why] IN
    IF n = NoNode \/ s.steps >= MaxSteps THEN [s EXCEPT !.at = "complete", !.node = n]
    ELSE IF n \notin DOMAIN type THEN [s EXCEPT !.at = "finish", !.node = n]
    ELSE CASE type[n] = "END" -> at("complete")
           [] type[n] = "SEND_MESSAGE" -> asking("message")
           [] type[n] = "SEND_LINK" -> asking("link")
           [] type[n] = "DELAY" -> at("delay")
           [] type[n] = "WAIT_REPLY" -> IF answers THEN heard ELSE at("pause")
           [] type[n] = "COLLECT_INPUT" ->
                IF ~ answers THEN asking("prompt")
                ELSE IF said[s.reply].valid THEN [heard EXCEPT !.at = "save"]
                ELSE LET counted == [heard EXCEPT !.vars.asks = @ + 1] IN
                     IF counted.vars.asks < MaxAsks
                     THEN [counted EXCEPT !.at = "consent", !.doing = "retry"] ELSE counted
           [] type[n] \in {"SUBSCRIBE", "UNSUBSCRIBE", "ADD_TAG"} -> at("setContact")
           [] type[n] = "HANDOFF" -> at("handoff")
           [] OTHER -> at("advance")

(* History: a wait that is arrived at with a reply takes it for its answer. *)
Answered(s, n) ==
    LET type == Shape[s.graph].type IN
    IF /\ s.reply # NoEvent /\ s.steps < MaxSteps
       /\ n \in DOMAIN type /\ type[n] \in {"WAIT_REPLY", "COLLECT_INPUT"}
    THEN [answered EXCEPT ![s.reply] = @ + 1] ELSE answered

(* stopRun is not awaited: its update is under way when the handler ends. *)
Missing(s, n) == n # NoNode /\ s.steps < MaxSteps /\ n \notin DOMAIN Shape[s.graph].type

WalkOn(w, s, n) ==
    /\ worker' = [worker EXCEPT ![w] = Arrive(s, n)]
    /\ answered' = Answered(s, n)
    /\ stops' = IF Missing(s, n) THEN stops \cup {s.run} ELSE stops

(* The account, and the organisation's isActive, are looked at once per job. *)
LoadAccount(w) ==
    LET s == worker[w] IN
    /\ Awaits(w, "account")
    /\ IF Refusal # "none"
       THEN stops' = stops \cup {s.run} /\ Goto(w, "finish") /\ UNCHANGED answered
       ELSE IF s.loaded # "RUNNING"
       THEN Goto(w, "wake") /\ UNCHANGED <<stops, answered>>
       ELSE WalkOn(w, s, s.node)
    /\ UNCHANGED <<queueVars, runs, recency, rowVars, tenantVars, delivered, fed, raced,
                   budgetVars, quotaVars>>

WakeRun(w) ==
    LET s == worker[w] IN
    /\ Awaits(w, "wake")
    /\ UpdateRun(s.run, [runs[s.run] EXCEPT !.status = "RUNNING"])
    /\ WalkOn(w, s, s.node)
    /\ UNCHANGED <<queueVars, rowVars, tenantVars, delivered, fed, raced, budgetVars, quotaVars>>

(* branchTarget of a CONDITION, and firstEdgeTarget in its absence. *)
BranchTargets(g, n, handle) ==
    LET branch == {e \in Shape[g].edges : e.from = n /\ e.handle = handle} IN
    IF branch = {} THEN FirstEdgeTargets(g, n) ELSE {e.to : e \in branch}

(* A CONDITION looks at the last reply, else at the text that triggered. *)
Handle(w) ==
    LET reply == worker[w].vars.reply
        text == IF reply = NoEvent THEN runs[RunOf(w)].event ELSE reply IN
    IF said[text].agrees THEN "match" ELSE "else"

Targets(w) ==
    IF TypeAt(w) = "CONDITION" THEN BranchTargets(worker[w].graph, worker[w].node, Handle(w))
    ELSE FirstEdgeTargets(worker[w].graph, worker[w].node)

(* advance: the cursor and the variables are written, and the walk goes on. *)
Advance(w) ==
    LET s == worker[w] IN
    /\ Awaits(w, "advance")
    /\ \E n \in Targets(w) :
        /\ UpdateRun(s.run, [runs[s.run] EXCEPT !.node = n, !.vars = s.vars])
        /\ WalkOn(w, s, n)
    /\ UNCHANGED <<queueVars, rowVars, tenantVars, delivered, fed, raced, budgetVars, quotaVars>>

(* pause: the run waits for a reply, 24 hours at most. *)
Pause(w) ==
    LET s == worker[w] IN
    /\ Awaits(w, "pause")
    /\ UpdateRun(s.run, [runs[s.run] EXCEPT !.status = "WAITING", !.node = s.node,
                           !.wait = "reply", !.lapsed = FALSE, !.vars = s.vars])
    /\ Goto(w, "finish")
    /\ UNCHANGED <<queueVars, stops, rowVars, tenantVars, historyVars, budgetVars, quotaVars>>

(* DELAY: the run waits past the node first, and its job is added next. *)
BeginDelay(w) ==
    LET s == worker[w] IN
    /\ Awaits(w, "delay")
    /\ \E n \in FirstEdgeTargets(s.graph, s.node) :
        UpdateRun(s.run, [runs[s.run] EXCEPT !.status = "WAITING", !.node = n, !.wait = "delay",
                            !.vars = s.vars])
    /\ Goto(w, "schedule")
    /\ UNCHANGED <<queueVars, stops, rowVars, tenantVars, historyVars, budgetVars, quotaVars>>

ScheduleResume(w) ==
    /\ Awaits(w, "schedule")
    /\ AddJob(RunOf(w), TRUE, NoEvent)
    /\ Goto(w, "finish")
    /\ UNCHANGED <<said, hook, runVars, rowVars, tenantVars, historyVars, budgetVars, quotaVars>>

(* saveContactField: the contact is found or created, and subscribed. *)
SaveContactField(w) ==
    /\ Awaits(w, "save")
    /\ contact' = "subscribed"
    /\ worker' = [v \in Worker |->
         [worker[v] EXCEPT !.stopped = FALSE, !.at = IF v = w THEN "advance" ELSE @]]
    /\ UNCHANGED <<queueVars, runVars, ledger, dmRows, notices, handoffs, tenantVars,
                   historyVars, budgetVars, quotaVars>>

(* SUBSCRIBE, UNSUBSCRIBE and ADD_TAG of an ACTION node: ensureContact     *)
(* creates a subscribed contact, and the first two then set the flag.      *)
ApplyAction(w) ==
    /\ Awaits(w, "setContact")
    /\ contact' = CASE TypeAt(w) = "SUBSCRIBE" -> "subscribed"
                    [] TypeAt(w) = "UNSUBSCRIBE" -> "unsubscribed"
                    [] OTHER -> IF contact = "none" THEN "subscribed" ELSE contact
    /\ worker' = [v \in Worker |->
         [worker[v] EXCEPT !.stopped = @ /\ TypeAt(w) # "SUBSCRIBE",
                           !.at = IF v = w THEN "advance" ELSE @]]
    /\ UNCHANGED <<queueVars, runVars, ledger, dmRows, notices, handoffs, tenantVars,
                   historyVars, budgetVars, quotaVars>>

NotifyHandoff(w) ==
    /\ Awaits(w, "handoff")
    /\ handoffs' = handoffs + 1
    /\ Goto(w, "park")
    /\ UNCHANGED <<queueVars, runVars, ledger, dmRows, contact, notices, tenantVars,
                   historyVars, budgetVars, quotaVars>>

ParkRun(w) ==
    LET s == worker[w] IN
    /\ Awaits(w, "park")
    /\ UpdateRun(s.run, [runs[s.run] EXCEPT !.status = "HANDOFF", !.node = s.node, !.vars = s.vars])
    /\ Goto(w, "finish")
    /\ UNCHANGED <<queueVars, stops, rowVars, tenantVars, historyVars, budgetVars, quotaVars>>

CompleteRun(w) ==
    LET s == worker[w] IN
    /\ Awaits(w, "complete")
    /\ UpdateRun(s.run, [runs[s.run] EXCEPT !.status = "COMPLETED", !.node = NoNode, !.vars = s.vars])
    /\ Goto(w, "finish")
    /\ UNCHANGED <<queueVars, stops, rowVars, tenantVars, historyVars, budgetVars, quotaVars>>

(* An update that nobody awaited reaches the database. *)
StopRun(r) ==
    /\ r \in stops
    /\ UpdateRun(r, [runs[r] EXCEPT !.status = "FAILED"])
    /\ stops' = stops \ {r}
    /\ UNCHANGED <<queueVars, worker, rowVars, tenantVars, historyVars, budgetVars, quotaVars>>

------------------------------------------------------------------------------
(* sendWorkflowDm                                                          *)

(* What a send that went well, or did not, leads to. *)
AfterSend(s, ok) ==
    CASE s.doing = "link" -> "advance"
      [] s.doing = "retry" -> "pause"
      [] s.doing = "message" -> IF ok THEN "advance" ELSE "finish"
      [] s.doing = "prompt" -> IF ok THEN "pause" ELSE "finish"

(* A prompt that was sent starts the count of answers. *)
Returned(s, ok) ==
    [s EXCEPT !.at = AfterSend(s, ok), !.doing = "none", !.error = "none",
              !.vars.asks = IF s.doing = "prompt" /\ ok THEN 0 ELSE @]

Return(w, ok) ==
    LET s == worker[w] IN
    /\ worker' = [worker EXCEPT ![w] = Returned(s, ok)]
    /\ stops' = IF AfterSend(s, ok) = "finish" THEN stops \cup {s.run} ELSE stops

(* Mutant: consent was given when the workflow started. *)
CheckNoConsent(w) ==
    /\ Awaits(w, "consent")
    /\ Goto(w, "cap")
    /\ UNCHANGED <<queueVars, runVars, rowVars, tenantVars, historyVars, budgetVars, quotaVars>>

CheckConsent(w) ==
    /\ Awaits(w, "consent")
    /\ IF contact = "unsubscribed" THEN Return(w, FALSE) ELSE Goto(w, "cap") /\ UNCHANGED stops
    /\ UNCHANGED <<queueVars, runs, recency, rowVars, tenantVars, historyVars, budgetVars, quotaVars>>

CheckContactCap(w) ==
    /\ Awaits(w, "cap")
    /\ IF Cardinality(dmRows) >= DmCap THEN Return(w, FALSE) ELSE Goto(w, "quota") /\ UNCHANGED stops
    /\ UNCHANGED <<queueVars, runs, recency, rowVars, tenantVars, historyVars, budgetVars, quotaVars>>

GetDmQuota(w) ==
    /\ Awaits(w, "quota")
    /\ ReadQuota(w)
    /\ Goto(w, "reserve")
    /\ UNCHANGED <<queueVars, runVars, rowVars, tenantVars, historyVars, budgetVars>>

IncrementDmUsage(w) ==
    /\ Awaits(w, "reserve")
    /\ Reserve(w)
    /\ Goto(w, IF sender'[w].at = "over" THEN "release" ELSE "send")
    /\ UNCHANGED <<queueVars, runVars, rowVars, tenantVars, historyVars, budgetVars>>

(* The slot goes back when it was over the cap, and when the send failed;  *)
(* only a throttled send leaves the handler as an error.                   *)
DecrementDmUsage(w) ==
    LET error == worker[w].error IN
    /\ Awaits(w, "release")
    /\ Release(w)
    /\ IF sender[w].at = "over"
       THEN /\ worker' = [worker EXCEPT ![w].at = "findNotice", ![w].period = sender[w].period]
            /\ UNCHANGED stops
       ELSE IF error = "auth" THEN Goto(w, "flag") /\ UNCHANGED stops
       ELSE IF error = "limited" THEN Goto(w, "throttled") /\ UNCHANGED stops
       ELSE Return(w, FALSE)
    /\ UNCHANGED <<queueVars, runs, recency, rowVars, tenantVars, historyVars, budgetVars>>

(* notifyMonthlyDmLimit looks for the period's notification and creates it. *)
FindNotice(w) ==
    /\ Awaits(w, "findNotice")
    /\ IF notices[worker[w].period] > 0 THEN Return(w, FALSE) ELSE Goto(w, "notice") /\ UNCHANGED stops
    /\ UNCHANGED <<queueVars, runs, recency, rowVars, tenantVars, historyVars, budgetVars, quotaVars>>

CreateNotice(w) ==
    /\ Awaits(w, "notice")
    /\ notices' = [notices EXCEPT ![worker[w].period] = @ + 1]
    /\ Return(w, FALSE)
    /\ UNCHANGED <<queueVars, runs, recency, ledger, dmRows, contact, handoffs, tenantVars,
                   historyVars, budgetVars, quotaVars>>

Delivered(w) == [delivered EXCEPT ![RunOf(w)][worker[w].node] = @ + 1]

(* Mutant: a client that repeats the request when the answer is slow. *)
SendDmRepeated(w) ==
    /\ Awaits(w, "send")
    /\ delivered' = Delivered(w)
    /\ \/ Keep(w) /\ Goto(w, "dmRow")
       \/ UNCHANGED <<quotaVars, worker>>
    /\ UNCHANGED <<queueVars, runVars, rowVars, tenantVars, fed, answered, raced, budgetVars>>

SendDm(w) ==
    /\ Awaits(w, "send")
    /\ delivered' = Delivered(w)
    /\ Keep(w)
    /\ Goto(w, "dmRow")
    /\ UNCHANGED <<queueVars, runVars, rowVars, tenantVars, fed, answered, raced, budgetVars>>

(* Meta's answer to a message that did arrive may be lost on the way. *)
SendDmFails(w) ==
    /\ Awaits(w, "send")
    /\ Fault
    /\ \E error \in {"auth", "limited", "other"} :
        /\ worker' = [worker EXCEPT ![w].at = "release", ![w].error = error]
        /\ delivered' \in IF error = "other" THEN {delivered, Delivered(w)} ELSE {delivered}
    /\ UNCHANGED <<queueVars, runVars, rowVars, tenantVars, fed, answered, raced, quotaVars>>

FlagAccount(w) ==
    /\ Awaits(w, "flag")
    /\ account' = [account EXCEPT !.status = "NEEDS_RECONNECT"]
    /\ Return(w, FALSE)
    /\ UNCHANGED <<queueVars, runs, recency, rowVars, flow, orgActive, historyVars, budgetVars, quotaVars>>

(* The key of a DM's ledger row counts the steps of the job, not the run:  *)
(* a row that exists already is left alone.                                *)
DmKey(s) == <<s.run, IF s.doing = "link" THEN ActionNode ELSE s.node, s.steps>>

RecordDm(w) ==
    /\ Awaits(w, "dmRow")
    /\ dmRows' = dmRows \cup {DmKey(worker[w])}
    /\ Return(w, TRUE)
    /\ UNCHANGED <<queueVars, runs, recency, ledger, contact, notices, handoffs, tenantVars,
                   historyVars, budgetVars, quotaVars>>

WalkProgress(w) ==
    \/ LoadRun(w) \/ LoadAccount(w) \/ WakeRun(w) \/ Advance(w) \/ Pause(w) \/ BeginDelay(w)
    \/ ScheduleResume(w) \/ SaveContactField(w) \/ ApplyAction(w) \/ NotifyHandoff(w)
    \/ ParkRun(w) \/ CompleteRun(w)

SendProgress(w) ==
    \/ CheckConsent(w) \/ CheckContactCap(w) \/ GetDmQuota(w) \/ IncrementDmUsage(w)
    \/ DecrementDmUsage(w) \/ FindNotice(w) \/ CreateNotice(w) \/ SendDm(w) \/ FlagAccount(w)
    \/ RecordDm(w)
==============================================================================
