----------------------------- MODULE DmWorkflows -----------------------------
(***************************************************************************)
(* Workflows from a Meta webhook to the DMs of a run: deliveries and       *)
(* redeliveries, handlers that take, settle, lose and retry jobs, the      *)
(* dispatch and the walk, and the users, admins and clock that change the  *)
(* rows they read.                                                         *)
(***************************************************************************)
EXTENDS WorkflowEngine

(* Meta delivers as often as it likes; a job that exists stays as it is. *)
Deliver(e) ==
    /\ e \in DOMAIN said
    /\ hook[e].state = "absent"
    /\ hook' = [hook EXCEPT ![e] = Bull!Added(@)]
    /\ UNCHANGED <<said, jobs, worker, runVars, rowVars, tenantVars, historyVars, budgetVars, quotaVars>>

(* Settled webhook jobs are forgotten in time, and Meta may deliver again. *)
(* No id of a workflow job is ever added twice, so whether those are       *)
(* forgotten makes no difference.                                          *)
Evict(e) ==
    /\ Edit
    /\ hook[e].state \in {"completed", "failed"}
    /\ hook' = [hook EXCEPT ![e] = Bull!Absent]
    /\ UNCHANGED <<said, jobs, worker, runVars, rowVars, tenantVars, historyVars, quotaVars>>

Started(at) == [Free EXCEPT !.at = at, !.stopped = contact = "unsubscribed"]

TakeHook(w, e) ==
    /\ Awaits(w, "idle")
    /\ hook[e].state = "waiting"
    /\ hook' = [hook EXCEPT ![e] = Bull!Taken(@, w)]
    /\ worker' = [worker EXCEPT ![w] = [Started("dedup") EXCEPT !.event = e]]
    /\ UNCHANGED <<said, jobs, runVars, rowVars, tenantVars, historyVars, budgetVars, quotaVars>>

(* A delayed job waits like any other: its delay may take any time. *)
TakeJob(w, i) ==
    /\ Awaits(w, "idle")
    /\ jobs[i].bull.state = "waiting"
    /\ jobs' = [jobs EXCEPT ![i].bull = Bull!Taken(@, w)]
    /\ worker' = [worker EXCEPT ![w] = [Started("load") EXCEPT !.job = i]]
    /\ UNCHANGED <<said, hook, runVars, rowVars, tenantVars, historyVars, budgetVars, quotaVars>>

Settled(w, j, attempts) ==
    CASE Awaits(w, "finish") -> Bull!Completed(j, w)
      [] Awaits(w, "rethrow") -> Bull!Failed(j, w, attempts)
      [] Awaits(w, "throttled") -> Bull!RateLimited(j, w)

(* The handler returned or threw: BullMQ settles the job if the lock holds. *)
Settle(w) ==
    LET s == worker[w] IN
    /\ s.at \in Settling
    /\ IF s.job = 0
       THEN hook' = [hook EXCEPT ![s.event] = Settled(w, @, WebhookAttempts)] /\ UNCHANGED jobs
       ELSE jobs' = [jobs EXCEPT ![s.job].bull = Settled(w, @, WorkflowAttempts)] /\ UNCHANGED hook
    /\ worker' = [worker EXCEPT ![w] = Free]
    /\ UNCHANGED <<said, runVars, rowVars, tenantVars, historyVars, budgetVars, quotaVars>>

------------------------------------------------------------------------------
(* Faults                                                                  *)

(* What a handler still holds of the quota goes with it. *)
LoseSlot(w) == IF sender[w].at = "idle" THEN UNCHANGED quotaVars ELSE Abandon(w)

(* The awaited call throws, or before a send the token cannot be           *)
(* decrypted.  Only the ledger row of a DM is tried and caught.            *)
Throw(w) ==
    /\ worker[w].at \notin Settling \cup {"idle"}
    /\ Fault
    /\ IF Awaits(w, "dmRow") THEN Return(w, TRUE) ELSE Goto(w, "rethrow") /\ UNCHANGED stops
    /\ LoseSlot(w)
    /\ UNCHANGED <<queueVars, runs, recency, rowVars, tenantVars, historyVars>>

Crash(w) ==
    /\ ~ Awaits(w, "idle")
    /\ Fault
    /\ worker' = [worker EXCEPT ![w] = Free]
    /\ LoseSlot(w)
    /\ UNCHANGED <<queueVars, runVars, rowVars, tenantVars, historyVars>>

(* An update that nobody awaits is lost with its process. *)
LoseStop(r) ==
    /\ r \in stops
    /\ Fault
    /\ stops' = stops \ {r}
    /\ UNCHANGED <<queueVars, worker, runs, recency, rowVars, tenantVars, historyVars, quotaVars>>

(* A lock expires: that of a dead worker, or at the cost of a fault that   *)
(* of one that is only slow and goes on working.                           *)
Recover(e) ==
    /\ hook[e].state = "active"
    /\ \/ \E w \in Worker : hook[e].owner = w /\ EventOf(w) = e /\ Fault
       \/ ~ (\E w \in Worker : hook[e].owner = w /\ EventOf(w) = e) /\ UNCHANGED budgetVars
    /\ hook' = [hook EXCEPT ![e] = Bull!Stalled(@)]
    /\ UNCHANGED <<said, jobs, worker, runVars, rowVars, tenantVars, historyVars, quotaVars>>

RecoverJob(i) ==
    /\ jobs[i].bull.state = "active"
    /\ \/ \E w \in Worker : jobs[i].bull.owner = w /\ worker[w].job = i /\ Fault
       \/ ~ (\E w \in Worker : jobs[i].bull.owner = w /\ worker[w].job = i) /\ UNCHANGED budgetVars
    /\ jobs' = [jobs EXCEPT ![i].bull = Bull!Stalled(@)]
    /\ UNCHANGED <<said, hook, worker, runVars, rowVars, tenantVars, historyVars, quotaVars>>

------------------------------------------------------------------------------
(* Users, admins and the clock                                             *)

(* saveGraph replaces nodes and edges in one transaction; publish checks   *)
(* that the trigger leads somewhere, setStatus checks nothing, remove      *)
(* archives.                                                               *)
ChangeWorkflow(f) ==
    /\ Edit
    /\ flow[f].live
    /\ \/ \E g \in Graph : flow' = [flow EXCEPT ![f].graph = g]
       \/ \E status \in {"ACTIVE", "PAUSED"} : flow' = [flow EXCEPT ![f].status = status]
       \/ flow' = [flow EXCEPT ![f].live = FALSE, ![f].status = "PAUSED"]
    /\ UNCHANGED <<queueVars, worker, runVars, rowVars, account, orgActive, historyVars, quotaVars>>

ChangeTenant ==
    /\ Edit
    /\ \/ orgActive' = ~ orgActive /\ UNCHANGED account
       \/ /\ account' \in [status : {"CONNECTED", "NEEDS_RECONNECT"}, live : BOOLEAN]
          /\ UNCHANGED orgActive
    /\ UNCHANGED <<queueVars, worker, runVars, rowVars, flow, historyVars, quotaVars>>

(* 24 hours pass in which the contact does not answer. *)
WaitLapses(r) ==
    /\ Edit
    /\ WaitingForReply(r)
    /\ runs' = [runs EXCEPT ![r].lapsed = TRUE]
    /\ UNCHANGED <<queueVars, worker, recency, stops, rowVars, tenantVars, historyVars, quotaVars>>

------------------------------------------------------------------------------
Next ==
    \/ \E e \in Event : Deliver(e) \/ Evict(e) \/ Recover(e)
    \/ \E i \in DOMAIN jobs : RecoverJob(i)
    \/ \E w \in Worker :
        \/ \E e \in Event : TakeHook(w, e)
        \/ \E i \in DOMAIN jobs : TakeJob(w, i)
        \/ DispatchProgress(w) \/ WalkProgress(w) \/ SendProgress(w) \/ Settle(w)
        \/ SendDmFails(w) \/ Throw(w) \/ Crash(w)
    \/ \E r \in DOMAIN runs : StopRun(r) \/ LoseStop(r) \/ WaitLapses(r)
    \/ \E f \in Workflow : ChangeWorkflow(f)
    \/ ChangeTenant

Init == StateInit /\ QuotaInit

Spec == Init /\ [][Next]_vars

------------------------------------------------------------------------------
(* Properties                                                              *)

WorkflowTypeOK == StateTypeOK /\ QuotaTypeOK

(* One event starts one run or answers one run, but for one more per       *)
(* fault: redeliveries and concurrent handlers of other events of the      *)
(* same contact never make it count twice (resumeWaitingWorkflow and       *)
(* matchAndStartWorkflow act before the event's ledger row exists).        *)
EventsTakenOnce == \A e \in Event : fed[e] <= 1 + faults

(* A reply is "consumed once, at the first wait node": it is never taken   *)
(* for the answer to two waits, unless a fault made its job start over     *)
(* with the text it carries.                                               *)
RepliesAnswerOnce == \A e \in Event : answered[e] <= 1 + faults

(* Where the edges that leave a node lead, a walk stays clear of the node. *)
OnNoCycle ==
    {p \in Graph \X Node :
        \E after \in SUBSET (Node \ {p[2]}) :
            \A e \in Shape[p[1]].edges : e.from \in after \cup {p[2]} => e.to \in after}

(* A message that no cycle of its graph leads back to is sent once per run *)
(* and fault, unless two replies woke the run at once and two handlers     *)
(* walked it, or the graph was changed under the run.                      *)
FlowDmsCostFaults ==
    \A r \in DOMAIN runs :
        LET g == flow[runs[r].workflow].graph IN
        \A n \in DOMAIN Shape[g].type :
            Shape[g].type[n] = "SEND_MESSAGE" /\ <<g, n>> \in OnNoCycle =>
                delivered[r][n] <= 1 + faults \/ r \in raced \/ edits > 0

(* Somebody will still move the run on: a job, an update under way, or a   *)
(* handler about to add the job.                                           *)
Attended(r) ==
    \/ \E i \in DOMAIN jobs : jobs[i].run = r /\ jobs[i].bull.state \in {"waiting", "active"}
    \/ r \in stops
    \/ \E w \in Worker : RunOf(w) = r /\ worker[w].at \in {"feed", "enqueue"}

(* A run that is RUNNING, or waits for its delay, is never left behind     *)
(* without a fault, whatever replies, edits and handlers cross its way.    *)
NoRunAbandoned ==
    \A r \in DOMAIN runs :
        runs[r].status = "RUNNING" \/ (runs[r].status = "WAITING" /\ runs[r].wait = "delay")
            => Attended(r) \/ faults > 0

(* A walk taken up after the contact said STOP, and before anything        *)
(* subscribed them again, sends nothing.                                   *)
StopStopsFlows == \A w \in Worker : Awaits(w, "send") => ~ worker[w].stopped
==============================================================================
