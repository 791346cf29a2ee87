--------------------------- MODULE WorkflowDispatch --------------------------
(***************************************************************************)
(* Stage 1 of an organisation that has workflows: one action per awaited   *)
(* call of growasy-worker/src/queues/webhook-processing.processor.ts,      *)
(* resumeWaitingWorkflow and matchAndStartWorkflow.                        *)
(***************************************************************************)
EXTENDS WorkflowState

EventOf(w) == worker[w].event

(* Mutant: the ledger is left to its unique key. *)
DedupLate(w) ==
    /\ Awaits(w, "dedup")
    /\ Goto(w, "resolve")
    /\ UNCHANGED <<queueVars, runVars, rowVars, tenantVars, historyVars, budgetVars, quotaVars>>

Dedup(w) ==
    /\ Awaits(w, "dedup")
    /\ Goto(w, IF ledger[EventOf(w)] = "none" THEN "resolve" ELSE "finish")
    /\ UNCHANGED <<queueVars, runVars, rowVars, tenantVars, historyVars, budgetVars, quotaVars>>

Refusal ==
    IF ~ account.live THEN "no_account"
    ELSE IF ~ orgActive THEN "org_suspended"
    ELSE IF account.status # "CONNECTED" THEN "needs_reconnect"
    ELSE "none"

Resolve(w) ==
    LET k == said[EventOf(w)] IN
    /\ Awaits(w, "resolve")
    /\ IF Refusal # "none" THEN Write(w, Refusal)
       ELSE IF k.source = "message" /\ k.optOut THEN Write(w, "opted_out")
       ELSE Goto(w, IF k.source = "message" THEN "findRun" ELSE "match")
    /\ UNCHANGED <<queueVars, runVars, rowVars, tenantVars, historyVars, budgetVars, quotaVars>>

(* recordProcessed; an opt-out goes on if it created the row. *)
RecordProcessed(w) ==
    LET e == EventOf(w)
        created == ledger[e] = "none" IN
    /\ Awaits(w, "record")
    /\ ledger' = IF created THEN [ledger EXCEPT ![e] = worker[w].note] ELSE ledger
    /\ Goto(w, IF created /\ worker[w].note = "opted_out" THEN "unsubscribe" ELSE "finish")
    /\ UNCHANGED <<queueVars, runVars, dmRows, contact, notices, handoffs, tenantVars,
                   historyVars, budgetVars, quotaVars>>

Unsubscribe(w) ==
    /\ Awaits(w, "unsubscribe")
    /\ contact' = "unsubscribed"
    /\ Goto(w, "finish")
    /\ UNCHANGED <<queueVars, runVars, ledger, dmRows, notices, handoffs, tenantVars,
                   historyVars, budgetVars, quotaVars>>

------------------------------------------------------------------------------
(* resumeWaitingWorkflow                                                   *)

WaitingForReply(r) == runs[r].status = "WAITING" /\ runs[r].wait = "reply"

(* Of the runs that wait for a reply, the one updated last. *)
FindWaitingRun(w) ==
    LET waiting == {r \in DOMAIN runs : WaitingForReply(r)} IN
    /\ Awaits(w, "findRun")
    /\ \/ waiting = {} /\ Goto(w, "match")
       \/ \E r \in waiting :
            /\ \A q \in waiting \ {r} : <<q, r>> \in recency
            /\ worker' = [worker EXCEPT ![w].run = r,
                             ![w].at = IF runs[r].lapsed THEN "expire" ELSE "awaken"]
    /\ UNCHANGED <<queueVars, runVars, rowVars, tenantVars, historyVars, budgetVars, quotaVars>>

(* A wait that timed out is given up; the event may start something new. *)
ExpireRun(w) ==
    LET r == worker[w].run IN
    /\ Awaits(w, "expire")
    /\ UpdateRun(r, [runs[r] EXCEPT !.status = "CANCELED"])
    /\ Goto(w, "match")
    /\ UNCHANGED <<queueVars, stops, rowVars, tenantVars, historyVars, budgetVars, quotaVars>>

(* The status is written whatever it has become since the run was found. *)
AwakenRun(w) ==
    LET r == worker[w].run IN
    /\ Awaits(w, "awaken")
    /\ UpdateRun(r, [runs[r] EXCEPT !.status = "RUNNING"])
    /\ Goto(w, "feed")
    /\ UNCHANGED <<queueVars, stops, rowVars, tenantVars, historyVars, budgetVars, quotaVars>>

FeedReply(w) ==
    LET e == EventOf(w) IN
    /\ Awaits(w, "feed")
    /\ AddJob(worker[w].run, FALSE, e)
    /\ fed' = [fed EXCEPT ![e] = @ + 1]
    /\ Write(w, "workflow_resumed")
    /\ UNCHANGED <<said, hook, runVars, rowVars, tenantVars, delivered, answered, raced,
                   budgetVars, quotaVars>>

------------------------------------------------------------------------------
(* matchAndStartWorkflow                                                   *)

Matching(e) ==
    {f \in Workflow : flow[f].status = "ACTIVE" /\ flow[f].live /\ e \in Shape[flow[f].graph].fires}

(* The workflows come by priority; the database breaks ties. *)
MatchWorkflow(w) ==
    LET found == Matching(EventOf(w)) IN
    /\ Awaits(w, "match")
    /\ \/ found = {} /\ Write(w, "no_match")
       \/ \E f \in found :
            /\ \A o \in found : Priority[o] <= Priority[f]
            /\ worker' = [worker EXCEPT ![w].at = "create", ![w].workflow = f,
                                        ![w].graph = flow[f].graph]
    /\ UNCHANGED <<queueVars, runVars, rowVars, tenantVars, historyVars, budgetVars, quotaVars>>

(* firstEdgeTarget: an unlabelled edge before any other, null if there is  *)
(* none.  The rows of edges come in no particular order.                   *)
FirstEdgeTargets(g, n) ==
    LET out == {e \in Shape[g].edges : e.from = n}
        plain == {e \in out : e.handle = "plain"} IN
    IF out = {} THEN {NoNode} ELSE {e.to : e \in IF plain # {} THEN plain ELSE out}

(* The run starts at the trigger's target. *)
CreateRun(w) ==
    LET r == Len(runs) + 1
        g == worker[w].graph IN
    /\ Awaits(w, "create")
    /\ \E n \in FirstEdgeTargets(g, Shape[g].trigger) :
        runs' = Append(runs, [workflow |-> worker[w].workflow, event |-> EventOf(w),
                              status |-> "RUNNING", node |-> n, wait |-> "none",
                              lapsed |-> FALSE, vars |-> Fresh])
    /\ recency' = recency \cup {<<q, r>> : q \in DOMAIN runs}
    /\ delivered' = Append(delivered, [n \in Node |-> 0])
    /\ worker' = [worker EXCEPT ![w].at = "enqueue", ![w].run = r]
    /\ UNCHANGED <<queueVars, stops, rowVars, tenantVars, fed, answered, raced, budgetVars, quotaVars>>

EnqueueRun(w) ==
    LET e == EventOf(w) IN
    /\ Awaits(w, "enqueue")
    /\ AddJob(worker[w].run, FALSE, NoEvent)
    /\ fed' = [fed EXCEPT ![e] = @ + 1]
    /\ Write(w, "workflow_started")
    /\ UNCHANGED <<said, hook, runVars, rowVars, tenantVars, delivered, answered, raced,
                   budgetVars, quotaVars>>

DispatchProgress(w) ==
    \/ Dedup(w) \/ Resolve(w) \/ RecordProcessed(w) \/ Unsubscribe(w)
    \/ FindWaitingRun(w) \/ ExpireRun(w) \/ AwakenRun(w) \/ FeedReply(w)
    \/ MatchWorkflow(w) \/ CreateRun(w) \/ EnqueueRun(w)
==============================================================================
