---------------------------- MODULE WorkflowState ----------------------------
(***************************************************************************)
(* What visual workflows keep: the graphs users draw, the runs of these    *)
(* graphs for one contact of one Instagram account, the jobs that walk     *)
(* them, and what each handler is doing (growasy-worker                    *)
(* src/queues/workflow-engine.ts and its calls from stage 1).              *)
(*                                                                         *)
(* The organisation has no keyword rule, and so no lead capture: what an   *)
(* event does when no workflow takes it is the pipeline's model.  Run      *)
(* steps (workflow_run_steps) are a log no code reads; its insert and the  *)
(* update that follows it are one step here.  The 24-hour window of the    *)
(* per-contact cap never ends, and the plan stays as it is.                    *)
(***************************************************************************)
EXTENDS DmQuota, Sequences

CONSTANTS
    Event,          \* comment ids and message mids
    Conversation,   \* which events may come, and what they say
    NoEvent,
    Workflow,       \* workflow ids
    Priority,       \* of each workflow
    Graph,          \* the graphs users draw
    Shape,          \* trigger, nodes and edges of each graph
    Node, NoNode,
    ActionNode,     \* the node id under which every SEND_LINK is recorded
    NoWorker,
    WebhookAttempts,    \* attempts of a webhook-processing job
    WorkflowAttempts,   \* attempts of a workflow-execution job
    MaxStalls,      \* BullMQ's maxStalledCount
    MaxSteps,       \* MAX_STEPS_PER_JOB
    DmCap,          \* DEFAULT_MAX_DMS_PER_USER_PER_24H
    MaxAsks,        \* maxAttempts of every COLLECT_INPUT node
    MaxUpsets       \* bound: faults (failed calls, crashes, expired locks)
                    \* and changes made by users, admins and the clock

Worker == Sender

Bull == INSTANCE BullJob WITH Owner <- Worker, NoOwner <- NoWorker

(* valid tells a text that holds what is asked for, agrees one that        *)
(* matches the keywords of a CONDITION.                                    *)
EventKind == [source : {"comment", "message"}, optOut : BOOLEAN,
              valid : BOOLEAN, agrees : BOOLEAN]

(* The four configurations of an ACTION node are types of their own. *)
NodeType == {"TRIGGER", "SEND_MESSAGE", "DELAY", "WAIT_REPLY", "COLLECT_INPUT",
             "CONDITION", "SUBSCRIBE", "UNSUBSCRIBE", "ADD_TAG", "SEND_LINK",
             "HANDOFF", "END"}

Edge == [from : Node, to : Node, handle : {"plain", "match", "else"}]

(* fires: the events whose text and source match the trigger's settings. *)
GraphShape == [fires : SUBSET Event, trigger : Node,
               type : UNION {[ns -> NodeType] : ns \in SUBSET Node},
               edges : SUBSET Edge]

ASSUME WorkflowAssumption ==
    /\ \A c \in Conversation : DOMAIN c \subseteq Event /\ \A e \in DOMAIN c : c[e] \in EventKind
    /\ Priority \in [Workflow -> Nat]
    /\ \A g \in Graph :
        /\ Shape[g].fires \subseteq Event
        /\ Shape[g].edges \subseteq Edge
        /\ DOMAIN Shape[g].type \subseteq Node
        /\ Shape[g].type[Shape[g].trigger] = "TRIGGER"
    /\ NoEvent \notin Event /\ NoWorker \notin Worker /\ {NoNode, ActionNode} \cap Node = {}
    /\ {WebhookAttempts, WorkflowAttempts, MaxSteps, DmCap, MaxAsks} \subseteq Nat \ {0}
    /\ {MaxStalls, MaxUpsets} \subseteq Nat

VARIABLES
    said,       \* the events that come and what they say, once and for all
    hook,       \* webhook-processing jobs, by event
    jobs,       \* workflow-execution jobs, in the order they were added
    worker,     \* each concurrent handler: what it awaits and its locals
    ledger,     \* processed_comments of events: the outcome
    dmRows,     \* processed_comments of workflow DMs: their dedup keys
    runs,       \* workflow_runs, in the order they were created
    recency,    \* the order of updatedAt: pairs of runs, the older first
    stops,      \* stopRun updates that no handler awaits
    flow,       \* workflows: status, deletedAt and current graph
    contact,    \* the contact row and its isSubscribed
    account,    \* the account's status, and live: deletedAt is null
    orgActive,  \* organization.isActive
    notices,    \* monthly_dm_limit notifications, by period
    handoffs,   \* notifications that a workflow needs a human
    \* History, read by no action of the code
    delivered,  \* DMs that reached the contact, by run and node
    fed,        \* runs started or resumed with an event, by event
    answered,   \* waits that an event was taken as the answer to, by event
    raced,      \* runs that two handlers ever walked at once
    faults, edits

queueVars == <<said, hook, jobs>>
runVars == <<runs, recency, stops>>
rowVars == <<ledger, dmRows, contact, notices, handoffs>>
tenantVars == <<flow, account, orgActive>>
historyVars == <<delivered, fed, answered, raced>>
budgetVars == <<faults, edits>>
vars == <<queueVars, worker, runVars, rowVars, tenantVars, historyVars, budgetVars, quotaVars>>

RunStatus == {"RUNNING", "WAITING", "HANDOFF", "COMPLETED", "FAILED", "CANCELED"}

(* The variables of a run: the reply a CONDITION looks at, and how often   *)
(* COLLECT_INPUT has asked.                                                *)
Vars == [reply : Event \cup {NoEvent}, asks : Nat]

Run == [workflow : Workflow, event : Event, status : RunStatus, node : Node \cup {NoNode},
        wait : {"none", "reply", "delay"}, lapsed : BOOLEAN, vars : Vars]

(* resume tells a delayed job, reply the text that resumes the run. *)
FlowJob == [run : Nat, resume : BOOLEAN, reply : Event \cup {NoEvent}, bull : Bull!Job]

DispatchStep == {"dedup", "resolve", "findRun", "expire", "awaken", "feed", "match", "create",
                 "enqueue", "record", "unsubscribe"}
WalkStep == {"load", "account", "wake", "advance", "pause", "delay", "schedule", "save",
             "setContact", "handoff", "park", "complete"}
SendStep == {"consent", "cap", "quota", "reserve", "release", "findNotice", "notice", "send",
             "flag", "dmRow"}
Settling == {"finish", "rethrow", "throttled"}

Outcome == {"none", "no_account", "org_suspended", "needs_reconnect", "opted_out",
            "workflow_resumed", "workflow_started", "no_match"}

(* doing tells why a DM is sent; loaded is the status the run was loaded   *)
(* with.  stopped is history: the contact was unsubscribed when this       *)
(* attempt began and has been since.                                       *)
WorkerState == [at : {"idle"} \cup DispatchStep \cup WalkStep \cup SendStep \cup Settling,
                event : Event \cup {NoEvent}, job : Nat, run : Nat, graph : Graph \cup {NoNode},
                node : Node \cup {NoNode}, steps : Nat, reply : Event \cup {NoEvent},
                vars : Vars, doing : {"none", "message", "prompt", "retry", "link"},
                note : Outcome, error : {"none", "auth", "limited", "other"},
                workflow : Workflow \cup {NoNode}, loaded : RunStatus,
                period : Period \cup {NoPeriod}, stopped : BOOLEAN]

Fresh == [reply |-> NoEvent, asks |-> 0]

Free == [at |-> "idle", event |-> NoEvent, job |-> 0, run |-> 0, graph |-> NoNode,
         node |-> NoNode, steps |-> 0, reply |-> NoEvent, vars |-> Fresh, doing |-> "none",
         note |-> "none", error |-> "none", workflow |-> NoNode, loaded |-> "RUNNING",
         period |-> NoPeriod, stopped |-> FALSE]

StateTypeOK ==
    /\ said \in Conversation
    /\ hook \in [Event -> Bull!Job]
    /\ jobs \in Seq(FlowJob)
    /\ worker \in [Worker -> WorkerState]
    /\ ledger \in [Event -> Outcome]
    /\ dmRows \subseteq Nat \X (Node \cup {ActionNode}) \X Nat
    /\ runs \in Seq(Run)
    /\ recency \subseteq (DOMAIN runs) \X (DOMAIN runs)
    /\ stops \subseteq DOMAIN runs
    /\ flow \in [Workflow -> [status : {"ACTIVE", "PAUSED"}, live : BOOLEAN, graph : Graph]]
    /\ contact \in {"none", "subscribed", "unsubscribed"}
    /\ account \in [status : {"CONNECTED", "NEEDS_RECONNECT"}, live : BOOLEAN]
    /\ orgActive \in BOOLEAN
    /\ notices \in [Period -> Nat]
    /\ handoffs \in Nat
    /\ delivered \in Seq([Node -> Nat]) /\ Len(delivered) = Len(runs)
    /\ fed \in [Event -> Nat]
    /\ answered \in [Event -> Nat]
    /\ raced \subseteq DOMAIN runs
    /\ faults \in 0..MaxUpsets
    /\ edits \in 0..MaxUpsets

StateInit ==
    /\ said \in Conversation
    /\ hook = [e \in Event |-> Bull!Absent]
    /\ jobs = <<>>
    /\ worker = [w \in Worker |-> Free]
    /\ ledger = [e \in Event |-> "none"]
    /\ dmRows = {}
    /\ runs = <<>> /\ recency = {} /\ stops = {}
    /\ flow \in [Workflow -> [status : {"ACTIVE"}, live : {TRUE}, graph : Graph]]
    /\ contact = "none"
    /\ account = [status |-> "CONNECTED", live |-> TRUE]
    /\ orgActive = TRUE
    /\ notices = [p \in Period |-> 0]
    /\ handoffs = 0
    /\ delivered = <<>>
    /\ fed = [e \in Event |-> 0]
    /\ answered = [e \in Event |-> 0]
    /\ raced = {}
    /\ faults = 0 /\ edits = 0

------------------------------------------------------------------------------
(* How a handler moves                                                     *)

Awaits(w, step) == worker[w].at = step
Goto(w, step) == worker' = [worker EXCEPT ![w].at = step]
Write(w, note) == worker' = [worker EXCEPT ![w].at = "record", ![w].note = note]

(* One call that a fault of the database, Redis or Meta may take the place of. *)
Fault == faults + edits < MaxUpsets /\ faults' = faults + 1 /\ UNCHANGED edits
Edit == faults + edits < MaxUpsets /\ edits' = edits + 1 /\ UNCHANGED faults

(* workflowRun.update sets updatedAt. *)
Touched(r) ==
    {p \in recency : r \notin {p[1], p[2]}} \cup {<<q, r>> : q \in DOMAIN runs \ {r}}
UpdateRun(r, row) == runs' = [runs EXCEPT ![r] = row] /\ recency' = Touched(r)

(* queue.add of a job without an id of its own, or with that of a new run. *)
AddJob(r, resume, reply) ==
    jobs' = Append(jobs, [run |-> r, resume |-> resume, reply |-> reply,
                          bull |-> Bull!Added(Bull!Absent)])
==============================================================================
