---------------------------- MODULE PipelineState ----------------------------
(***************************************************************************)
(* What the comment-to-DM pipeline keeps: the jobs in Redis, what each     *)
(* worker is doing, and the database rows of one organisation with one     *)
(* Instagram account, talking to one contact.                              *)
(*                                                                         *)
(* Ledger rows are processed_comments (keyed by event), the capture is the *)
(* contact's pending_lead_captures row.  The 24-hour window of the         *)
(* per-contact cap never ends here: every event falls within it.  The      *)
(* organisation has no visual workflow, so the calls of the workflow       *)
(* engine's matchers find nothing and change nothing.                      *)
(***************************************************************************)
EXTENDS DmQuota, Sequences, FiniteSetsExt

CONSTANTS
    Event,              \* comment ids and message mids
    Kind,               \* what the webhook says of each event
    Rule, NoRule,
    Config,             \* each rule's settings
    Matches,            \* the rules each event's text and media match
    NoWorker, NoEvent,
    WebhookAttempts,    \* attempts of a webhook-processing job
    ExecutionAttempts,  \* attempts of an automation-execution job
    MaxStalls,          \* BullMQ's maxStalledCount
    MaxCaptureAttempts, \* MAX_CAPTURE_ATTEMPTS of lead-capture.ts
    MaxFaults,          \* bound: failed calls, crashes and expired locks
    MaxEdits,           \* bound: changes made by users, admins and cron jobs
    MaxUpsets           \* bound: both together

Worker == Sender

Bull == INSTANCE BullJob WITH Owner <- Worker, NoOwner <- NoWorker

(* reply and mention tell a story reply and a story mention, own an event  *)
(* caused by the account itself; optOut and email say what the text holds. *)
EventKind == [source : {"comment", "message"}, reply : BOOLEAN, mention : BOOLEAN,
              own : BOOLEAN, optOut : BOOLEAN, email : BOOLEAN]

RuleConfig == [priority : Nat, cap : Nat \ {0}, collects : BOOLEAN, replies : BOOLEAN]

ASSUME PipelineAssumption ==
    /\ Kind \in [Event -> EventKind]
    /\ Config \in [Rule -> RuleConfig]
    /\ Matches \in [Event -> SUBSET Rule]
    /\ NoRule \notin Rule /\ NoEvent \notin Event /\ NoWorker \notin Worker
    /\ {WebhookAttempts, ExecutionAttempts, MaxCaptureAttempts} \subseteq Nat \ {0}
    /\ {MaxStalls, MaxFaults, MaxEdits, MaxUpsets} \subseteq Nat

(* Job ids, as the producers build them: wh-<event>, ax-<event>-<rule> and *)
(* lead-reply-<event>.                                                     *)
WebhookJob(e) == [queue |-> "webhook", event |-> e, rule |-> NoRule]
ExecutionJob(e, r) == [queue |-> "execution", event |-> e, rule |-> r]
ReplyJob(e) == [queue |-> "reply", event |-> e, rule |-> NoRule]

JobId == {WebhookJob(e) : e \in Event}
         \cup {ExecutionJob(e, r) : e \in Event, r \in Rule}
         \cup {ReplyJob(e) : e \in Event}
NoJob == [queue |-> "none", event |-> NoEvent, rule |-> NoRule]

(* Mutant: jobs added without retries. *)
AttemptOnce(id) == 1

Attempts(id) == IF id.queue = "webhook" THEN WebhookAttempts ELSE ExecutionAttempts

VARIABLES
    job,        \* the queues: a BullMQ job per job id
    worker,     \* each concurrent handler: what it awaits and its locals
    ledger,     \* processed_comments, by event
    contact,    \* the contact row and its isSubscribed
    capture,    \* the contact's pending_lead_captures row
    account,    \* the account's status, and live: deletedAt is null
    orgActive,  \* organization.isActive
    ruleStatus, \* each rule's status; an ARCHIVED rule has deletedAt set
    notices,    \* monthly_dm_limit notifications, by period
    \* History of what left the system, read by no action of the code
    delivered,  \* automation DMs that reached the contact, by event
    replied,    \* lead replies that reached the contact, by event
    handed,     \* the rules execution jobs were created for, by event
    faults, edits

rowVars == <<ledger, contact, capture, notices>>
tenantVars == <<account, orgActive, ruleStatus>>
outVars == <<delivered, replied, handed>>
budgetVars == <<faults, edits>>
vars == <<job, worker, rowVars, tenantVars, outVars, budgetVars, quotaVars>>

Outcome == {"none", "no_account", "org_suspended", "needs_reconnect", "self_comment",
            "opted_out", "lead_capture", "no_match", "matched", "unsubscribed",
            "rate_limited", "plan_limit_reached", "dm_sent", "failed"}

WebhookStep == {"dedup", "resolve", "capture", "rules", "record", "contact", "handoff",
                "unsubscribe", "copy", "email", "close", "attempt", "reply"}
ExecutionStep == {"load", "consent", "cap", "quota", "reserve", "release", "send", "open",
                  "mark", "flag", "findNotice", "notice"}
ReplyStep == {"account", "replyQuota", "replySend", "charge", "flag"}
Settling == {"finish", "rethrow", "throttled"}
Step == {"idle"} \cup WebhookStep \cup ExecutionStep \cup ReplyStep \cup Settling

(* note is the outcome about to be written, error what the last call to    *)
(* Meta answered, attempts and rule what was read from the capture row or  *)
(* matched, period where a slot was refused.  stopped is history: the      *)
(* contact was unsubscribed when this attempt began and has been since.    *)
WorkerState == [at : Step, job : JobId \cup {NoJob}, rule : Rule \cup {NoRule},
                attempts : Nat, note : Outcome,
                error : {"none", "auth", "limited", "other"},
                period : Period \cup {NoPeriod}, stopped : BOOLEAN]

Free == [at |-> "idle", job |-> NoJob, rule |-> NoRule, attempts |-> 0,
         note |-> "none", error |-> "none", period |-> NoPeriod, stopped |-> FALSE]

LedgerRow == [outcome : Outcome, rule : Rule \cup {NoRule}, sent : BOOLEAN]
NoRow == [outcome |-> "none", rule |-> NoRule, sent |-> FALSE]

CaptureRow == [status : {"none", "AWAITING", "COMPLETED", "EXPIRED"},
               attempts : Nat, rule : Rule \cup {NoRule}, open : BOOLEAN]
NoCapture == [status |-> "none", attempts |-> 0, rule |-> NoRule, open |-> FALSE]

AccountRow == [status : {"CONNECTED", "NEEDS_RECONNECT", "ERROR", "DISCONNECTED"},
               live : BOOLEAN]

StateTypeOK ==
    /\ job \in [JobId -> Bull!Job]
    /\ worker \in [Worker -> WorkerState]
    /\ ledger \in [Event -> LedgerRow]
    /\ contact \in {"none", "subscribed", "unsubscribed"}
    /\ capture \in CaptureRow
    /\ account \in AccountRow
    /\ orgActive \in BOOLEAN
    /\ ruleStatus \in [Rule -> {"ACTIVE", "PAUSED", "ARCHIVED"}]
    /\ notices \in [Period -> Nat]
    /\ delivered \in [Event -> Nat]
    /\ replied \in [Event -> Nat]
    /\ handed \in [Event -> Seq(Rule)]
    /\ faults \in 0..MaxFaults
    /\ edits \in 0..MaxEdits

StateInit ==
    /\ job = [id \in JobId |-> Bull!Absent]
    /\ worker = [w \in Worker |-> Free]
    /\ ledger = [e \in Event |-> NoRow]
    /\ contact = "none"
    /\ capture = NoCapture
    /\ account = [status |-> "CONNECTED", live |-> TRUE]
    /\ orgActive = TRUE
    /\ ruleStatus = [r \in Rule |-> "ACTIVE"]
    /\ notices = [p \in Period |-> 0]
    /\ delivered = [e \in Event |-> 0]
    /\ replied = [e \in Event |-> 0]
    /\ handed = [e \in Event |-> <<>>]
    /\ faults = 0
    /\ edits = 0

------------------------------------------------------------------------------
(* How a handler moves                                                     *)

EventOf(w) == worker[w].job.event
Awaits(w, step) == worker[w].at = step
Goto(w, step) == worker' = [worker EXCEPT ![w].at = step]

(* Go on to write outcome note. *)
Write(w, step, note) == worker' = [worker EXCEPT ![w].at = step, ![w].note = note]

(* The bound on faults and edits together. *)
Upset == faults + edits < MaxUpsets

(* One call that a fault of the database, Redis or Meta may take the place of. *)
Fault == Upset /\ faults < MaxFaults /\ faults' = faults + 1 /\ UNCHANGED edits
Edit == Upset /\ edits < MaxEdits /\ edits' = edits + 1 /\ UNCHANGED faults
==============================================================================
