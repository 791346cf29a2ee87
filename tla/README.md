# A verification of the Instagram automation platform

The repository is a SaaS that turns Instagram comments and messages into
automated DMs. Three packages: `growasy-api` (NestJS, receives webhooks and
serves the dashboard), `growasy-worker` (BullMQ consumers), `growasy-web`
(React). This directory holds TLA+ modules of its core, the TLC runs that check
them and the TLAPS proofs about them. Paths below are relative to the
repository; `WP` is `growasy-worker/src/queues/webhook-processing.processor.ts`
and `AX` is `growasy-worker/src/queues/automation-execution.processor.ts`.

## 1. The system

| Component | State | Operations | What makes it correct |
|---|---|---|---|
| Webhook receiver (`modules/webhooks`, `queues/webhook-queue.service.ts`) | none; adds jobs to Redis | verify, split the body into comments and messages, one `queue.add` each, with the event's id as job id | every delivery becomes a job; duplicates collapse while the job exists |
| Stage 1 (`WP`) | `processed_comments` (the ledger, unique `dedupKey`), `contacts`, `pending_lead_captures` | dedup, resolve the account, STOP, lead capture, workflows, first matching rule, claim the event, hand it off | an event is decided once, whatever is redelivered or retried; STOP is honoured; a matched event reaches stage 2 |
| Stage 2 (`AX`) | the same rows, `usage_tracking`, the account's status | consent, per-contact cap, monthly quota, send, open a capture, mark the ledger; lead replies | no uncharged DM, no DM over the caps, none after STOP; the ledger tells the truth; duplicates only after failures |
| DM quota (`growasy-worker/src/billing/usage.ts`) | one counter per organisation and period | reserve (+1 and compare), release (-1 if positive), read the cap and period | the counter is exact; the cap is never oversold |
| Workflow engine (`workflow-engine.ts`, written `WE`; `modules/workflows`) | `workflow_runs`, step log, graphs | match an event and start a run, resume it with a reply, walk up to 50 nodes a job, wait, delay, collect, hand off, finish | an event starts or answers one run; a step's DM goes out once; no run is left to nobody; STOP silences it |
| BullMQ (library) | jobs, locks, attempts | add, take, complete, fail and retry, rate-limit, stalled-job check, removal | see `BullJob` |
| Instagram accounts (`modules/instagram`) | account row: owner, status, token and its expiry | connect, reconnect or take over, sync, disconnect, renew and flag tokens by night | one live workspace per identity; nothing of the old owner works on; warnings are deserved |
| Rules (`modules/automation`), plan limits | rule, triggers, actions | create under the active-rule cap, edit, activate, pause, remove | a rule acts only for the workspace of its account |
| Billing (`modules/billing`, `modules/admin`) | subscription, payments, coupons, invoices, notices, plan mails | quote, checkout, verify, webhook, cancel, nightly roll-over, reminder and lapse, admin changes | the books balance; a settled payment renews nothing; a paid period is kept; owners are told, once |
| Auth (`modules/auth`) and the web client's token store (`growasy-web/src/lib/api-client.ts`) | users, sessions, reset links; a cookie and what each tab knows | login and lockout, refresh with rotation and reuse detection, sign-out, revocation, reset | what is revoked stays dead; a reset ends old sessions; an honest browser is no thief; lockouts are earned |
| Organisations, onboarding, admin, revenue, links, contacts, mail, analytics, content | one or two rows per request | short handlers | see `PROJECT.json` components |

The parts interact through three kinds of shared state: jobs in Redis, rows in
MySQL that several processes read and write without transactions, and
Meta's API; the API process itself runs as a cluster, so its handlers and cron
jobs cross each other too. The hard behaviours are the awaits between two such accesses: a
handler is a sequence of independent atomic calls, up to ten handlers of each
queue run at once, each call may throw, the process may die, the lock of a slow
handler may expire, and users, admins and cron jobs rewrite the rows meanwhile.
`PROJECT.json` lists the hazards with the line at which each one bites.

## 2. What is modelled

```
DmQuota                                     BullJob (external contract)
   ├── PipelineState ─────────────────────────┤  INSTANCE
   │     ├── WebhookProcessing   (stage 1)    │
   │     ├── AutomationExecution (stage 2)    │
   │     └── DmPipeline = both + API, BullMQ, users ── implements EventClaim
   └── WorkflowState ─────────────────────────┘  INSTANCE
         └── WorkflowDispatch    (stage 1 with workflows)
               └── WorkflowEngine   (the walk of a run)
                     └── DmWorkflows = both + API, BullMQ, users
BillingState ── Payments ── BillingCycle ── Billing
SessionState ── AuthService ── WebSessions
AccountState ── InstagramAccounts ── Workspaces

Proofs (TLAPS), each extending the module it is about:
DmQuotaProofs ──┬── DmPipelineProofs  ── EventClaimProofs
                └── DmWorkflowsProofs ── FlowEventProofs
BillingProofs      WebSessionsProofs      WorkspacesProofs
```

Each family is a state module, one module per service, and one that adds what
surrounds them and the properties; an `MC...` module of each gives instances.

### The pipeline

`DmQuota` is the counter with every attempt that uses it. `ReadQuota`,
`Reserve`, `Release` are `getDmQuota`, `incrementDmUsage`, `decrementDmUsage`;
`Keep` is a send that succeeded, `SendUncapped` and `Charge` are the two halves
of a lead reply, `Abandon` is an attempt that ends without releasing (crash, or
a call that threw), `ChangePlan` a payment or a cron job. `sent`, `replies`,
`leaked` and `ceiling` are history: no action reads them. The
fallback of `incrementDmUsage` after a unique-key conflict ends in the same +1,
so it is one step.

`PipelineState` declares the rows, the queues, and what a handler remembers
between two awaits (`worker[w]`). One organisation, one account, one contact.
`WebhookProcessing` and `AutomationExecution` have one action per awaited call,
named for it, guarded by the position of the handler (`at`), so every
interleaving of awaits is explored. What the code computes between two awaits
belongs to the action of the call before. `Kind` says what an event is (comment or
message, story reply or mention, own, STOP, has an email) and `Matches` which
rules its text matches: keyword matching is data here.

`DmPipeline` composes them: `Deliver` (Meta, as often as it likes), `Take`,
`Settle`, `Evict`; the faults `Throw` (the awaited call fails), `Crash`,
`LoseLock`, and the two `...Fails` actions for Meta's answers (dead token,
throttling, other error, and a timeout of a message that did arrive); and the
environment, `ChangeAccount`, `SetOrgActive`, `ChangeRule`, `CaptureLapses`,
`ChangeSubscription`. A step of the pipeline that touches the counter is a
`DmQuota` action conjoined with the handler's own, so the proofs about
`DmQuota` are about the steps taken here.

A call that throws is one that had no effect. A call that took effect and whose
answer was lost is modelled where it matters most, the two sends to Meta; for
calls outside stage 2's `try` block it is the same as a crash right after the
call, which is explored. For the two database calls inside that block (opening
the capture, marking the ledger), and for the release, it is left out.

`EventClaim` is the abstract promise of the ledger's unique key and the job ids:
each event is decided once, to one rule or none, and at most one execution job
is created for it, for that rule, after the decision. The refinement mapping in
`DmPipeline` (`Claim`) reads `decided` off the ledger, `owner` off the row's
rule, and `jobs` off the history of added execution jobs.

Abstractions. The 24-hour window of the per-contact cap never ends within a behaviour.
The organisation has no visual workflow, so the two calls into the workflow engine find
nothing. Every rule has a DM text (the DTO requires it). The public comment reply,
logging, A/B variants and message texts are left out. A capture that lapses does so
once, by `CaptureLapses`. An account that was disconnected may still be written by a
sync that began before. A fault of `Crash` or `LoseLock` takes one handler; a process
that dies takes all of its own, which is as many faults at once: the proofs, for any
number of faults, cover it.

### Visual workflows

`WorkflowState` has the graphs (`Shape`: nodes with a type, edges with a handle),
the runs, their jobs, and a handler's locals. An organisation of these models has
workflows and no rules, the pipeline's has rules and no workflows: the two halves
of stage 1 are both modelled, their mixture is not.
`WorkflowDispatch` is stage 1 around `resumeWaitingWorkflow` and
`matchAndStartWorkflow`; `WorkflowEngine` is `runWorkflow`, with an action per
awaited call of each of the node types, and `sendWorkflowDm`, whose
quota calls are `DmQuota` actions. An ACTION node's configurations are node
types of their own. The row of a run and its graph are loaded once per job and
used to the end, as in the code, while `ChangeWorkflow` publishes another graph,
pauses or removes the workflow. `stopRun` is started and not awaited (`WE:243`):
the update is in `stops` until it happens or is lost with its process
(`LoseStop`). The step log is written and never read. Delays and waits end at any
moment, `WaitLapses` is a wait that outlived its 24 hours.

Left out: an account's own comments and messages (`WP:182`, `WP:360`), which are
refused before a workflow is looked for, as in the pipeline, where they are modelled;
an empty text (`WE:448`), and a hand-off in an organisation without a user
(`WE:610`), both of which end as the node's other outcomes do. Saving a contact's
field, tagging it and the like are two or three calls of which only one writes what
anything reads (`WE:546`, `WE:568`, `WE:581`), and one step here.

### Billing

One organisation, one paid plan, days as numbers. `Payments` has checkout
(`StartCheckout` to `ParkPayment`), what the customer does at Razorpay (`Pay`),
the activation that the browser's verify call and Razorpay's webhook both run
(`StartActivation` to `Commit`), cancellation, and the admin's changes of plans,
coupons and subscriptions. An order that is paid may be activated any number of
times, at any time later: Razorpay repeats its webhook. `BillingCycle` has the
three scans of `billing-cycle.cron.ts`: each lists subscriptions, then works
through the list by id, one awaited call at a time. `Billing` adds the clock and
the fault: a day passes when no handler is under way, since a request or a scan
takes no day. Invoices and redemptions belong to the activation's transaction.
A checkout is free when coupon and promo bring the price below the smallest charge
(`pricing.service.ts:323`), so a first one may be free with or without a coupon.
The browser's verify call names plan and cycle itself
(`payments.service.ts:202`); the model lets it name what the order was made for,
which is what the web client sends. `ChangePlan` is any one edit of an
admin, of tier, cycle, status and cancel flag in any mixture.

### Sessions

One user, one browser of several tabs that share the refresh cookie. A refresh
token is the number it was minted under, so a hash comparison is an equality.
`AuthService` is `auth.service.ts` and the admin's suspensions; `WebSessions` is
`api-client.ts` and `auth-store.ts` around it: one shared refresh per tab, the
answer that carries the cookie (`Arrive`), answers lost to a fault or a reload. A
tab presents access tokens until they lapse, which happens at any moment. A tab that
waits for one answer starts nothing else; in the code only refreshes are single-flight
(`api-client.ts:110`), so a sign-out could overlap a refresh of its own tab. Two tabs of the
model do just that, and share the cookie. The cookie's own age is left out
(`auth.controller.ts:81` always sets the short one on a refresh): it only makes the
browser forget the cookie earlier than the session ends.

### Accounts

Workspaces that connect, build on, remove and take over one Instagram identity.
`InstagramAccounts` has the OAuth callback as its four database calls
(`FindExisting`, `AssertCanConnect`, `ArchiveRules`, `Claim`), removal and sync as
a read and, after the call to Meta, a write by id, and the token scan: the list,
one renewal per account, one flagging update. `Workspaces` adds rules and
workflows, in the two awaits of each of their handlers, the nights and the fault.
`touched` is the age of `updatedAt`, which the scan takes for the age of the
token. A rule's texts, OAuth's exchange and webhook subscriptions keep nothing
here. The identity that a user means to reconnect (`reconnectAccountId`, lines 114-124 of
`instagram-accounts.service.ts`) may refuse a callback in the code; the model
lets it pass, and so explores more.

## 3. Runs

| Run | Instance | Shows |
|---|---|---|
| `dm_quota` | 3 attempts, 2 periods, caps 1, 2 or unlimited, none begins at a count of 2 | accounting and the cap under every interleaving, plan change and crash |
| `pipeline` | 2 handlers; a comment, a text that matches too, and a STOP; 1 fault | the refinement of `EventClaim`, charging, ledger, STOP, completion, answers counted once |
| `pipeline_live` | 1 handler; a comment, and an email for its capture; 1 fault or edit; fairness | every event is settled, every job ends |
| `lost_match` | 1 handler, 1 comment, 1 fault | violated: a matched event is dropped by its own retry |
| `reply_after_stop` | 1 handler; a comment, a STOP, a text; no fault | violated: a lead reply goes to an unsubscribed contact |
| `late_give_up` | 2 handlers; a comment, three other texts; no fault | violated: a capture goes on asking after its last answer |
| `workflow` | 2 handlers; 4 graphs that have all node types, cycles and a wait; a text and two answers, or a text and a STOP; 5 nodes a job; 1 fault or edit | events and replies count once, a message off the cycles repeats for faults only, no run is abandoned, STOP stops walks |
| `billing` | 2 handlers, 2 orders, months of 2 days, 4 days; 1 fault or edit | the books, the paid period, late webhooks, mails and notices |
| `billing_live` | 2 handlers, 1 order, months of 2 and years of 3 days, 5 days; 1 fault or edit; fairness | a paid order is settled |
| `activated_twice` | as `billing` | violated: verify and webhook settle one payment twice |
| `sessions` | 2 requests at once, 2 tabs, 2 sessions, 3 tokens, 2 wrong passwords, 1 reset link; 2 upsets | rotation, revocation, reset, lockout |
| `accounts` | 2 requests or scans at once, 2 workspaces, 1 identity, 1 automation, tokens of 3 days; 3 upsets | what a takeover leaves behind, what the scan flags |

Bounds. `MaxFaults` and `MaxEdits` bound failures and changes from outside; a
single fault already reaches every error path at every call, and the properties
that tolerate faults say how many duplicates each may cost (`1 + faults`), so
they are not weakened by the bound. Two handlers are what a race between two
awaits needs; the quota, where three attempts matter (two over the cap and one
releasing), is checked on three, and proved for any number. `MaxCount` stops
attempts from beginning once the counter is high in `dm_quota`; the pipeline
runs set it out of reach. Attempts are the code's (4 and 3), `MaxStalls` is
BullMQ's default. Handlers (and workspaces) are symmetric except in runs with liveness.

All runs but the quota's bound faults and outside changes together too (`MaxUpsets`);
with one upset each of them can come at every point of every other behaviour, and where
hazards need two in a row (a removal and an edit of what it left, a lost answer and a
suspension) the bound is two or three. Two handlers make every race of two awaits. A
month of two days holds a reminder, an end, a lapse and a renewal, so four or five days
see each follow each; a token of three days sees a night that passes it over, one that
renews it and one that flags it. Two orders are what two payments of one coupon or a
renewal need. Two sessions and three tokens are a login, a rotation, a replayed token
and another login. `MaxSteps` stands for the code's 50 and is larger than a cycle of the
largest graph, so the walk that is cut off happens.

Deadlock is checked for the quota, the pipeline and the accounts. `workflow`,
`billing` and `sessions` switch it off, because their behaviours end: events,
days, sessions and tokens are bounded there and when they are used up nothing is
left to do.

The pipeline runs have a cap of one DM. It is what makes a second attempt fail at the
quota, and hides the duplicate that a lost lock costs where the cap leaves room;
`DuplicatesTheorem` has no cap.

Histories. Some properties tolerate what the code does when two things cross,
and name the crossing: `raced` (two replies woke one run), `crowded` (two scans at
once), `overtaken` (an activation committed between a scan's list and its
update), `crossedRefresh`, `crossedLogin`, `crossedReset`, `crossed` (what was under
way on an account when it was taken over). Each is set by the run of the model,
read by no action, and false in every behaviour without that crossing; so each
property says both what holds and the only way to break it.

What the violated runs mean. They check what the code's comments say. The passing
properties next to them say what is true instead: `DoneMeansSettled` (a matched event is
handed off unless a fault intervened), `StopStays` (a STOP whose job is done
unsubscribed the contact, with the same exception), `StopIsHeeded` (a rule's DM is never
sent by an attempt begun after STOP, as long as no captured email subscribes the contact
again), `SettledPaymentsStaySettled` and `BooksBalance` (an activation that begins after
another ended changes nothing, and even two at once leave books that agree with
themselves). `AnswersCountOnce` stands next to `late_give_up`: a capture is never
charged more answers than it got, so two answers at once may lose a count but never cost
the contact an attempt it did not make. The same stale write also brings a capture back
to AWAITING that an email has COMPLETED or the clock EXPIRED since it was read
(`WP:588`).

Other disagreements between code and intent that were met while modelling, which no run
checks because reading the lines shows them:
- the 24-hour cap of a contact (`AX:174`) counts marked rows before a send that is
  marked after it: two jobs at once pass a cap of one;
- a story mention is said to skip lead capture (`WP:293`), and line 427 excludes only
  story replies, so a mention is taken as a failed answer;
- a takeover archives the old workspace's rules and not its workflows
  (`instagram-accounts.service.ts:137`), while `WE:95` finds workflows by account: they
  go on for the new owner's contacts;
- an update of a rule to ACTIVE asks no plan limit (`automation-rules.service.ts:165`);
- a `plan_expiring` notice hides the `plan_expired` one of the period
  (`billing-cycle.cron.ts:244`), though not the mail;
- an admin's grant of DMs reads the month's counter and writes a smaller one
  (`admin.service.ts:561`): what is sent in between is not counted;
- two refreshes that show one token and both compare it (`auth.service.ts:246`) before
  either rotates it (line 276) both succeed, and the later write wins, where
  `growasy-api/README.md:11` says that "a refresh token used twice revokes the session":
  the reuse is noticed only if the second comparison comes after the first write, or
  when the browser shows the overwritten token later; `ReuseMeansCrossing` says that this
  takes a crossing or a lost answer;
- two logins that overlap both add one to the count they read (`auth.service.ts:165`),
  so one wrong password goes uncounted and more than five pass, where
  `growasy-api/README.md:91` says "5 failed attempts locks the account";
  `LockedByFailures` says that such an overlap, a reset during a login and a fault are
  the only ways;
- verifying an email sets the user ACTIVE, suspended or not (`auth.service.ts:391`).

Fairness. In the pipeline `Progress(w)` is weakly fair: Node keeps resuming a handler
whose call has returned, and every call has a timeout or an answer; a call that
is not answered well is a fault, and those are bounded, not fair.
`Take` of each job is strongly fair: BullMQ serves waiting jobs in order, so
none is passed over for ever, though one handler may be busy infinitely often.
`Recover` is weakly fair: the stalled-job check is a timer of every worker.
One handler is enough here, because a handler that lost its lock goes on working
while its job waits; two handlers make the liveness check too large.
Nothing is assumed of Meta, of users, of evictions or of faults.
In billing `RequestProgress` and `ScanProgress` are weakly fair for the same reason,
and `StartActivation` of a paid order is strongly fair: Razorpay repeats a webhook
that was not answered with success, and a handler is free again and again. The
browser's verify call is not assumed.

## 4. Proofs

Each theorem below holds for every value of the constants that the named
`ASSUME` of its family allows: any number of handlers, events, rules, graphs,
workspaces, tabs, orders, any bounds on attempts, faults and edits. The
assumptions say that limits are natural numbers (attempts positive), that the
tables of the environment are functions of the right type (`Kind`, `Config`,
`Matches`, `Shape`), that the markers such as `NoRule` are not members of what they
mark the absence of, and that the sets that are counted are finite. Three say
more about the program: a token warns before it is renewed before it expires
(`WarnDays < RefreshDays < TokenDays`; 3, 10 and about 60 days in the code), cycles last at
least a day, and the trigger of a graph is a trigger node. TLC evaluates all of
them on the runs.

All have the shape of an inductive invariant, `Init => Inv` and `Inv /\ [Next]_vars
=> Inv'`, with one step per action. The type invariants that the runs check are not
inductive: a handler that resumes uses an index, an order or a row it read
some awaits before. So each family first proves a stronger one that says what a
handler has in hand at each of its awaits (`InHand`, or `Fits`), and that no row or job a
handler may name is removed, hence what it has found, it finds again. Everything
else rests on it.

### The quota: `DmQuotaProofs`

`QuotaInvariant`, and from it `CounterTheorem` (`CounterAccountsForAll`),
`NeverOversoldTheorem` and `QuotaTypeTheorem`. A step that grants a slot compares
the *counter* with the cap the attempt read, so `NeverOversold` needs two more facts:
the counter dominates granted slots plus sends, which is `CounterAccountsForAll`,
and an attempt's cap is below the ceiling of its period, `ReadUnderCeiling`.
`CounterAccountsForAll` in turn needs a release to find a positive counter, which
the equation itself gives, since the releasing attempt is one of those counted.
`AtMoves` says how a step that moves one attempt changes the number of attempts
at any stage; `CountsMove` specialises it.

`PipelineUsesQuota` and `WorkflowsUseQuota` prove `Spec => QuotaSpec` for the two
compositions: every step of every handler, crashes and retries included, is a
step of `DmQuota` or leaves its variables alone. So the counter and the cap hold
in them (`PipelineKeepsQuota`, `WorkflowsKeepQuota`) without being proved again.

### The pipeline: `DmPipelineProofs`, `EventClaimProofs`

- `PipelineTypeTheorem`. `InHand` also says which stage of the quota each await may
  hold; `OwnedJob` that a job is active exactly while somebody owns it.
- `StopIsHeededTheorem`. `StopInv`: an attempt counts as stopped only while the contact
  is unsubscribed, and one past the consent check is not.
- `EventsClaimedOnceTheorem`: `DmPipeline` implements `EventClaim`. The invariant
  `Claims` ties a handler past the ledger to its row (`Lawful`), an execution job to the
  hand-off it came from (`JobsFollow`), and says that one handler at most is between a
  match and its hand-off (`HandedByOne`): it inserted the row, and all later deliveries
  find it.
- `AnswersCountOnceTheorem`. `AnswersInv`: the answer in a handler's hands was claimed
  by its job's ledger row and is not counted yet, so the count on the capture, and every
  count that a handler has read, is at most the number of answers claimed and written
  (`Counting`, `Answered`).
- `LedgerTheorem`. `BooksKept`: what the ledger says of a DM was true when written, and
  a DM that is not yet marked is in the hands of the handler that sent it.
- `DuplicatesTheorem`. `ChancesCounted`: the DMs of an event, the handlers that may
  still send one (`Chances`) and the attempt that may yet come (`Spare`) number at most
  `1 + faults`. A handler that lost its lock goes on working while its job is taken up
  again, so both are counted, and the fault pays for one.
- `DoneMeansSettledTheorem` and `StopStaysTheorem`. `LocksHeld`: without a fault a
  handler holds the lock of its job. `Settled`: a match not handed over and a STOP not
  yet in force are in some handler's hands; and as its job is not completed while it
  holds the lock, a completed job has neither.
- `ChargedTheorem`. `ChargesCover` is the property with the finiteness of what is
  counted. The totals are cardinalities of sets of units (`Units`), so one lemma, that a
  unit more is one element more, stands for arithmetic on sums.

### Workflows: `DmWorkflowsProofs`, `FlowEventProofs`

- `WorkflowTypeTheorem`, for any graph: a walk has a run that exists and the graph it
  was loaded with, and no job or handler names a run that does not exist.
- `StopStopsFlowsTheorem`, as in the pipeline.
- `EventsTakenOnceTheorem` and `RepliesAnswerOnceTheorem`. What may still take an
  event, or answer with a reply, is a *set* of chances (a handler at some awaits,
  a free webhook job) and of carriers (a handler with the reply in hand, a
  job that brings it); their sizes and what was taken come to at most `1 + faults`
  (`TakesCounted`, `AnswersCover`). Every step is a `Trade`: it leaves the sets as they
  are, passes the event on (an element for an element), uses a chance up, or is
  a fault that may add one. `SetsCounted` turns the four into inequalities, so the
  proofs about actions never count.
- `NoRunAbandonedTheorem`. The property asks for a job that names the run. That is not
  inductive: a job that finds its run waiting and brings no text passes it by. `CareInv`
  asks more: without a fault every run that has to go on is `InHands`, of a stop under
  way, of a job that will not pass it by (`Serves`), or of a handler that has it or
  is about to add its job. For a handler to finish what it has, it must be `Calm`:
  nothing thrown, the lock of its job held; and it must walk the run its job names
  (`Linked`).
- `FlowDmsTheorem` (`FlowDmsCostFaults`): a message that no cycle leads back to is sent
  once per run and fault. `SendsInv` compares what was sent with what the run's *row* says:
  a message is still `Owed` if the row's node comes before or at it and no walk has sent
  it and not moved the row on yet (`Sent`); sent plus owed is at most `1 + faults`. That
  is false where two handlers walk a run or its graph is edited, hence the property's two
  exceptions; elsewhere a walk is `Alone` and `InPlace`, where its row is and on its
  workflow's graph. Paths are not needed: that no cycle leads back says that some set of
  nodes without the message's is closed under the edges that leave either (`Passed`), and
  a row in that set stays in it (`PassedForGood`).

### Billing: `BillingProofs`

- `BillingTypeTheorem` on `BillingTypes`. What `Fits` adds: an activation at its commit
  has a payment of its own order, a scan is at a scan's await. Also that an activation
  begun after its payment was settled is at its first look, and never beyond: this is
  `StaySettledTheorem`.
- `BooksTheorem` (`BooksBalance`), inductive on those types: a commit settles one
  payment that had no invoice, adds the invoice and the grant, and the redemption
  only if the coupon had none of that order. Two crossing commits each do all of it.
- `PaidPeriodTheorem`. `PeriodsInv`: unless a commit overtook a scan, a scan at its update
  has listed a subscription whose paid period is over, and it is over still.
- `LapsedOwnersTheorem` (`MailsInv`) and `NoticesTheorem` (`NoticesInv`: while scans do not
  cross, the one about to write a notice found none and none was written since).

### Sessions: `WebSessionsProofs`

- `SessionsTypeTheorem`; `RevokedForGoodTheorem`, from `RowsKept`: no write of any
  handler clears `revoked` or forgets with which password a session was opened, from
  which `ResetEndsTheorem` follows too.
- `ResetLinksTheorem` (`LinksInv`) and `LockedByFailuresTheorem` (`LockInv`: the count
  on the row, and the one that a login is about to write, are at most the wrong
  passwords; `CountInv`: without a fault one of the two is equal to them).
- `ReuseTheorem` (`ReuseInv`). What makes an honest browser no thief is a conjunction
  that has to be proved at once: one refresh at a time, the token in the browser is the
  row's or the answer with the row's is on its way (`CookieCurrent`), every token under
  way is current (`TokensCurrent`), and a login's new session belongs to nobody else
  until its answer is there (`LoginsApart`).

### Accounts: `WorkspacesProofs`

- `AccountsTypeTheorem`; `OwnersInvariant`, and from it `RulesFollowAccountTheorem` and
  the action property `TakeoversCrossTheorem`. Unless something crossed, a callback
  finds the row at its claim as it read it (`ClaimsMatch`), a rule is made in the
  workspace that has the account (`BuildsMatch`), and between `ArchiveRules` and `Claim`
  no rule is left and none is being made (`Swept`).
- `TokensFitTheorem` (`TokensMatch`): what a renewal holds is the owner's token too.
- `FlagsAreEarnedTheorem`. `ScansTell`: an account near its expiry that a scan no longer
  holds was refused by Meta, or had passed its date when the scan began.

### Only model-checked

- Liveness (the properties of `pipeline_live` and `billing_live`): TLAPS proves nothing of
  fairness and `ENABLED` here.
- The four properties expected to be violated.

## 5. Not modelled, and what comes next

Not modelled: seats and invitations, registration, email verification, Google
sign-in and impersonation; price arithmetic, the first plan choice
(`pendingPlanTier`), receipts; revenue attribution (one find, one create under a
unique key), tracked links; the SMTP side of mails; contacts as the API edits
them; reports, content pages, templates and React pages (no interaction to
check); HTTP and signature handling, OAuth, and SQL itself. `PROJECT.json` says
why for each component.

Next, in this order:
1. what the proofs leave open: the links between the handlers' histories and the
   rows (an activation's grant is extended over by exactly one period, a scan's flag is
   of the account it listed);
2. rules, captures and workflows of one organisation in one model;
3. pure operators against references: `billingPeriodKey` in both copies, the
   nightly fast-forward, coupon arithmetic.
