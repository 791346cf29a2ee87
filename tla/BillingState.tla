----------------------------- MODULE BillingState -----------------------------
(***************************************************************************)
(* What billing keeps of one organisation (growasy-api                     *)
(* src/modules/billing): its subscription, its checkouts with their orders *)
(* at Razorpay, its payments and invoices, one coupon, and the mails and   *)
(* notices of the nightly jobs.  The API runs as a cluster                 *)
(* (ecosystem.config.js: instances 'max'), each process with all the cron  *)
(* jobs, so any number of requests and scans cross each other.             *)
(*                                                                         *)
(* Days are numbers.  Nothing here is about prices but whether a discount  *)
(* leaves something to pay.  A year does not turn within a behaviour, so   *)
(* an invoice number is as unique as the id of its payment row.            *)
(***************************************************************************)
EXTENDS Integers, Sequences, FiniteSets

CONSTANTS
    Handler,        \* concurrent requests and cron scans
    Order, NoOrder, \* checkouts, and their orders and payments at Razorpay
    Days,           \* of each billing cycle
    ReminderDays,   \* EXPIRY_REMINDER_DAYS
    MaxRedemptions, \* caps of the coupon
    MaxPerOrg,
    LastDay,        \* bound: the day on which the clock stops
    MaxUpsets       \* bound: faults, and what users and admins change

Cycle == DOMAIN Days
LongestCycle == CHOOSE d \in {Days[c] : c \in Cycle} : \A c \in Cycle : Days[c] <= d

ASSUME BillingAssumption ==
    /\ IsFiniteSet(Handler) /\ IsFiniteSet(Order) /\ NoOrder \notin Order
    /\ Days \in [Cycle -> Nat \ {0}] /\ "monthly" \in Cycle
    /\ {ReminderDays, MaxRedemptions, MaxPerOrg, LastDay, MaxUpsets} \subseteq Nat

VARIABLES
    today,
    sub,            \* the subscription row
    planActive,     \* plan.isActive of the plan on sale
    orders,         \* checkouts, and what Razorpay knows of them
    payments,       \* payment rows, in the order they were created
    invoiced,       \* payment rows that have an invoice
    redemptions,    \* coupon_redemptions: the payments that used the coupon
    coupon,         \* the coupon row, and what its discount leaves to pay
    mails,          \* ids of the plan-lifecycle mail jobs that exist
    notices,        \* how many notices there are of a reason and period key
    handler,        \* what each handler awaits, and its locals
    \* History, read by no action of the code
    grants,         \* activations committed, by order
    boughtUntil,    \* the end of the last period that was paid for
    lapses,         \* periods that a scan ended
    crowded,        \* two scans were under way at once
    overtaken,      \* an activation committed between a scan's list and its update
    faults, edits

ledgerVars == <<payments, invoiced, redemptions, coupon>>
noticeVars == <<mails, notices>>
historyVars == <<grants, boughtUntil, lapses, crowded, overtaken>>
budgetVars == <<faults, edits>>
vars == <<today, sub, planActive, orders, ledgerVars, noticeVars, handler, historyVars, budgetVars>>

Plan == {"free", "paid"}

(* live: its status is ACTIVE or TRIALING.  currentPeriodStart is not      *)
(* kept: only DM quotas read it.                                           *)
Subscription == [plan : Plan, cycle : Cycle, end : Nat, cancel : BOOLEAN, live : BOOLEAN]

(* A checkout is begun, has an order, and is open when the browser knows   *)
(* the order.  The notes of an order carry its cycle.                      *)
Checkout == [state : {"none", "begun", "ordered", "open", "paid", "free"}, cycle : Cycle]

Payment == [order : Order, status : {"PENDING", "SUCCEEDED"}, coupon : BOOLEAN]

Reason == {"plan_expiring", "plan_expired"}

RequestStep == {"coupon", "used", "order", "row", "existing", "planRow", "pending", "commit",
                "flag", "rewrite"}
ScanStep == {"roll", "move", "mail", "findNotice", "createNotice"}

(* seen is the subscription a handler read; late is history: the payment   *)
(* was settled before this activation began.                               *)
HandlerState == [at : {"idle"} \cup RequestStep \cup ScanStep,
                 scan : {"none", "advance", "remind", "lapse"},
                 order : Order \cup {NoOrder}, coupon : BOOLEAN, row : Nat,
                 seen : Subscription, late : BOOLEAN]

NewSubscription == [plan |-> "free", cycle |-> "monthly", end |-> Days["monthly"], cancel |-> FALSE,
                    live |-> TRUE]

Free == [at |-> "idle", scan |-> "none", order |-> NoOrder, coupon |-> FALSE, row |-> 0,
         seen |-> NewSubscription, late |-> FALSE]

BillingTypeOK ==
    /\ today \in 0..LastDay
    /\ sub \in Subscription
    /\ planActive \in BOOLEAN
    /\ orders \in [Order -> Checkout]
    /\ payments \in Seq(Payment)
    /\ invoiced \subseteq DOMAIN payments
    /\ redemptions \subseteq Order
    /\ coupon \in [active : BOOLEAN, redeemed : Nat, whole : BOOLEAN]
    /\ mails \subseteq Reason \X Nat
    /\ notices \in [Reason \X (0..LastDay + LongestCycle) -> Nat]
    /\ handler \in [Handler -> HandlerState]
    /\ grants \in [Order -> Nat]
    /\ boughtUntil \in Nat
    /\ lapses \subseteq Nat
    /\ {crowded, overtaken} \subseteq BOOLEAN
    /\ faults \in 0..MaxUpsets
    /\ edits \in 0..MaxUpsets

(* startSubscription: every organisation begins on Free. *)
Init ==
    /\ today = 0
    /\ sub = NewSubscription
    /\ planActive = TRUE
    /\ orders = [o \in Order |-> [state |-> "none", cycle |-> "monthly"]]
    /\ payments = <<>> /\ invoiced = {} /\ redemptions = {}
    /\ coupon \in [active : {TRUE}, redeemed : {0}, whole : BOOLEAN]
    /\ mails = {}
    /\ notices = [k \in Reason \X (0..LastDay + LongestCycle) |-> 0]
    /\ handler = [h \in Handler |-> Free]
    /\ grants = [o \in Order |-> 0]
    /\ boughtUntil = 0 /\ lapses = {} /\ crowded = FALSE /\ overtaken = FALSE
    /\ faults = 0 /\ edits = 0

------------------------------------------------------------------------------
Awaits(h, step) == handler[h].at = step
Goto(h, step) == handler' = [handler EXCEPT ![h].at = step]
Done(h) == handler' = [handler EXCEPT ![h] = Free]
Begin(h, state) == Awaits(h, "idle") /\ handler' = [handler EXCEPT ![h] = state]

Fault == faults + edits < MaxUpsets /\ faults' = faults + 1 /\ UNCHANGED edits
Edit == faults + edits < MaxUpsets /\ edits' = edits + 1 /\ UNCHANGED faults
==============================================================================
