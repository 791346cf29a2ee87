------------------------------- MODULE Billing -------------------------------
(***************************************************************************)
(* Checkouts, activations and nightly scans of the API's processes, side   *)
(* by side, and the days that pass.                                        *)
(***************************************************************************)
EXTENDS Payments, BillingCycle

(* Requests and scans take seconds: a day passes between them. *)
Tick ==
    /\ today < LastDay
    /\ \A h \in Handler : Awaits(h, "idle")
    /\ today' = today + 1
    /\ UNCHANGED <<sub, planActive, orders, ledgerVars, noticeVars, handler, historyVars, budgetVars>>

(* The awaited call throws, or the process stops: a request answers 500, a *)
(* scan goes on with the next organisation.                                *)
Fail(h) ==
    /\ ~ Awaits(h, "idle")
    /\ Fault
    /\ Done(h)
    /\ UNCHANGED <<today, sub, planActive, orders, ledgerVars, noticeVars, historyVars>>

Next ==
    \/ \E h \in Handler :
        \/ \E o \in Order : StartCheckout(h, o) \/ StartActivation(h, o)
        \/ \E kind \in Scan : StartScan(h, kind)
        \/ RequestProgress(h) \/ ScanProgress(h) \/ Fail(h)
        \/ StartCancel(h) \/ StartAdminChange(h)
    \/ \E o \in Order : Pay(o)
    \/ UpdatePlan \/ UpdateCoupon
    \/ Tick

Spec == Init /\ [][Next]_vars

(* Requests and scans go on while their process does, and Razorpay repeats *)
(* order.paid until it is answered.                                        *)
FairSpec ==
    /\ Spec
    /\ \A h \in Handler : WF_vars(RequestProgress(h)) /\ WF_vars(ScanProgress(h))
    /\ \A o \in Order : SF_vars(\E h \in Handler : StartActivation(h, o))

------------------------------------------------------------------------------
(* Properties                                                              *)

Succeeded == {i \in DOMAIN payments : payments[i].status = "SUCCEEDED"}

(* The books agree whatever verify calls, webhooks and faults cross each   *)
(* other: an order was activated as often as it has settled payments, each *)
(* of them with its invoice, and the coupon counts exactly the payments    *)
(* that used it (activatePlan's transaction, and its skipDuplicates).      *)
BooksBalance ==
    /\ \A o \in Order : grants[o] = Cardinality({i \in Succeeded : payments[i].order = o})
    /\ invoiced = Succeeded
    /\ coupon.redeemed = Cardinality(redemptions)
    /\ \A o \in redemptions : Settled(o)

(* payments.service.ts: "a duplicate payment id is a no-op".  An           *)
(* activation that begins when its payment is settled already changes      *)
(* nothing, so a redelivered webhook never renews a plan that ended or was *)
(* cancelled since.                                                        *)
SettledPaymentsStaySettled == \A h \in Handler : Awaits(h, "commit") => ~ handler[h].late

(* Of every period that a scan ended the owner is sent the plan_expired    *)
(* mail, reminder or not, but for a fault between the move and the mail.   *)
LapsedOwnersAreMailed ==
    \A end \in lapses :
        \/ <<"plan_expired", end>> \in mails
        \/ \E h \in Handler : Awaits(h, "mail") /\ handler[h].seen.end = end
        \/ faults > 0

(* billing-cycle.cron.ts: a notice is skipped "when one already exists for *)
(* this period".  Days of scans write one, unless two scans ran at once.   *)
NoticesOnce == \A end \in 0..(LastDay + LongestCycle) :
    notices[<<"plan_expiring", end>>] + notices[<<"plan_expired", end>>] <= 1 \/ crowded

(* An order that is paid for is settled in the end, by the browser or by   *)
(* Razorpay, unless its plan went off sale.                                *)
PaidOrdersSettle == \A o \in Order : orders[o].state = "paid" ~> (Settled(o) \/ ~ planActive)

(* payments.service.ts: "the customer keeps access until then".  What was  *)
(* paid for is not taken back before its end, whatever is cancelled,       *)
(* reminded and rolled, but by a scan whose list an activation overtook:   *)
(* its update still goes to the row, and ends the new period.              *)
PaidPeriodKept == today < boughtUntil => (sub.plan = "paid" /\ boughtUntil <= sub.end) \/ overtaken

(* payments.service.ts: "Idempotently activates a plan [...] Safe to call  *)
(* from both verify and the webhook".  Two calls that are under way at     *)
(* once can each settle the payment.                                       *)
ActivatedOnce == \A o \in Order : grants[o] <= 1
==============================================================================
