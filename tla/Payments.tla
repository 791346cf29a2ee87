------------------------------- MODULE Payments -------------------------------
(***************************************************************************)
(* Checkout, activation and cancellation: one action per awaited call of   *)
(* growasy-api/src/modules/billing/payments.service.ts and of the coupon   *)
(* checks in pricing.service.ts; the plan changes an admin makes            *)
(* (modules/admin/admin.service.ts).                                       *)
(***************************************************************************)
EXTENDS BillingState

Settled(o) == \E i \in DOMAIN payments : payments[i].order = o /\ payments[i].status = "SUCCEEDED"

------------------------------------------------------------------------------
(* createCheckout                                                          *)

(* A click on a plan that is on sale, with or without a coupon code; the   *)
(* plan's own promotion may leave nothing to pay, see CountUses.  The      *)
(* request starts with its first read, as the others below do.             *)
StartCheckout(h, o) ==
    /\ planActive
    /\ orders[o].state = "none"
    /\ \E cycle \in Cycle, step \in {"coupon", "order", "existing"} :
        /\ orders' = [orders EXCEPT ![o] =
             [state |-> IF step = "existing" THEN "free" ELSE "begun", cycle |-> cycle]]
        /\ Begin(h, [Free EXCEPT !.at = step, !.order = o])
    /\ UNCHANGED <<today, sub, planActive, ledgerVars, noticeVars, historyVars, budgetVars>>

(* resolveCoupon reads the row: active, and not fully redeemed ... *)
FindCoupon(h) ==
    /\ Awaits(h, "coupon")
    /\ IF coupon.active /\ coupon.redeemed < MaxRedemptions THEN Goto(h, "used") ELSE Done(h)
    /\ UNCHANGED <<today, sub, planActive, orders, ledgerVars, noticeVars, historyVars, budgetVars>>

(* ... and counts what the organisation used.  A discount that leaves      *)
(* nothing to pay is activated at once, as a payment of its own.           *)
CountUses(h) ==
    /\ Awaits(h, "used")
    /\ IF MaxPerOrg > 0 /\ Cardinality(redemptions) >= MaxPerOrg
       THEN Done(h) /\ UNCHANGED orders
       ELSE /\ handler' = [handler EXCEPT ![h].coupon = TRUE,
                                          ![h].at = IF coupon.whole THEN "existing" ELSE "order"]
            /\ orders' = IF coupon.whole
                         THEN [orders EXCEPT ![handler[h].order].state = "free"] ELSE orders
    /\ UNCHANGED <<today, sub, planActive, ledgerVars, noticeVars, historyVars, budgetVars>>

CreateOrder(h) ==
    /\ Awaits(h, "order")
    /\ orders' = [orders EXCEPT ![handler[h].order].state = "ordered"]
    /\ Goto(h, "row")
    /\ UNCHANGED <<today, sub, planActive, ledgerVars, noticeVars, historyVars, budgetVars>>

(* The amount and the coupon are parked against the order id, and the      *)
(* browser gets the order.                                                 *)
ParkPayment(h) ==
    LET o == handler[h].order IN
    /\ Awaits(h, "row")
    /\ payments' = Append(payments, [order |-> o, status |-> "PENDING", coupon |-> handler[h].coupon])
    /\ orders' = [orders EXCEPT ![o].state = "open"]
    /\ Done(h)
    /\ UNCHANGED <<today, sub, planActive, invoiced, redemptions, coupon, noticeVars, historyVars,
                   budgetVars>>

Pay(o) ==
    /\ orders[o].state = "open"
    /\ orders' = [orders EXCEPT ![o].state = "paid"]
    /\ UNCHANGED <<today, sub, planActive, ledgerVars, noticeVars, handler, historyVars, budgetVars>>

------------------------------------------------------------------------------
(* activatePlan                                                            *)

(* The browser calls verify, and Razorpay its webhook as often as it likes. *)
StartActivation(h, o) ==
    /\ orders[o].state = "paid"
    /\ Begin(h, [Free EXCEPT !.at = "existing", !.order = o, !.late = Settled(o)])
    /\ UNCHANGED <<today, sub, planActive, orders, ledgerVars, noticeVars, historyVars, budgetVars>>

(* Mutant: only a payment that waits is looked for. *)
FindNoExisting(h) ==
    /\ Awaits(h, "existing")
    /\ Goto(h, "planRow")
    /\ UNCHANGED <<today, sub, planActive, orders, ledgerVars, noticeVars, historyVars, budgetVars>>

(* Mutant: any payment row of the order counts, settled or parked. *)
FindExistingOfOrder(h) ==
    /\ Awaits(h, "existing")
    /\ IF \E i \in DOMAIN payments : payments[i].order = handler[h].order
       THEN Done(h) ELSE Goto(h, "planRow")
    /\ UNCHANGED <<today, sub, planActive, orders, ledgerVars, noticeVars, historyVars, budgetVars>>

(* "a duplicate payment id is a no-op" *)
FindExisting(h) ==
    /\ Awaits(h, "existing")
    /\ IF Settled(handler[h].order) THEN Done(h) ELSE Goto(h, "planRow")
    /\ UNCHANGED <<today, sub, planActive, orders, ledgerVars, noticeVars, historyVars, budgetVars>>

FindPlan(h) ==
    /\ Awaits(h, "planRow")
    /\ IF planActive THEN Goto(h, "pending") ELSE Done(h)
    /\ UNCHANGED <<today, sub, planActive, orders, ledgerVars, noticeVars, historyVars, budgetVars>>

Parked(o) == {i \in DOMAIN payments : payments[i].order = o /\ payments[i].status = "PENDING"}

(* The coupon of the parked row, if there is one, is what was used. *)
FindPending(h) ==
    LET rows == Parked(handler[h].order) IN
    /\ Awaits(h, "pending")
    /\ IF rows = {} THEN Goto(h, "commit")
       ELSE \E i \in rows : handler' = [handler EXCEPT ![h].at = "commit", ![h].row = i,
                                                       ![h].coupon = payments[i].coupon]
    /\ UNCHANGED <<today, sub, planActive, orders, ledgerVars, noticeVars, historyVars, budgetVars>>

Activated(o) == [plan |-> "paid", cycle |-> orders[o].cycle,
                 end |-> today + Days[orders[o].cycle], cancel |-> FALSE, live |-> TRUE]

(* Mutant: the writes are made one by one, outside of a transaction. *)
CommitInParts(h) ==
    LET o == handler[h].order IN
    /\ Awaits(h, "commit")
    /\ sub' = Activated(o)
    /\ grants' = [grants EXCEPT ![o] = @ + 1]
    /\ boughtUntil' = Activated(o).end
    /\ IF handler[h].row \in invoiced
       THEN Done(h) /\ UNCHANGED ledgerVars
       ELSE /\ Done(h)
            /\ payments' = [payments EXCEPT ![handler[h].row].status = "SUCCEEDED"]
            /\ invoiced' = invoiced \cup {handler[h].row}
            /\ UNCHANGED <<redemptions, coupon>>
    /\ UNCHANGED <<today, planActive, orders, noticeVars, lapses, crowded, overtaken,
                   budgetVars>>

(* The transaction.  A row that has an invoice already makes the invoice's *)
(* number a duplicate, and everything is rolled back.  What the receipt's  *)
(* notification comes to changes nothing.                                  *)
Commit(h) ==
    LET o == handler[h].order
        row == IF handler[h].row = 0 THEN Len(payments) + 1 ELSE handler[h].row
        redeems == handler[h].coupon /\ o \notin redemptions IN
    /\ Awaits(h, "commit")
    /\ Done(h)
    /\ IF row \in invoiced THEN UNCHANGED <<sub, ledgerVars, grants, boughtUntil>>
       ELSE /\ sub' = Activated(o)
            /\ payments' = IF handler[h].row = 0
                           THEN Append(payments, [order |-> o, status |-> "SUCCEEDED",
                                                  coupon |-> handler[h].coupon])
                           ELSE [payments EXCEPT ![row].status = "SUCCEEDED"]
            /\ invoiced' = invoiced \cup {row}
            /\ redemptions' = IF redeems THEN redemptions \cup {o} ELSE redemptions
            /\ coupon' = IF redeems THEN [coupon EXCEPT !.redeemed = @ + 1] ELSE coupon
            /\ grants' = [grants EXCEPT ![o] = @ + 1]
            /\ boughtUntil' = Activated(o).end
    /\ overtaken' = (overtaken \/ \E other \in Handler : handler[other].at \in {"roll", "move"})
    /\ UNCHANGED <<today, planActive, orders, noticeVars, lapses, crowded, budgetVars>>

------------------------------------------------------------------------------
(* cancelSubscription, and the admin's changePlan and compPlan             *)

StartCancel(h) ==
    /\ Edit
    /\ sub.plan # "free"
    /\ Begin(h, [Free EXCEPT !.at = "flag"])
    /\ UNCHANGED <<today, sub, planActive, orders, ledgerVars, noticeVars, historyVars>>

FlagCancel(h) ==
    /\ Awaits(h, "flag")
    /\ sub' = [sub EXCEPT !.cancel = TRUE]
    /\ Done(h)
    /\ UNCHANGED <<today, planActive, orders, ledgerVars, noticeVars, historyVars, budgetVars>>

StartAdminChange(h) ==
    /\ Edit
    /\ Begin(h, [Free EXCEPT !.at = "rewrite", !.seen = sub])
    /\ UNCHANGED <<today, sub, planActive, orders, ledgerVars, noticeVars, historyVars>>

AdminWrites(h, row) ==
    /\ Awaits(h, "rewrite")
    /\ sub' = row
    /\ boughtUntil' = 0
    /\ Done(h)
    /\ UNCHANGED <<today, planActive, orders, ledgerVars, noticeVars, grants, lapses, crowded,
                   overtaken, budgetVars>>

(* A new tier begins a period now, in a cycle of the admin's choice or in  *)
(* the one that was read; an edit without a tier writes back the plan that *)
(* was read.  Either may set the cycle, the status and the cancel flag.    *)
ChangePlan(h) ==
    LET seen == handler[h].seen IN
    \E plan \in Plan, cycle \in Cycle, cancel, live \in BOOLEAN :
        LET row == [sub EXCEPT !.plan = plan, !.cancel = cancel, !.live = live] IN
        \/ AdminWrites(h, [row EXCEPT !.end = today + Days[seen.cycle]])
        \/ AdminWrites(h, [row EXCEPT !.cycle = cycle, !.end = today + Days[cycle]])
        \/ AdminWrites(h, [row EXCEPT !.plan = seen.plan, !.cycle = cycle])

(* A comped tier ends by itself, here after one day. *)
CompPlan(h) ==
    AdminWrites(h, [sub EXCEPT !.plan = "paid", !.end = today + 1, !.cancel = TRUE, !.live = TRUE])

(* Admins take plans and coupons off sale, and put them back. *)
UpdatePlan ==
    /\ Edit
    /\ planActive' = ~ planActive
    /\ UNCHANGED <<today, sub, orders, ledgerVars, noticeVars, handler, historyVars>>

UpdateCoupon ==
    /\ Edit
    /\ coupon' = [coupon EXCEPT !.active = ~ @]
    /\ UNCHANGED <<today, sub, planActive, orders, payments, invoiced, redemptions, noticeVars,
                   handler, historyVars>>

RequestProgress(h) ==
    \/ FindCoupon(h) \/ CountUses(h) \/ CreateOrder(h) \/ ParkPayment(h)
    \/ FindExisting(h) \/ FindPlan(h) \/ FindPending(h) \/ Commit(h)
    \/ FlagCancel(h) \/ ChangePlan(h) \/ CompPlan(h)
==============================================================================
