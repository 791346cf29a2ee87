----------------------------- MODULE BillingProofs -----------------------------
(***************************************************************************)
(* Proofs about Billing, for any number of concurrent requests and scans,  *)
(* any checkouts, billing cycles and bounds.                               *)
(***************************************************************************)
EXTENDS Billing, FiniteSetTheorems, SequenceTheorems, TLAPS

(* What a handler in state s has in hand at each of its awaits, and what   *)
(* an activation of a payment that was settled before is still allowed.    *)
Fits(s) ==
    /\ s.at \in RequestStep \ {"flag", "rewrite"} => s.order \in Order
    /\ s.scan # "none" <=> s.at \in ScanStep
    /\ s.at = "move" => s.scan = "lapse"
    /\ s.at # "commit" => s.row = 0
    /\ s.at = "commit" /\ s.row # 0 => s.row \in DOMAIN payments /\ payments[s.row].order = s.order
    /\ s.late => s.at = "existing" /\ Settled(s.order)

HandlersFit ==
    /\ handler \in [Handler -> HandlerState]
    /\ \A h \in Handler : Fits(handler[h])

TablesTyped ==
    /\ today \in 0..LastDay
    /\ sub \in Subscription
    /\ planActive \in BOOLEAN
    /\ orders \in [Order -> Checkout]
    /\ payments \in Seq(Payment)
    /\ invoiced \subseteq DOMAIN payments
    /\ redemptions \subseteq Order
    /\ coupon \in [active : BOOLEAN, redeemed : Nat, whole : BOOLEAN]
    /\ mails \subseteq Reason \X Nat
    /\ notices \in [Reason \X (0..LastDay + LongestCycle) -> Nat]
    /\ grants \in [Order -> Nat]
    /\ boughtUntil \in Nat
    /\ lapses \subseteq Nat
    /\ {crowded, overtaken} \subseteq BOOLEAN
    /\ faults \in 0..MaxUpsets
    /\ edits \in 0..MaxUpsets

BillingTypes == TablesTyped /\ HandlersFit

LEMMA TypesEnough == BillingTypes => BillingTypeOK
BY DEF BillingTypes, TablesTyped, HandlersFit, BillingTypeOK

------------------------------------------------------------------------------
LEMMA CyclesTyped ==
    /\ \A c \in Cycle : Days[c] \in Nat /\ Days[c] > 0
    /\ "monthly" \in Cycle
BY BillingAssumption DEF Cycle

LEMMA FreeFits == Free \in HandlerState /\ Fits(Free) /\ Fits(Free)'
<1>1. NewSubscription \in Subscription
  BY CyclesTyped DEF NewSubscription, Subscription, Plan
<1>2. QED
  BY <1>1 DEF Free, Fits, HandlerState, RequestStep, ScanStep

(* A payment row keeps its order, and once it is settled its status. *)
RowsKept ==
    \A i \in DOMAIN payments :
        /\ i \in DOMAIN payments'
        /\ payments'[i].order = payments[i].order
        /\ payments[i].status = "SUCCEEDED" => payments'[i].status = "SUCCEEDED"

LEMMA StaysFit ==
    ASSUME RowsKept, NEW s \in HandlerState, Fits(s)
    PROVE  Fits(s)'
<1>1. Settled(s.order) => Settled(s.order)'
  BY DEF RowsKept, Settled
<1>2. s.at = "commit" /\ s.row # 0 => s.row \in DOMAIN payments' /\ payments'[s.row].order = s.order
  BY DEF Fits, RowsKept
<1>3. QED
  BY <1>1, <1>2 DEF Fits

LEMMA HandlerMoves ==
    ASSUME HandlersFit, RowsKept, NEW h \in Handler, NEW r \in HandlerState, Fits(r)',
           handler' = [handler EXCEPT ![h] = r]
    PROVE  HandlersFit'
<1>1. handler' \in [Handler -> HandlerState]
  BY DEF HandlersFit
<1>2. \A x \in Handler : handler'[x] = IF x = h THEN r ELSE handler[x]
  BY DEF HandlersFit
<1>3. \A x \in Handler : Fits(handler[x])'
  <2>1. SUFFICES ASSUME NEW x \in Handler PROVE Fits(handler[x])'
    OBVIOUS
  <2>2. PICK s \in HandlerState : s = handler'[x]
    BY <1>1
  <2>3. Fits(s)'
    BY <1>2, <2>2, StaysFit DEF HandlersFit
  <2>4. QED
    BY <2>2, <2>3
<1>4. QED
  BY <1>1, <1>3 DEF HandlersFit

LEMMA HandlerEnds ==
    ASSUME HandlersFit, RowsKept, NEW h \in Handler, Done(h)
    PROVE  HandlersFit'
BY HandlerMoves, FreeFits DEF Done

(* The steps of a handler that need nothing new in hand. *)
LEMMA HandlerGoes ==
    ASSUME HandlersFit, RowsKept, NEW h \in Handler, NEW step,
           \/ handler[h].at = "coupon" /\ step = "used"
           \/ handler[h].at = "order" /\ step = "row"
           \/ handler[h].at = "existing" /\ step = "planRow" /\ ~ handler[h].late
           \/ handler[h].at = "planRow" /\ step = "pending"
           \/ handler[h].at = "pending" /\ step = "commit"
           \/ handler[h].at = "move" /\ step = "mail"
           \/ handler[h].at = "mail" /\ step = "findNotice"
           \/ handler[h].at = "findNotice" /\ step = "createNotice",
           Goto(h, step)
    PROVE  HandlersFit'
<1> USE DEF RequestStep, ScanStep
<1>1. handler[h] \in HandlerState /\ Fits(handler[h])
  BY DEF HandlersFit
<1>2. [handler[h] EXCEPT !.at = step] \in HandlerState
  BY <1>1 DEF HandlerState
<1>3. PICK r \in HandlerState : r = [handler[h] EXCEPT !.at = step]
  BY <1>2
<1>4. /\ r.at = step /\ r.scan = handler[h].scan /\ r.order = handler[h].order
      /\ r.row = handler[h].row /\ r.late = handler[h].late
  BY <1>1, <1>3 DEF HandlerState
<1>5. Fits(r)'
  BY <1>1, <1>4 DEF Fits
<1>6. handler' = [handler EXCEPT ![h] = r]
  BY <1>3 DEF Goto
<1>7. QED
  BY <1>5, <1>6, HandlerMoves

------------------------------------------------------------------------------
LEMMA CountedOn ==
    ASSUME NEW S, NEW f \in [S -> Nat], NEW x
    PROVE  [f EXCEPT ![x] = @ + 1] \in [S -> Nat]
<1>1. CASE x \in S
  <2>1. PICK n \in Nat : n = f[x] + 1
    BY <1>1
  <2>2. [f EXCEPT ![x] = n] \in [S -> Nat]
    OBVIOUS
  <2>3. QED
    BY <1>1, <2>1, <2>2
<1>2. CASE x \notin S
  BY <1>2
<1>3. QED
  BY <1>1, <1>2

LEMMA Budgets ==
    ASSUME TablesTyped, Edit \/ Fault
    PROVE  faults' \in 0..MaxUpsets /\ edits' \in 0..MaxUpsets
BY BillingAssumption DEF TablesTyped, Edit, Fault

LEMMA PaymentRows ==
    ASSUME TablesTyped
    PROVE  /\ payments \in [1..Len(payments) -> Payment] /\ Len(payments) \in Nat
           /\ DOMAIN payments = 1..Len(payments)
           /\ \A f : f \in [1..Len(payments) -> Payment] => f \in Seq(Payment)
<1>1. payments \in [1..Len(payments) -> Payment] /\ Len(payments) \in Nat
  BY LenProperties DEF TablesTyped
<1>2. QED
  BY <1>1, SeqDef

(* A payment row that is added. *)
LEMMA RowAdded ==
    ASSUME TablesTyped, NEW row \in Payment, payments' = Append(payments, row)
    PROVE  /\ payments' \in Seq(Payment) /\ DOMAIN payments' = 1..(Len(payments) + 1)
           /\ payments'[Len(payments) + 1] = row
           /\ \A i \in DOMAIN payments : i \in DOMAIN payments' /\ payments'[i] = payments[i]
           /\ RowsKept
<1>1. /\ payments' \in Seq(Payment) /\ DOMAIN payments' = 1..(Len(payments) + 1)
      /\ payments'[Len(payments) + 1] = row
      /\ \A i \in 1..Len(payments) : payments'[i] = payments[i]
  BY LenProperties DEF TablesTyped
<1>2. DOMAIN payments = 1..Len(payments) /\ Len(payments) \in Nat
  BY PaymentRows
<1>3. \A i \in DOMAIN payments : i \in DOMAIN payments' /\ payments'[i] = payments[i]
  BY <1>1, <1>2
<1>4. QED
  BY <1>1, <1>3 DEF RowsKept

(* A payment row that is settled. *)
LEMMA RowSettled ==
    ASSUME TablesTyped, NEW i \in DOMAIN payments,
           payments' = [payments EXCEPT ![i].status = "SUCCEEDED"]
    PROVE  /\ payments' \in Seq(Payment) /\ DOMAIN payments' = DOMAIN payments
           /\ payments'[i].order = payments[i].order /\ payments'[i].status = "SUCCEEDED"
           /\ \A j \in DOMAIN payments \ {i} : payments'[j] = payments[j]
           /\ RowsKept
<1>1. payments \in [1..Len(payments) -> Payment] /\ i \in 1..Len(payments)
  BY PaymentRows
<1>2. [payments[i] EXCEPT !.status = "SUCCEEDED"] \in Payment
  BY <1>1 DEF Payment
<1>3. PICK row \in Payment : row = [payments[i] EXCEPT !.status = "SUCCEEDED"]
  BY <1>2
<1>4. row.order = payments[i].order /\ row.status = "SUCCEEDED"
  BY <1>1, <1>3 DEF Payment
<1>5. payments' = [payments EXCEPT ![i] = row]
  BY <1>1, <1>3
<1>6. payments' \in [1..Len(payments) -> Payment]
  BY <1>1, <1>5
<1>7. /\ DOMAIN payments' = DOMAIN payments /\ payments'[i] = row
      /\ \A j \in DOMAIN payments \ {i} : payments'[j] = payments[j]
  BY <1>1, <1>5
<1>8. QED
  BY <1>4, <1>6, <1>7, PaymentRows DEF RowsKept

(* What a commit does to the payments. *)
LEMMA CommitRow ==
    ASSUME BillingTypes, NEW h \in Handler, Commit(h)
    PROVE  /\ payments' \in Seq(Payment) /\ RowsKept
           /\ \/ UNCHANGED <<sub, payments, invoiced, redemptions, coupon, grants, boughtUntil>>
              \/ \E row :
                   /\ row \notin invoiced /\ invoiced' = invoiced \cup {row}
                   /\ DOMAIN payments' = DOMAIN payments \cup {row}
                   /\ payments'[row].order = handler[h].order /\ payments'[row].status = "SUCCEEDED"
                   /\ \A i \in DOMAIN payments \ {row} : payments'[i] = payments[i]
                   /\ grants' = [grants EXCEPT ![handler[h].order] = @ + 1]
                   /\ sub' = Activated(handler[h].order) /\ boughtUntil' = Activated(handler[h].order).end
<1>0. /\ TablesTyped /\ handler[h] \in HandlerState /\ handler[h].at = "commit" /\ handler[h].order \in Order
      /\ handler[h].row # 0 => handler[h].row \in DOMAIN payments /\ payments[handler[h].row].order = handler[h].order
  BY DEF BillingTypes, HandlersFit, Fits, RequestStep, Commit, Awaits
<1>1. CASE UNCHANGED <<sub, payments, invoiced, redemptions, coupon, grants, boughtUntil>>
  BY <1>0, <1>1 DEF RowsKept, TablesTyped
<1>2. CASE ~ UNCHANGED <<sub, payments, invoiced, redemptions, coupon, grants, boughtUntil>>
  <2>1. PICK row : row = IF handler[h].row = 0 THEN Len(payments) + 1 ELSE handler[h].row
    OBVIOUS
  <2>2. /\ row \notin invoiced /\ invoiced' = invoiced \cup {row}
        /\ grants' = [grants EXCEPT ![handler[h].order] = @ + 1]
        /\ sub' = Activated(handler[h].order) /\ boughtUntil' = Activated(handler[h].order).end
        /\ payments' = IF handler[h].row = 0
                       THEN Append(payments, [order |-> handler[h].order, status |-> "SUCCEEDED",
                                              coupon |-> handler[h].coupon])
                       ELSE [payments EXCEPT ![row].status = "SUCCEEDED"]
    BY <1>2, <2>1 DEF Commit, ledgerVars
  <2>3. CASE handler[h].row = 0
    <3>1. PICK new \in Payment : /\ new = [order |-> handler[h].order, status |-> "SUCCEEDED",
                                           coupon |-> handler[h].coupon]
      BY <1>0 DEF Payment, HandlerState
    <3>2. new.order = handler[h].order /\ new.status = "SUCCEEDED"
      BY <3>1
    <3>3. payments' = Append(payments, new) /\ row = Len(payments) + 1
      BY <2>1, <2>2, <2>3, <3>1
    <3>4. /\ payments' \in Seq(Payment) /\ DOMAIN payments' = 1..(Len(payments) + 1)
          /\ payments'[row] = new /\ RowsKept
          /\ \A i \in DOMAIN payments : payments'[i] = payments[i]
      BY <1>0, <3>3, RowAdded
    <3>5. DOMAIN payments' = DOMAIN payments \cup {row}
      BY <1>0, <3>3, <3>4, PaymentRows
    <3>6. QED
      BY <2>2, <3>2, <3>4, <3>5
  <2>4. CASE handler[h].row # 0
    <3>1. row \in DOMAIN payments /\ payments[row].order = handler[h].order
      BY <1>0, <2>1, <2>4
    <3>2. payments' = [payments EXCEPT ![row].status = "SUCCEEDED"]
      BY <2>2, <2>4
    <3>3. QED
      BY <1>0, <2>2, <3>1, <3>2, RowSettled
  <2>5. QED
    BY <2>3, <2>4
<1>3. QED
  BY <1>1, <1>2

------------------------------------------------------------------------------
(* No step leaves the types of the tables, nor takes a payment row back. *)
LEMMA TablesStep ==
    ASSUME BillingTypes, [Next]_vars
    PROVE  TablesTyped' /\ RowsKept
<1> USE DEF ledgerVars, noticeVars, historyVars, budgetVars
<1>0. /\ TablesTyped /\ \A h \in Handler : handler[h] \in HandlerState /\ Fits(handler[h])
  BY DEF BillingTypes, HandlersFit
<1> DEFINE Kept == TablesTyped' /\ RowsKept
<1>a. UNCHANGED payments => RowsKept
  BY DEF RowsKept
<1>b. /\ today \in Nat /\ \A c \in Cycle : today + Days[c] \in Nat
      /\ \A h \in Handler : handler[h].seen \in Subscription
  BY <1>0, CyclesTyped, BillingAssumption DEF TablesTyped, HandlerState
<1>c. sub \in Subscription /\ sub.cycle \in Cycle /\ sub.end \in Nat /\ sub.plan \in Plan
  BY <1>0 DEF TablesTyped, Subscription
<1>1. ASSUME UNCHANGED <<today, sub, planActive, orders, ledgerVars, noticeVars, historyVars>>,
             UNCHANGED budgetVars \/ Edit \/ Fault
      PROVE  Kept
  <2>1. faults' \in 0..MaxUpsets /\ edits' \in 0..MaxUpsets
    BY <1>0, <1>1, Budgets DEF TablesTyped
  <2>2. QED
    BY <1>0, <1>1, <1>a, <2>1 DEF TablesTyped
<1>2. ASSUME NEW o \in Order, NEW step \in {"begun", "ordered", "open", "paid", "free"},
             orders' = [orders EXCEPT ![o].state = step],
             UNCHANGED <<today, sub, planActive, ledgerVars, noticeVars, historyVars, budgetVars>>
      PROVE  Kept
  <2>1. orders[o] \in Checkout
    BY <1>0 DEF TablesTyped
  <2>2. [orders[o] EXCEPT !.state = step] \in Checkout
    BY <2>1 DEF Checkout
  <2>3. orders' \in [Order -> Checkout]
    BY <1>0, <1>2, <2>2 DEF TablesTyped
  <2>4. QED
    BY <1>0, <1>2, <1>a, <2>3 DEF TablesTyped
<1>3. ASSUME UNCHANGED <<today, planActive, orders, ledgerVars, noticeVars, grants, crowded, overtaken>>,
             UNCHANGED budgetVars \/ Edit \/ Fault,
             sub' \in Subscription, boughtUntil' \in Nat, lapses' \subseteq Nat
      PROVE  Kept
  <2>1. faults' \in 0..MaxUpsets /\ edits' \in 0..MaxUpsets
    BY <1>0, <1>3, Budgets DEF TablesTyped
  <2>2. QED
    BY <1>0, <1>3, <1>a, <2>1 DEF TablesTyped
<1>4. ASSUME NEW h \in Handler, NEW o \in Order, StartCheckout(h, o)
      PROVE  Kept
  <2>1. PICK cycle \in Cycle, state \in {"begun", "free"} :
          orders' = [orders EXCEPT ![o] = [state |-> state, cycle |-> cycle]]
    BY <1>4 DEF StartCheckout
  <2>2. orders' \in [Order -> Checkout]
    BY <1>0, <2>1 DEF TablesTyped, Checkout
  <2>3. QED
    BY <1>0, <1>4, <1>a, <2>2 DEF StartCheckout, TablesTyped
<1>5. ASSUME NEW h \in Handler, CountUses(h)
      PROVE  Kept
  <2>1. handler[h].order \in Order
    BY <1>0, <1>5 DEF CountUses, Awaits, Fits, RequestStep
  <2>2. \/ UNCHANGED orders
        \/ orders' = [orders EXCEPT ![handler[h].order].state = "free"]
    BY <1>0, <1>5 DEF CountUses, TablesTyped
  <2>3. QED
    BY <1>1, <1>2, <1>5, <2>1, <2>2 DEF CountUses
<1>6. ASSUME NEW h \in Handler, CreateOrder(h)
      PROVE  Kept
  <2>1. handler[h].order \in Order
    BY <1>0, <1>6 DEF CreateOrder, Awaits, Fits, RequestStep
  <2>2. QED
    BY <1>2, <1>6, <2>1 DEF CreateOrder
<1>7. ASSUME NEW h \in Handler, ParkPayment(h)
      PROVE  Kept
  <2>1. handler[h].order \in Order /\ handler[h].coupon \in BOOLEAN
    BY <1>0, <1>7 DEF ParkPayment, Awaits, Fits, RequestStep, HandlerState
  <2>2. PICK row \in Payment : row = [order |-> handler[h].order, status |-> "PENDING",
                                      coupon |-> handler[h].coupon]
    BY <2>1 DEF Payment
  <2>3. payments' = Append(payments, row)
    BY <1>7, <2>2 DEF ParkPayment
  <2>4. payments' \in Seq(Payment) /\ RowsKept /\ DOMAIN payments \subseteq DOMAIN payments'
    BY <1>0, <2>3, RowAdded
  <2>5. [orders[handler[h].order] EXCEPT !.state = "open"] \in Checkout
    BY <1>0, <2>1, ZenonT(60) DEF TablesTyped, Checkout
  <2>6. orders' \in [Order -> Checkout]
    BY <1>0, <1>7, <2>5 DEF ParkPayment, TablesTyped
  <2>7. QED
    BY <1>0, <1>7, <2>4, <2>6 DEF ParkPayment, TablesTyped
<1>8. ASSUME NEW o \in Order, Pay(o)
      PROVE  Kept
  BY <1>2, <1>8 DEF Pay
<1>9. ASSUME NEW h \in Handler, Commit(h)
      PROVE  Kept
  <2>1. handler[h].order \in Order /\ handler[h].coupon \in BOOLEAN
    BY <1>0, <1>9 DEF Commit, Awaits, Fits, RequestStep, HandlerState
  <2>2. payments' \in Seq(Payment) /\ RowsKept /\ DOMAIN payments \subseteq DOMAIN payments'
    BY <1>9, CommitRow DEF RowsKept
  <2>3. invoiced' \subseteq DOMAIN payments'
    BY <1>0, <1>9, <2>2, CommitRow DEF TablesTyped
  <2>4. Activated(handler[h].order) \in Subscription /\ Activated(handler[h].order).end \in Nat
    <3>1. orders[handler[h].order].cycle \in Cycle
      BY <1>0, <2>1 DEF TablesTyped, Checkout
    <3>2. today + Days[orders[handler[h].order].cycle] \in Nat
      BY <1>b, <3>1
    <3>3. QED
      BY <3>1, <3>2 DEF Activated, Subscription, Plan
  <2>5. sub' \in Subscription /\ boughtUntil' \in Nat
    BY <1>0, <1>9, <2>4, CommitRow DEF TablesTyped
  <2>6. grants' \in [Order -> Nat]
    <3>1. PICK o \in Order : o = handler[h].order
      BY <2>1
    <3>2. grants' = grants \/ grants' = [grants EXCEPT ![o] = @ + 1]
      BY <1>9, <3>1, CommitRow
    <3>3. QED
      BY <1>0, <3>2, CountedOn DEF TablesTyped
  <2>7. redemptions' \subseteq Order /\ coupon' \in [active : BOOLEAN, redeemed : Nat, whole : BOOLEAN]
    <3>1. coupon.redeemed + 1 \in Nat
      BY <1>0 DEF TablesTyped
    <3>2. \/ UNCHANGED <<redemptions, coupon>>
          \/ /\ redemptions' \subseteq redemptions \cup {handler[h].order}
             /\ coupon' \in {coupon, [coupon EXCEPT !.redeemed = @ + 1]}
      BY <1>9 DEF Commit
    <3>3. QED
      BY <1>0, <2>1, <3>1, <3>2 DEF TablesTyped
  <2>8. overtaken' \in BOOLEAN /\ UNCHANGED <<today, planActive, orders, noticeVars, lapses, crowded, budgetVars>>
    BY <1>9 DEF Commit
  <2>9. QED
    BY <1>0, <2>2, <2>3, <2>5, <2>6, <2>7, <2>8 DEF TablesTyped
<1>10. ASSUME NEW h \in Handler, FlagCancel(h)
       PROVE  Kept
  <2>1. sub' \in Subscription
    BY <1>0, <1>10 DEF FlagCancel, TablesTyped, Subscription
  <2>2. QED
    BY <1>0, <1>3, <1>10, <2>1 DEF FlagCancel, TablesTyped
<1>11. ASSUME NEW h \in Handler, NEW row \in Subscription, AdminWrites(h, row)
       PROVE  Kept
  BY <1>0, <1>3, <1>11 DEF AdminWrites, TablesTyped
<1>12. ASSUME NEW h \in Handler, ChangePlan(h) \/ CompPlan(h)
       PROVE  Kept
  <2>1. /\ handler[h].seen.cycle \in Cycle /\ handler[h].seen.plan \in Plan
        /\ "paid" \in Plan /\ today + 1 \in Nat
    BY <1>b DEF Subscription, Plan
  <2>2. /\ [sub EXCEPT !.plan = "paid", !.end = today + 1, !.cancel = TRUE, !.live = TRUE] \in Subscription
        /\ \A plan \in Plan, cancel \in BOOLEAN, live \in BOOLEAN :
             [sub EXCEPT !.plan = plan, !.cancel = cancel, !.live = live] \in Subscription
        /\ \A row \in Subscription, cycle \in Cycle :
             /\ [row EXCEPT !.end = today + Days[cycle]] \in Subscription
             /\ [row EXCEPT !.cycle = cycle, !.end = today + Days[cycle]] \in Subscription
        /\ \A row \in Subscription, plan \in Plan, cycle \in Cycle :
             [row EXCEPT !.plan = plan, !.cycle = cycle] \in Subscription
    BY <1>b, <1>c, <2>1 DEF Subscription
  <2>3. CASE CompPlan(h)
    BY <1>11, <2>2, <2>3 DEF CompPlan
  <2>4. CASE ChangePlan(h)
    <3>1. PICK cycle \in Cycle, row \in Subscription :
            \/ AdminWrites(h, [row EXCEPT !.end = today + Days[handler[h].seen.cycle]])
            \/ AdminWrites(h, [row EXCEPT !.cycle = cycle, !.end = today + Days[cycle]])
            \/ AdminWrites(h, [row EXCEPT !.plan = handler[h].seen.plan, !.cycle = cycle])
      BY <2>2, <2>4 DEF ChangePlan
    <3>2. QED
      BY <1>11, <2>1, <2>2, <3>1
  <2>5. QED
    BY <1>12, <2>3, <2>4
<1>13. CASE UpdatePlan \/ UpdateCoupon
  <2>1. faults' \in 0..MaxUpsets /\ edits' \in 0..MaxUpsets
    BY <1>0, <1>13, Budgets DEF UpdatePlan, UpdateCoupon
  <2>2. CASE UpdatePlan
    BY <1>0, <1>a, <2>1, <2>2 DEF UpdatePlan, TablesTyped
  <2>3. CASE UpdateCoupon
    BY <1>0, <1>a, <2>1, <2>3 DEF UpdateCoupon, TablesTyped
  <2>4. QED
    BY <1>13, <2>2, <2>3
<1>14. ASSUME NEW h \in Handler, NEW kind \in Scan, StartScan(h, kind)
       PROVE  Kept
  BY <1>0, <1>14, <1>a DEF StartScan, TablesTyped
<1>15. ASSUME NEW h \in Handler, RollPeriod(h)
       PROVE  Kept
  <2>1. handler[h].seen.cycle \in Cycle
    BY <1>b DEF Subscription
  <2>2. PICK end \in today..(today + Days[handler[h].seen.cycle] - 1) : sub' = [sub EXCEPT !.end = end]
    BY <1>15 DEF RollPeriod
  <2>3. end \in Nat
    BY <1>b, <2>1, <2>2, CyclesTyped
  <2>4. sub' \in Subscription
    BY <1>c, <2>2, <2>3 DEF Subscription
  <2>5. QED
    BY <1>0, <1>3, <1>15, <2>4 DEF RollPeriod, TablesTyped
<1>16. ASSUME NEW h \in Handler, MoveToFree(h)
       PROVE  Kept
  <2>1. today + Days["monthly"] \in Nat /\ "free" \in Plan /\ handler[h].seen.end \in Nat
    BY <1>b, CyclesTyped DEF Plan, Subscription
  <2>2. sub' \in Subscription /\ lapses' \subseteq Nat
    BY <1>0, <1>c, <1>16, <2>1 DEF MoveToFree, Subscription, TablesTyped
  <2>3. QED
    BY <1>0, <1>3, <1>16, <2>2 DEF MoveToFree, TablesTyped
<1>17. ASSUME NEW h \in Handler, QueueMail(h)
       PROVE  Kept
  <2>1. MailJob(h) \in Reason \X Nat
    BY <1>b DEF MailJob, ReasonOf, Reason, Subscription
  <2>2. QED
    BY <1>0, <1>17, <1>a, <2>1 DEF QueueMail, TablesTyped
<1>18. ASSUME NEW h \in Handler, CreateNotice(h)
       PROVE  Kept
  <2>1. notices' \in [Reason \X (0..LastDay + LongestCycle) -> Nat]
    BY <1>0, <1>18, CountedOn DEF CreateNotice, TablesTyped
  <2>2. QED
    BY <1>0, <1>18, <1>a, <2>1 DEF CreateNotice, TablesTyped
<1>19. CASE Tick
  BY <1>0, <1>19, <1>a, BillingAssumption DEF Tick, TablesTyped
<1>20. ASSUME NEW h \in Handler,
              \/ \E o \in Order : StartActivation(h, o)
              \/ FindCoupon(h) \/ FindExisting(h) \/ FindPlan(h) \/ FindPending(h) \/ FindNotice(h)
       PROVE  Kept
  BY <1>1, <1>20 DEF StartActivation, FindCoupon, FindExisting, FindPlan, FindPending, FindNotice
<1>21. ASSUME NEW h \in Handler, StartCancel(h) \/ StartAdminChange(h) \/ Fail(h)
       PROVE  Kept
  BY <1>1, <1>21 DEF StartCancel, StartAdminChange, Fail
<1>22. CASE UNCHANGED vars
  BY <1>1, <1>22 DEF vars
<1>23. ASSUME NEW h \in Handler, RequestProgress(h) \/ ScanProgress(h)
       PROVE  Kept
  BY <1>5, <1>6, <1>7, <1>9, <1>10, <1>12, <1>15, <1>16, <1>17, <1>18, <1>20, <1>23
     DEF RequestProgress, ScanProgress
<1>24. QED
  BY <1>4, <1>8, <1>13, <1>14, <1>19, <1>20, <1>21, <1>22, <1>23 DEF Next

(* No handler reaches an await without what it reads there. *)
LEMMA HandlersStep ==
    ASSUME BillingTypes, [Next]_vars
    PROVE  HandlersFit'
<1> USE DEF ledgerVars, noticeVars, historyVars, budgetVars
<1>0. /\ TablesTyped /\ HandlersFit /\ RowsKept
      /\ \A h \in Handler : handler[h] \in HandlerState /\ Fits(handler[h])
  BY TablesStep DEF BillingTypes, HandlersFit
<1>1. ASSUME UNCHANGED handler
      PROVE  HandlersFit'
  BY <1>0, <1>1, StaysFit DEF HandlersFit
<1>2. ASSUME NEW h \in Handler, Done(h)
      PROVE  HandlersFit'
  BY <1>0, <1>2, HandlerEnds
<1>3. ASSUME NEW h \in Handler, NEW o \in Order, StartCheckout(h, o)
      PROVE  HandlersFit'
  <2>1. PICK step \in {"coupon", "order", "existing"} : Begin(h, [Free EXCEPT !.at = step, !.order = o])
    BY <1>3 DEF StartCheckout
  <2>2. PICK r : r = [Free EXCEPT !.at = step, !.order = o]
    OBVIOUS
  <2>3. r \in HandlerState
    BY <2>2, FreeFits DEF HandlerState, RequestStep
  <2>4. Fits(r)'
    BY <2>2 DEF Fits, Free, RequestStep, ScanStep
  <2>5. handler' = [handler EXCEPT ![h] = r]
    BY <2>1, <2>2 DEF Begin
  <2>6. QED
    BY <1>0, <2>3, <2>4, <2>5, HandlerMoves
<1>4. ASSUME NEW h \in Handler, FindCoupon(h)
      PROVE  HandlersFit'
  <2>1. (Awaits(h, "coupon") /\ Goto(h, "used")) \/ Done(h)
    BY <1>4 DEF FindCoupon
  <2>2. QED
    BY <1>0, <1>2, <2>1, HandlerGoes DEF Awaits
<1>5. ASSUME NEW h \in Handler, CountUses(h)
      PROVE  HandlersFit'
  <2>1. CASE Done(h)
    BY <1>2, <2>1
  <2>2. CASE ~ Done(h)
    <3>1. PICK step \in {"existing", "order"} :
            handler' = [handler EXCEPT ![h].coupon = TRUE, ![h].at = step]
      BY <1>0, <1>5, <2>2 DEF CountUses, TablesTyped
    <3>2. handler[h].at = "used" /\ handler[h].order \in Order /\ ~ handler[h].late /\ handler[h].row = 0
      BY <1>0, <1>5 DEF CountUses, Awaits, Fits, RequestStep, HandlerState
    <3>3. PICK r : r = [handler[h] EXCEPT !.coupon = TRUE, !.at = step]
      OBVIOUS
    <3>4. r \in HandlerState
      BY <1>0, <3>3 DEF HandlerState, RequestStep
    <3>5. /\ r.at = step /\ r.order = handler[h].order /\ r.late = handler[h].late
          /\ r.row = handler[h].row /\ r.scan = handler[h].scan
      BY <1>0, <3>3 DEF HandlerState
    <3>6. handler[h].scan = "none"
      BY <1>0, <3>2 DEF Fits, ScanStep
    <3>7. Fits(r)'
      BY <3>2, <3>5, <3>6 DEF Fits, RequestStep, ScanStep
    <3>8. handler' = [handler EXCEPT ![h] = r]
      BY <1>0, <3>1, <3>3 DEF HandlersFit
    <3>9. QED
      BY <1>0, <3>4, <3>7, <3>8, HandlerMoves
  <2>3. QED
    BY <2>1, <2>2
<1>6. ASSUME NEW h \in Handler, CreateOrder(h)
      PROVE  HandlersFit'
  BY <1>0, <1>6, HandlerGoes DEF CreateOrder, Awaits
<1>7. ASSUME NEW h \in Handler, NEW o \in Order, StartActivation(h, o)
      PROVE  HandlersFit'
  <2>1. PICK late \in BOOLEAN : late = Settled(o)
    BY DEF Settled
  <2>2. PICK r : r = [Free EXCEPT !.at = "existing", !.order = o, !.late = late]
    OBVIOUS
  <2>3. r \in HandlerState
    BY <2>2, FreeFits DEF HandlerState, RequestStep
  <2>4. Settled(o)' = Settled(o)
    BY <1>7 DEF StartActivation, Settled
  <2>5. r.at = "existing" /\ r.order = o /\ r.late = late /\ r.row = 0 /\ r.scan = "none"
    BY <2>2 DEF Free
  <2>6. Fits(r)'
    BY <2>1, <2>4, <2>5 DEF Fits, RequestStep, ScanStep
  <2>7. handler' = [handler EXCEPT ![h] = r]
    BY <1>7, <2>1, <2>2 DEF StartActivation, Begin
  <2>8. QED
    BY <1>0, <2>3, <2>6, <2>7, HandlerMoves
<1>8. ASSUME NEW h \in Handler, FindExisting(h)
      PROVE  HandlersFit'
  <2>1. CASE Settled(handler[h].order)
    BY <1>2, <1>8, <2>1 DEF FindExisting
  <2>2. CASE ~ Settled(handler[h].order)
    <3>1. ~ handler[h].late
      BY <1>0, <2>2 DEF Fits
    <3>2. QED
      BY <1>0, <1>8, <2>2, <3>1, HandlerGoes DEF FindExisting, Awaits
  <2>3. QED
    BY <2>1, <2>2
<1>9. ASSUME NEW h \in Handler, FindPlan(h)
      PROVE  HandlersFit'
  <2>1. (Awaits(h, "planRow") /\ Goto(h, "pending")) \/ Done(h)
    BY <1>9 DEF FindPlan
  <2>2. QED
    BY <1>0, <1>2, <2>1, HandlerGoes DEF Awaits
<1>10. ASSUME NEW h \in Handler, FindPending(h)
       PROVE  HandlersFit'
  <2>1. handler[h].at = "pending"
    BY <1>10 DEF FindPending, Awaits
  <2>2. CASE Goto(h, "commit")
    BY <1>0, <2>1, <2>2, HandlerGoes
  <2>3. CASE ~ Goto(h, "commit")
    <3>1. PICK i \in Parked(handler[h].order) :
            handler' = [handler EXCEPT ![h].at = "commit", ![h].row = i, ![h].coupon = payments[i].coupon]
      BY <1>10, <2>3 DEF FindPending
    <3>2. i \in DOMAIN payments /\ payments[i].order = handler[h].order
      BY <3>1 DEF Parked
    <3>3. payments[i].coupon \in BOOLEAN /\ i \in Nat
      BY <1>0, <3>2, PaymentRows DEF Payment
    <3>4. PICK r : r = [handler[h] EXCEPT !.at = "commit", !.row = i, !.coupon = payments[i].coupon]
      OBVIOUS
    <3>5. r \in HandlerState
      BY <1>0, <3>3, <3>4 DEF HandlerState, RequestStep
    <3>6. /\ r.at = "commit" /\ r.row = i /\ r.order = handler[h].order /\ r.late = handler[h].late
          /\ r.scan = handler[h].scan
      BY <1>0, <3>4 DEF HandlerState
    <3>7. i \in DOMAIN payments' /\ payments'[i].order = r.order
      BY <1>0, <3>2, <3>6 DEF RowsKept
    <3>8. handler[h].order \in Order /\ handler[h].scan = "none" /\ ~ handler[h].late
      BY <1>0, <2>1 DEF Fits, RequestStep, ScanStep
    <3>9. Fits(r)'
      BY <3>6, <3>7, <3>8 DEF Fits, RequestStep, ScanStep
    <3>10. handler' = [handler EXCEPT ![h] = r]
      BY <1>0, <3>1, <3>4 DEF HandlersFit
    <3>11. QED
      BY <1>0, <3>5, <3>9, <3>10, HandlerMoves
  <2>4. QED
    BY <2>2, <2>3
<1>11. ASSUME NEW h \in Handler, StartCancel(h) \/ StartAdminChange(h)
       PROVE  HandlersFit'
  <2>1. PICK step \in {"flag", "rewrite"}, row \in Subscription :
          Begin(h, [Free EXCEPT !.at = step, !.seen = row])
    <3>1. CASE StartCancel(h)
      <4>1. [Free EXCEPT !.at = "flag"] = [Free EXCEPT !.at = "flag", !.seen = Free.seen]
        BY DEF Free
      <4>2. Free.seen \in Subscription
        BY FreeFits DEF HandlerState
      <4>3. QED
        BY <3>1, <4>1, <4>2 DEF StartCancel
    <3>2. CASE StartAdminChange(h)
      BY <1>0, <3>2 DEF StartAdminChange, TablesTyped
    <3>3. QED
      BY <1>11, <3>1, <3>2
  <2>2. PICK r : r = [Free EXCEPT !.at = step, !.seen = row]
    OBVIOUS
  <2>3. r \in HandlerState
    BY <2>2, FreeFits DEF HandlerState, RequestStep
  <2>4. Fits(r)'
    BY <2>2 DEF Fits, Free, RequestStep, ScanStep
  <2>5. handler' = [handler EXCEPT ![h] = r]
    BY <2>1, <2>2 DEF Begin
  <2>6. QED
    BY <1>0, <2>3, <2>4, <2>5, HandlerMoves
<1>12. ASSUME NEW h \in Handler, NEW kind \in Scan, StartScan(h, kind)
       PROVE  HandlersFit'
  <2>1. PICK r : r = [Free EXCEPT !.at = FirstStep[kind], !.scan = kind, !.seen = sub]
    OBVIOUS
  <2>2. /\ FirstStep[kind] \in {"roll", "mail", "move"}
        /\ FirstStep[kind] = "move" => kind = "lapse"
        /\ kind \in {"advance", "remind", "lapse"}
    BY DEF FirstStep, Scan
  <2>3. r \in HandlerState
    BY <1>0, <2>1, <2>2, FreeFits DEF HandlerState, ScanStep, TablesTyped
  <2>4. Fits(r)'
    BY <2>1, <2>2 DEF Fits, Free, RequestStep, ScanStep
  <2>5. handler' = [handler EXCEPT ![h] = r]
    BY <1>12, <2>1 DEF StartScan, Begin
  <2>6. QED
    BY <1>0, <2>3, <2>4, <2>5, HandlerMoves
<1>13. ASSUME NEW h \in Handler, MoveToFree(h) \/ QueueMail(h)
       PROVE  HandlersFit'
  BY <1>0, <1>13, HandlerGoes DEF MoveToFree, QueueMail, Awaits
<1>14. ASSUME NEW h \in Handler, FindNotice(h)
       PROVE  HandlersFit'
  <2>1. (Awaits(h, "findNotice") /\ Goto(h, "createNotice")) \/ Done(h)
    BY <1>14 DEF FindNotice
  <2>2. QED
    BY <1>0, <1>2, <2>1, HandlerGoes DEF Awaits
<1>15. ASSUME NEW h \in Handler, ChangePlan(h) \/ CompPlan(h)
       PROVE  HandlersFit'
  BY <1>2, <1>15 DEF ChangePlan, CompPlan, AdminWrites
<1>16. ASSUME NEW h \in Handler, RequestProgress(h) \/ ScanProgress(h)
       PROVE  HandlersFit'
  BY <1>2, <1>4, <1>5, <1>6, <1>8, <1>9, <1>10, <1>13, <1>14, <1>15, <1>16
     DEF RequestProgress, ScanProgress, ParkPayment, Commit, FlagCancel, RollPeriod, CreateNotice
<1>17. CASE UpdatePlan \/ UpdateCoupon \/ Tick \/ (\E o \in Order : Pay(o)) \/ UNCHANGED vars
  BY <1>1, <1>17 DEF UpdatePlan, UpdateCoupon, Tick, Pay, vars
<1>18. ASSUME NEW h \in Handler, Fail(h)
       PROVE  HandlersFit'
  BY <1>2, <1>18 DEF Fail
<1>19. QED
  BY <1>3, <1>7, <1>11, <1>12, <1>16, <1>17, <1>18 DEF Next

LEMMA TypeStep ==
    ASSUME BillingTypes, [Next]_vars
    PROVE  BillingTypes'
BY TablesStep, HandlersStep DEF BillingTypes

LEMMA InitTypes == Init => BillingTypes
<1> SUFFICES ASSUME Init PROVE BillingTypes
  OBVIOUS
<1>1. NewSubscription \in Subscription
  BY CyclesTyped DEF NewSubscription, Subscription, Plan
<1>2. orders \in [Order -> Checkout]
  BY CyclesTyped DEF Init, Checkout
<1>3. /\ payments \in Seq(Payment) /\ invoiced \subseteq DOMAIN payments /\ redemptions \subseteq Order
      /\ lapses \subseteq Nat /\ mails \subseteq Reason \X Nat
  BY DEF Init
<1>4. /\ today \in 0..LastDay /\ boughtUntil \in Nat
      /\ faults \in 0..MaxUpsets /\ edits \in 0..MaxUpsets
  BY BillingAssumption DEF Init
<1>5. /\ planActive \in BOOLEAN /\ {crowded, overtaken} \subseteq BOOLEAN
      /\ coupon \in [active : BOOLEAN, redeemed : Nat, whole : BOOLEAN]
      /\ grants \in [Order -> Nat]
  <2>1. coupon \in [active : BOOLEAN, redeemed : Nat, whole : BOOLEAN]
    <3>1. coupon \in [active : {TRUE}, redeemed : {0}, whole : BOOLEAN]
      BY DEF Init
    <3>2. /\ coupon = [active |-> coupon.active, redeemed |-> coupon.redeemed, whole |-> coupon.whole]
          /\ coupon.active = TRUE /\ coupon.redeemed = 0 /\ coupon.whole \in BOOLEAN
      BY <3>1
    <3>3. PICK w \in BOOLEAN : coupon = [active |-> TRUE, redeemed |-> 0, whole |-> w]
      BY <3>2
    <3>4. QED
      BY <3>3
  <2>2. grants \in [Order -> Nat]
    BY DEF Init
  <2>3. QED
    BY <2>1, <2>2 DEF Init
<1>6. notices \in [Reason \X (0..LastDay + LongestCycle) -> Nat]
  <2>1. \A S : [k \in S |-> 0] \in [S -> Nat]
    OBVIOUS
  <2>2. QED
    BY <2>1 DEF Init
<1>7. TablesTyped
  BY <1>1, <1>2, <1>3, <1>4, <1>5, <1>6 DEF TablesTyped, Init
<1>8. HandlersFit
  BY FreeFits DEF Init, HandlersFit
<1>9. QED
  BY <1>7, <1>8 DEF BillingTypes


------------------------------------------------------------------------------
(* The books                                                               *)

LEMMA LedgerSteps ==
    ASSUME BillingTypes, [Next]_vars
    PROVE  \/ \E h \in Handler : Commit(h) \/ ParkPayment(h)
           \/ /\ UNCHANGED <<payments, invoiced, redemptions, grants>>
              /\ coupon'.redeemed = coupon.redeemed
<1> USE DEF ledgerVars, noticeVars, historyVars, budgetVars
<1>1. CASE UpdateCoupon
  BY <1>1 DEF UpdateCoupon, BillingTypes, TablesTyped
<1>2. CASE UpdatePlan \/ Tick \/ (\E o \in Order : Pay(o)) \/ UNCHANGED vars
  BY <1>2 DEF UpdatePlan, Tick, Pay, vars
<1>3. ASSUME NEW h \in Handler,
             \/ \E o \in Order : StartCheckout(h, o) \/ StartActivation(h, o)
             \/ \E kind \in Scan : StartScan(h, kind)
             \/ Fail(h) \/ StartCancel(h) \/ StartAdminChange(h)
      PROVE  UNCHANGED <<payments, invoiced, redemptions, grants, coupon>>
  BY <1>3 DEF StartCheckout, StartActivation, StartScan, Fail, StartCancel, StartAdminChange
<1>4. ASSUME NEW h \in Handler, RequestProgress(h) \/ ScanProgress(h)
      PROVE  \/ Commit(h) \/ ParkPayment(h)
             \/ UNCHANGED <<payments, invoiced, redemptions, grants, coupon>>
  BY <1>4 DEF RequestProgress, ScanProgress, FindCoupon, CountUses, CreateOrder, FindExisting, FindPlan,
     FindPending, FlagCancel, ChangePlan, CompPlan, AdminWrites, RollPeriod, MoveToFree, QueueMail,
     FindNotice, CreateNotice
<1>5. QED
  BY <1>1, <1>2, <1>3, <1>4 DEF Next

SettledFor(o) == {i \in Succeeded : payments[i].order = o}

LEMMA SettledFinite ==
    ASSUME TablesTyped, NEW o
    PROVE  IsFiniteSet(SettledFor(o)) /\ Cardinality(SettledFor(o)) \in Nat
<1>1. IsFiniteSet(DOMAIN payments)
  BY PaymentRows, FS_Interval
<1>2. QED
  BY <1>1, FS_Subset, FS_CardinalityType DEF SettledFor, Succeeded

LEMMA BooksStep ==
    ASSUME BillingTypes, BooksBalance, [Next]_vars
    PROVE  BooksBalance'
<1>0. TablesTyped /\ \A h \in Handler : handler[h] \in HandlerState /\ Fits(handler[h])
  BY DEF BillingTypes, HandlersFit
<1>a. \A o \in Order : grants[o] = Cardinality(SettledFor(o))
  BY DEF BooksBalance, SettledFor
<1>b. SUFFICES /\ \A o \in Order : grants'[o] = Cardinality(SettledFor(o)')
               /\ (invoiced = Succeeded)'
               /\ (coupon.redeemed = Cardinality(redemptions))'
               /\ \A o \in redemptions' : Settled(o)'
  BY DEF BooksBalance, SettledFor
<1>1. CASE /\ UNCHANGED <<payments, invoiced, redemptions, grants>>
           /\ coupon'.redeemed = coupon.redeemed
  BY <1>1, <1>a DEF BooksBalance, SettledFor, Succeeded, Settled
<1>2. ASSUME NEW h \in Handler, ParkPayment(h)
      PROVE  BooksBalance'
  <2>1. PICK row : /\ row = [order |-> handler[h].order, status |-> "PENDING", coupon |-> handler[h].coupon]
                   /\ payments' = Append(payments, row)
    BY <1>2 DEF ParkPayment
  <2>2. row.status = "PENDING" /\ row \in Payment
    BY <1>0, <1>2, <2>1 DEF ParkPayment, Awaits, Fits, RequestStep, HandlerState, Payment
  <2>3. /\ DOMAIN payments' = 1..(Len(payments) + 1) /\ payments'[Len(payments) + 1] = row
        /\ DOMAIN payments = 1..Len(payments) /\ Len(payments) \in Nat
        /\ \A i \in DOMAIN payments : payments'[i] = payments[i]
    BY <1>0, <2>1, <2>2, RowAdded, PaymentRows
  <2>4. Succeeded' = Succeeded
    <3>1. ASSUME NEW i \in DOMAIN payments', payments'[i].status = "SUCCEEDED"
          PROVE  i \in DOMAIN payments
      <4>1. i # Len(payments) + 1
        BY <2>2, <2>3, <3>1
      <4>2. QED
        BY <2>3, <4>1
    <3>2. QED
      BY <2>3, <3>1 DEF Succeeded
  <2>5. \A o : SettledFor(o)' = SettledFor(o)
    BY <2>3, <2>4 DEF SettledFor, Succeeded
  <2>6. \A o : Settled(o) => Settled(o)'
    BY <2>3 DEF Settled
  <2>7. UNCHANGED <<invoiced, redemptions, coupon, grants>>
    BY <1>2 DEF ParkPayment, historyVars
  <2>8. QED
    BY <1>a, <2>4, <2>5, <2>6, <2>7 DEF BooksBalance, SettledFor
<1>3. ASSUME NEW h \in Handler, Commit(h)
      PROVE  BooksBalance'
  <2>1. CASE UNCHANGED <<sub, payments, invoiced, redemptions, coupon, grants, boughtUntil>>
    BY <1>a, <2>1 DEF BooksBalance, SettledFor, Succeeded, Settled
  <2>2. CASE ~ UNCHANGED <<sub, payments, invoiced, redemptions, coupon, grants, boughtUntil>>
    <3>1. PICK row :
            /\ row \notin invoiced /\ invoiced' = invoiced \cup {row}
            /\ DOMAIN payments' = DOMAIN payments \cup {row}
            /\ payments'[row].order = handler[h].order /\ payments'[row].status = "SUCCEEDED"
            /\ \A i \in DOMAIN payments \ {row} : payments'[i] = payments[i]
            /\ grants' = [grants EXCEPT ![handler[h].order] = @ + 1]
      BY <1>3, <2>2, CommitRow
    <3>2. handler[h].order \in Order /\ row \notin Succeeded
      BY <1>0, <1>3, <3>1 DEF Commit, Awaits, Fits, RequestStep, BooksBalance
    <3>3. Succeeded' = Succeeded \cup {row}
      BY <3>1, <3>2 DEF Succeeded
    <3>4. \A o : SettledFor(o)' = IF o = handler[h].order THEN SettledFor(o) \cup {row} ELSE SettledFor(o)
      BY <3>1, <3>2, <3>3 DEF SettledFor, Succeeded
    <3>5. ASSUME NEW o \in Order
          PROVE  grants'[o] = Cardinality(SettledFor(o)')
      <4>1. CASE o = handler[h].order
        <5>1. row \notin SettledFor(o)
          BY <3>2 DEF SettledFor
        <5>2. Cardinality(SettledFor(o) \cup {row}) = Cardinality(SettledFor(o)) + 1
          BY <1>0, <5>1, SettledFinite, FS_AddElement
        <5>3. grants'[o] = grants[o] + 1
          BY <1>0, <3>1, <4>1 DEF TablesTyped
        <5>4. QED
          BY <1>a, <3>4, <4>1, <5>2, <5>3
      <4>2. CASE o # handler[h].order
        BY <1>0, <1>a, <3>1, <3>4, <4>2 DEF TablesTyped
      <4>3. QED
        BY <4>1, <4>2
    <3>6. (coupon.redeemed = Cardinality(redemptions))'
      <4>1. \/ UNCHANGED <<redemptions, coupon>>
            \/ /\ handler[h].order \notin redemptions /\ redemptions' = redemptions \cup {handler[h].order}
               /\ coupon' = [coupon EXCEPT !.redeemed = @ + 1]
        BY <1>3 DEF Commit, ledgerVars
      <4>2. IsFiniteSet(redemptions)
        BY <1>0, BillingAssumption, FS_Subset DEF TablesTyped
      <4>3. CASE UNCHANGED <<redemptions, coupon>>
        BY <4>3 DEF BooksBalance
      <4>4. CASE /\ handler[h].order \notin redemptions /\ redemptions' = redemptions \cup {handler[h].order}
                 /\ coupon' = [coupon EXCEPT !.redeemed = @ + 1]
        <5>1. Cardinality(redemptions') = Cardinality(redemptions) + 1
          BY <4>2, <4>4, FS_AddElement
        <5>2. coupon'.redeemed = coupon.redeemed + 1
          BY <1>0, <4>4 DEF TablesTyped
        <5>3. QED
          BY <5>1, <5>2 DEF BooksBalance
      <4>5. QED
        BY <4>1, <4>3, <4>4
    <3>7. \A o \in redemptions' : Settled(o)'
      <4>1. redemptions' \subseteq redemptions \cup {handler[h].order}
        BY <1>3 DEF Commit, ledgerVars
      <4>2. ASSUME NEW o, o = handler[h].order PROVE Settled(o)'
        BY <3>1, <4>2 DEF Settled
      <4>3. ASSUME NEW o, Settled(o) PROVE Settled(o)'
        BY <3>1, <3>2, <4>3 DEF Settled, Succeeded
      <4>4. QED
        BY <4>1, <4>2, <4>3 DEF BooksBalance
    <3>8. (invoiced = Succeeded)'
      BY <3>1, <3>3 DEF BooksBalance
    <3>9. QED
      BY <3>5, <3>6, <3>7, <3>8 DEF BooksBalance, SettledFor
  <2>3. QED
    BY <2>1, <2>2
<1>4. QED
  BY <1>1, <1>2, <1>3, LedgerSteps DEF BooksBalance, SettledFor

------------------------------------------------------------------------------
(* The scans                                                               *)

LEMMA GoesOn ==
    ASSUME HandlersFit, NEW h \in Handler, NEW step, Goto(h, step)
    PROVE  /\ \A x \in Handler \ {h} : handler'[x] = handler[x]
           /\ handler'[h].at = step /\ handler'[h].scan = handler[h].scan /\ handler'[h].seen = handler[h].seen
BY DEF HandlersFit, HandlerState, Goto

LEMMA Ends ==
    ASSUME HandlersFit, NEW h \in Handler, Done(h)
    PROVE  /\ \A x \in Handler \ {h} : handler'[x] = handler[x]
           /\ handler'[h].at = "idle" /\ handler'[h].scan = "none"
BY DEF HandlersFit, Done, Free

LEMMA Begins ==
    ASSUME HandlersFit, NEW h \in Handler, NEW r, Begin(h, r)
    PROVE  /\ \A x \in Handler \ {h} : handler'[x] = handler[x]
           /\ handler[h].at = "idle" /\ handler'[h] = r
BY DEF HandlersFit, Begin, Awaits

(* A handler that this step leaves alone, or that serves a request. *)
Aside(x) ==
    \/ handler'[x] = handler[x]
    \/ /\ handler[x].at \in RequestStep \cup {"idle"}
       /\ handler'[x].at \in RequestStep \cup {"idle"}

(* What a step is to the scans: a step of one, or of somebody else. *)
LEMMA ScanSteps ==
    ASSUME BillingTypes, [Next]_vars
    PROVE  \/ \E h \in Handler : (\E kind \in Scan : StartScan(h, kind)) \/ ScanProgress(h) \/ Fail(h)
           \/ /\ \A x \in Handler : Aside(x)
              /\ UNCHANGED <<noticeVars, lapses, crowded, faults>>
<1> USE DEF ledgerVars, noticeVars, historyVars, budgetVars, RequestStep
<1>0. HandlersFit /\ \A h \in Handler : Fits(handler[h])
  BY DEF BillingTypes, HandlersFit
<1>1. ASSUME NEW h \in Handler, RequestProgress(h)
      PROVE  (\A x \in Handler : Aside(x)) /\ UNCHANGED <<noticeVars, lapses, crowded, faults>>
  <2>1. UNCHANGED <<noticeVars, lapses, crowded, faults>>
    BY <1>1 DEF RequestProgress, FindCoupon, CountUses, CreateOrder, ParkPayment, FindExisting, FindPlan,
       FindPending, Commit, FlagCancel, ChangePlan, CompPlan, AdminWrites
  <2>2. handler[h].at \in RequestStep
    BY <1>1 DEF RequestProgress, FindCoupon, CountUses, CreateOrder, ParkPayment, FindExisting, FindPlan,
       FindPending, Commit, FlagCancel, ChangePlan, CompPlan, AdminWrites, Awaits
  <2>3. CASE CountUses(h) \/ FindPending(h)
    <3>1. ASSUME CountUses(h)
          PROVE  Done(h) \/ \E step \in {"existing", "order"} :
                   handler' = [handler EXCEPT ![h].coupon = TRUE, ![h].at = step]
      BY <3>1 DEF CountUses
    <3>2. ASSUME FindPending(h)
          PROVE  Goto(h, "commit") \/ \E i, used :
                   handler' = [handler EXCEPT ![h].at = "commit", ![h].row = i, ![h].coupon = used]
      BY <3>2 DEF FindPending
    <3>3. \/ Done(h) \/ Goto(h, "commit")
          \/ \E step \in {"existing", "order"} : handler' = [handler EXCEPT ![h].coupon = TRUE, ![h].at = step]
          \/ \E i, used : handler' = [handler EXCEPT ![h].at = "commit", ![h].row = i, ![h].coupon = used]
      BY <2>3, <3>1, <3>2
    <3>4. ASSUME NEW step \in {"existing", "order"},
                 handler' = [handler EXCEPT ![h].coupon = TRUE, ![h].at = step]
          PROVE  handler'[h].at \in RequestStep /\ \A x \in Handler \ {h} : handler'[x] = handler[x]
      BY <1>0, <3>4 DEF HandlersFit, HandlerState
    <3>5. ASSUME NEW i, NEW used,
                 handler' = [handler EXCEPT ![h].at = "commit", ![h].row = i, ![h].coupon = used]
          PROVE  handler'[h].at \in RequestStep /\ \A x \in Handler \ {h} : handler'[x] = handler[x]
      BY <1>0, <3>5 DEF HandlersFit, HandlerState
    <3>6. handler'[h].at \in RequestStep \cup {"idle"} /\ \A x \in Handler \ {h} : handler'[x] = handler[x]
      <4>1. CASE Done(h)
        BY <1>0, <4>1, Ends
      <4>2. CASE Goto(h, "commit")
        BY <1>0, <4>2, GoesOn
      <4>3. CASE \E step \in {"existing", "order"} :
                   handler' = [handler EXCEPT ![h].coupon = TRUE, ![h].at = step]
        BY <3>4, <4>3
      <4>4. CASE \E i, used :
                   handler' = [handler EXCEPT ![h].at = "commit", ![h].row = i, ![h].coupon = used]
        BY <3>5, <4>4
      <4>5. QED
        BY <3>3, <4>1, <4>2, <4>3, <4>4
    <3>7. QED
      BY <2>1, <2>2, <3>6 DEF Aside
  <2>4. CASE ~ (CountUses(h) \/ FindPending(h))
    <3>1. Done(h) \/ \E step \in RequestStep : Goto(h, step)
      BY <1>1, <2>4 DEF RequestProgress, FindCoupon, CreateOrder, ParkPayment, FindExisting, FindPlan,
         Commit, FlagCancel, ChangePlan, CompPlan, AdminWrites
    <3>2. handler'[h].at \in RequestStep \cup {"idle"} /\ \A x \in Handler \ {h} : handler'[x] = handler[x]
      BY <1>0, <3>1, GoesOn, Ends
    <3>3. QED
      BY <2>1, <2>2, <3>2 DEF Aside
  <2>5. QED
    BY <2>3, <2>4
<1>2. ASSUME NEW h \in Handler,
             \/ \E o \in Order : StartCheckout(h, o) \/ StartActivation(h, o)
             \/ StartCancel(h) \/ StartAdminChange(h)
      PROVE  (\A x \in Handler : Aside(x)) /\ UNCHANGED <<noticeVars, lapses, crowded, faults>>
  <2>1. UNCHANGED <<noticeVars, lapses, crowded, faults>>
    BY <1>2 DEF StartCheckout, StartActivation, StartCancel, StartAdminChange, Edit
  <2>2. \E r : Begin(h, r) /\ r.at \in RequestStep
    <3>1. ASSUME NEW o \in Order, StartCheckout(h, o)
          PROVE  \E r : Begin(h, r) /\ r.at \in RequestStep
      <4>1. PICK step \in {"coupon", "order", "existing"} : Begin(h, [Free EXCEPT !.at = step, !.order = o])
        BY <3>1 DEF StartCheckout
      <4>2. [Free EXCEPT !.at = step, !.order = o].at = step
        BY DEF Free
      <4>3. QED
        BY <4>1, <4>2
    <3>2. ASSUME NEW o \in Order, StartActivation(h, o)
          PROVE  \E r : Begin(h, r) /\ r.at \in RequestStep
      <4>1. [Free EXCEPT !.at = "existing", !.order = o, !.late = Settled(o)].at = "existing"
        BY DEF Free
      <4>2. QED
        BY <3>2, <4>1 DEF StartActivation
    <3>3. ASSUME StartCancel(h)
          PROVE  \E r : Begin(h, r) /\ r.at \in RequestStep
      <4>1. [Free EXCEPT !.at = "flag"].at = "flag"
        BY DEF Free
      <4>2. QED
        BY <3>3, <4>1 DEF StartCancel
    <3>4. ASSUME StartAdminChange(h)
          PROVE  \E r : Begin(h, r) /\ r.at \in RequestStep
      <4>1. [Free EXCEPT !.at = "rewrite", !.seen = sub].at = "rewrite"
        BY DEF Free
      <4>2. QED
        BY <3>4, <4>1 DEF StartAdminChange
    <3>5. QED
      BY <1>2, <3>1, <3>2, <3>3, <3>4
  <2>3. QED
    BY <1>0, <2>1, <2>2, Begins DEF Aside
<1>3. CASE UpdatePlan \/ UpdateCoupon \/ Tick \/ (\E o \in Order : Pay(o)) \/ UNCHANGED vars
  BY <1>3 DEF UpdatePlan, UpdateCoupon, Tick, Pay, vars, Aside, Edit
<1>4. QED
  BY <1>1, <1>2, <1>3 DEF Next

LEMMA ScanFits ==
    ASSUME BillingTypes, BillingTypes', NEW x \in Handler, Aside(x)
    PROVE  \/ handler'[x] = handler[x]
           \/ /\ handler[x].scan = "none" /\ handler'[x].scan = "none"
              /\ handler[x].at \notin ScanStep /\ handler'[x].at \notin ScanStep
BY DEF Aside, BillingTypes, HandlersFit, Fits, RequestStep, ScanStep

(* Of a period that was ended the mail is queued, or its scan is about to. *)
MailsInv ==
    \A end \in lapses :
        \/ <<"plan_expired", end>> \in mails
        \/ \E h \in Handler : handler[h].at = "mail" /\ handler[h].scan = "lapse" /\ handler[h].seen.end = end
        \/ faults > 0

LEMMA MailsStep ==
    ASSUME BillingTypes, MailsInv, [Next]_vars
    PROVE  MailsInv'
<1> USE DEF noticeVars, historyVars, budgetVars
<1>0. /\ HandlersFit /\ BillingTypes' /\ TablesTyped
      /\ \A h \in Handler : Fits(handler[h])
  BY TypeStep DEF BillingTypes, HandlersFit
<1>a. ASSUME UNCHANGED <<mails, lapses, faults>>,
             \A x \in Handler : handler[x].at = "mail" => handler'[x] = handler[x]
      PROVE  MailsInv'
  <2>1. SUFFICES ASSUME NEW end \in lapses, <<"plan_expired", end>> \notin mails, ~ (faults > 0)
                 PROVE  \E h \in Handler : /\ handler'[h].at = "mail" /\ handler'[h].scan = "lapse"
                                           /\ handler'[h].seen.end = end
    BY <1>a DEF MailsInv
  <2>2. PICK h \in Handler : handler[h].at = "mail" /\ handler[h].scan = "lapse" /\ handler[h].seen.end = end
    BY <2>1 DEF MailsInv
  <2>3. QED
    BY <1>a, <2>2
<1>1. CASE (\A x \in Handler : Aside(x)) /\ UNCHANGED <<noticeVars, lapses, crowded, faults>>
  <2>1. \A x \in Handler : handler[x].at = "mail" => handler'[x] = handler[x]
    BY <1>0, <1>1, ScanFits DEF ScanStep
  <2>2. QED
    BY <1>1, <1>a, <2>1
<1>2. ASSUME NEW h \in Handler, NEW kind \in Scan, StartScan(h, kind)
      PROVE  MailsInv'
  <2>1. \A x \in Handler : handler[x].at = "mail" => handler'[x] = handler[x]
    BY <1>0, <1>2, Begins DEF StartScan
  <2>2. QED
    BY <1>2, <1>a, <2>1 DEF StartScan
<1>3. ASSUME NEW h \in Handler, RollPeriod(h) \/ FindNotice(h) \/ CreateNotice(h)
      PROVE  MailsInv'
  <2>1. handler[h].at # "mail" /\ (Done(h) \/ Goto(h, "createNotice"))
    BY <1>3 DEF RollPeriod, FindNotice, CreateNotice, Awaits
  <2>2. \A x \in Handler : handler[x].at = "mail" => handler'[x] = handler[x]
    BY <1>0, <2>1, Ends, GoesOn
  <2>3. QED
    BY <1>3, <1>a, <2>2 DEF RollPeriod, FindNotice, CreateNotice
<1>4. ASSUME NEW h \in Handler, MoveToFree(h)
      PROVE  MailsInv'
  <2>1. /\ handler[h].at = "move" /\ handler[h].scan = "lapse"
        /\ lapses' = lapses \cup {handler[h].seen.end} /\ UNCHANGED <<mails, faults>> /\ Goto(h, "mail")
    BY <1>0, <1>4 DEF MoveToFree, Awaits, Fits
  <2>2. /\ \A x \in Handler \ {h} : handler'[x] = handler[x]
        /\ handler'[h].at = "mail" /\ handler'[h].scan = "lapse" /\ handler'[h].seen = handler[h].seen
    BY <1>0, <2>1, GoesOn
  <2>3. \A x \in Handler : handler[x].at = "mail" => handler'[x] = handler[x]
    BY <2>1, <2>2
  <2>4. SUFFICES ASSUME NEW end \in lapses', <<"plan_expired", end>> \notin mails, ~ (faults > 0)
                 PROVE  \E x \in Handler : /\ handler'[x].at = "mail" /\ handler'[x].scan = "lapse"
                                           /\ handler'[x].seen.end = end
    BY <2>1 DEF MailsInv
  <2>5. CASE end = handler[h].seen.end
    BY <2>2, <2>5
  <2>6. CASE end \in lapses
    <3>1. PICK x \in Handler : handler[x].at = "mail" /\ handler[x].scan = "lapse" /\ handler[x].seen.end = end
      BY <2>4, <2>6 DEF MailsInv
    <3>2. QED
      BY <2>3, <3>1
  <2>7. QED
    BY <2>1, <2>4, <2>5, <2>6
<1>5. ASSUME NEW h \in Handler, QueueMail(h)
      PROVE  MailsInv'
  <2>1. /\ mails' = mails \cup {MailJob(h)} /\ UNCHANGED <<lapses, faults>> /\ Goto(h, "findNotice")
    BY <1>5 DEF QueueMail
  <2>2. handler[h].scan = "lapse" => MailJob(h) = <<"plan_expired", handler[h].seen.end>>
    BY DEF MailJob, ReasonOf
  <2>3. \A x \in Handler \ {h} : handler'[x] = handler[x]
    BY <1>0, <2>1, GoesOn
  <2>4. SUFFICES ASSUME NEW end \in lapses, <<"plan_expired", end>> \notin mails', ~ (faults > 0)
                 PROVE  \E x \in Handler : /\ handler'[x].at = "mail" /\ handler'[x].scan = "lapse"
                                           /\ handler'[x].seen.end = end
    BY <2>1 DEF MailsInv
  <2>5. PICK x \in Handler : handler[x].at = "mail" /\ handler[x].scan = "lapse" /\ handler[x].seen.end = end
    BY <2>1, <2>4 DEF MailsInv
  <2>6. x # h
    BY <2>1, <2>2, <2>4, <2>5
  <2>7. QED
    BY <2>3, <2>5, <2>6
<1>6. ASSUME NEW h \in Handler, Fail(h)
      PROVE  MailsInv'
  <2>1. faults \in Nat /\ faults' = faults + 1
    BY <1>0, <1>6, BillingAssumption DEF Fail, Fault, TablesTyped
  <2>2. faults' > 0
    BY <2>1
  <2>3. QED
    BY <2>2 DEF MailsInv
<1>7. QED
  BY <1>1, <1>2, <1>3, <1>4, <1>5, <1>6, ScanSteps DEF ScanProgress

(* While no two scans ran at once, the one that is about to write a notice *)
(* found none, and none was written since.                                 *)
NoticesInv ==
    ~ crowded =>
      /\ \A h, x \in Handler : handler[h].scan # "none" /\ handler[x].scan # "none" => h = x
      /\ \A end \in 0..(LastDay + LongestCycle) :
           /\ notices[<<"plan_expiring", end>>] + notices[<<"plan_expired", end>>] <= 1
           /\ \A h \in Handler : handler[h].at = "createNotice" /\ handler[h].seen.end = end =>
                /\ notices[<<"plan_expiring", end>>] = 0
                /\ notices[<<"plan_expired", end>>] = 0

LEMMA NoticesStep ==
    ASSUME BillingTypes, NoticesInv, [Next]_vars
    PROVE  NoticesInv'
<1> USE DEF noticeVars, historyVars, budgetVars
<1>0. /\ HandlersFit /\ BillingTypes' /\ TablesTyped
      /\ \A h \in Handler : Fits(handler[h])
  BY TypeStep DEF BillingTypes, HandlersFit
<1>a. ASSUME UNCHANGED <<notices, crowded>>,
             \A x \in Handler : /\ handler'[x].scan # "none" => handler[x].scan # "none"
                                /\ handler'[x].at = "createNotice" => handler'[x] = handler[x]
      PROVE  NoticesInv'
  BY <1>a DEF NoticesInv
<1>1. CASE (\A x \in Handler : Aside(x)) /\ UNCHANGED <<noticeVars, lapses, crowded, faults>>
  <2>1. \A x \in Handler : /\ handler'[x].scan # "none" => handler[x].scan # "none"
                           /\ handler'[x].at = "createNotice" => handler'[x] = handler[x]
    BY <1>0, <1>1, ScanFits DEF ScanStep
  <2>2. QED
    BY <1>1, <1>a, <2>1
<1>2. ASSUME NEW h \in Handler, NEW kind \in Scan, StartScan(h, kind)
      PROVE  NoticesInv'
  <2>1. /\ UNCHANGED notices /\ \A x \in Handler \ {h} : handler'[x] = handler[x]
        /\ crowded' = (crowded \/ ScanUnderWay)
    BY <1>0, <1>2, Begins DEF StartScan
  <2>2. handler'[h].at # "createNotice"
    <3>1. \E r : Begin(h, r) /\ r.at = FirstStep[kind]
      <4>1. [Free EXCEPT !.at = FirstStep[kind], !.scan = kind, !.seen = sub].at = FirstStep[kind]
        BY DEF Free
      <4>2. QED
        BY <1>2, <4>1 DEF StartScan
    <3>2. FirstStep[kind] # "createNotice"
      BY DEF FirstStep, Scan
    <3>3. QED
      BY <1>0, <3>1, <3>2, Begins
  <2>3. ~ crowded' => ~ crowded /\ \A x \in Handler : handler[x].scan = "none"
    BY <2>1 DEF ScanUnderWay
  <2>4. QED
    BY <2>1, <2>2, <2>3 DEF NoticesInv
<1>3. ASSUME NEW h \in Handler, RollPeriod(h) \/ MoveToFree(h) \/ QueueMail(h) \/ Fail(h)
      PROVE  NoticesInv'
  <2>1. UNCHANGED <<notices, crowded>> /\ (Done(h) \/ Goto(h, "mail") \/ Goto(h, "findNotice"))
    BY <1>3 DEF RollPeriod, MoveToFree, QueueMail, Fail
  <2>2. \A x \in Handler : /\ handler'[x].scan # "none" => handler[x].scan # "none"
                           /\ handler'[x].at = "createNotice" => handler'[x] = handler[x]
    BY <1>0, <2>1, GoesOn, Ends
  <2>3. QED
    BY <1>a, <2>1, <2>2
<1>4. ASSUME NEW h \in Handler, FindNotice(h)
      PROVE  NoticesInv'
  <2>1. CASE Done(h)
    <3>1. \A x \in Handler : /\ handler'[x].scan # "none" => handler[x].scan # "none"
                             /\ handler'[x].at = "createNotice" => handler'[x] = handler[x]
      BY <1>0, <2>1, Ends
    <3>2. QED
      BY <1>4, <1>a, <3>1 DEF FindNotice
  <2>2. CASE ~ Done(h)
    <3>1. /\ \A r \in Reason : ~ (notices[<<r, handler[h].seen.end>>] > 0)
          /\ Goto(h, "createNotice") /\ UNCHANGED <<notices, crowded>>
      BY <1>4, <2>2 DEF FindNotice
    <3>2. /\ \A x \in Handler \ {h} : handler'[x] = handler[x]
          /\ handler'[h].scan = handler[h].scan /\ handler'[h].seen = handler[h].seen
      BY <1>0, <3>1, GoesOn
    <3>3. ASSUME NEW end \in 0..(LastDay + LongestCycle), handler[h].seen.end = end
          PROVE  notices[<<"plan_expiring", end>>] = 0 /\ notices[<<"plan_expired", end>>] = 0
      <4>1. notices[<<"plan_expiring", end>>] \in Nat /\ notices[<<"plan_expired", end>>] \in Nat
        BY <1>0 DEF TablesTyped, Reason
      <4>2. QED
        BY <3>1, <3>3, <4>1 DEF Reason
    <3>4. QED
      BY <3>1, <3>2, <3>3 DEF NoticesInv
  <2>3. QED
    BY <2>1, <2>2
<1>5. ASSUME NEW h \in Handler, CreateNotice(h)
      PROVE  NoticesInv'
  <2>1. /\ handler[h].at = "createNotice" /\ Done(h) /\ UNCHANGED crowded
        /\ notices' = [notices EXCEPT ![<<ReasonOf(h), handler[h].seen.end>>] = @ + 1]
    BY <1>5 DEF CreateNotice, Awaits
  <2>2. /\ \A x \in Handler \ {h} : handler'[x] = handler[x]
        /\ handler'[h].at = "idle" /\ handler'[h].scan = "none"
    BY <1>0, <2>1, Ends
  <2>3. handler[h].scan # "none"
    BY <1>0, <2>1 DEF Fits, ScanStep
  <2>4. ASSUME ~ crowded, NEW x \in Handler
        PROVE  handler'[x].at # "createNotice" /\ handler'[x].scan = "none"
    <3>1. x # h => handler[x].scan = "none"
      BY <2>3, <2>4 DEF NoticesInv
    <3>2. x # h => handler[x].at # "createNotice"
      BY <1>0, <3>1 DEF Fits, ScanStep
    <3>3. QED
      BY <2>2, <3>1, <3>2
  <2>5. ASSUME ~ crowded, NEW end \in 0..(LastDay + LongestCycle)
        PROVE  notices'[<<"plan_expiring", end>>] + notices'[<<"plan_expired", end>>] <= 1
    <3>1. PICK reason \in Reason : reason = ReasonOf(h)
      BY DEF ReasonOf, Reason
    <3>2. \A r \in Reason : /\ <<r, end>> \in Reason \X (0..LastDay + LongestCycle)
                            /\ notices[<<r, end>>] \in Nat
      BY <1>0 DEF TablesTyped
    <3>3. \A r \in Reason : notices'[<<r, end>>] =
            IF r = reason /\ end = handler[h].seen.end THEN notices[<<r, end>>] + 1 ELSE notices[<<r, end>>]
      BY <1>0, <2>1, <3>1, <3>2 DEF TablesTyped
    <3>4. CASE end = handler[h].seen.end
      <4>1. notices[<<"plan_expiring", end>>] = 0 /\ notices[<<"plan_expired", end>>] = 0
        BY <2>1, <2>5, <3>4 DEF NoticesInv
      <4>2. QED
        BY <3>1, <3>3, <3>4, <4>1 DEF Reason
    <3>5. CASE end # handler[h].seen.end
      BY <2>5, <3>3, <3>5 DEF NoticesInv, Reason
    <3>6. QED
      BY <3>4, <3>5
  <2>6. QED
    BY <2>1, <2>4, <2>5 DEF NoticesInv
<1>6. QED
  BY <1>1, <1>2, <1>3, <1>4, <1>5, ScanSteps DEF ScanProgress

------------------------------------------------------------------------------
(* Paid periods                                                            *)

(* A scan that has listed the subscription for its update found that what  *)
(* was paid for is over; and so it still is, unless an activation came in  *)
(* between.                                                                *)
PeriodsInv ==
    ~ overtaken =>
      /\ today < boughtUntil => sub.plan = "paid" /\ boughtUntil <= sub.end
      /\ \A h \in Handler : handler[h].at \in {"roll", "move"} => boughtUntil <= today

(* What a step does to the periods. *)
LEMMA PeriodSteps ==
    ASSUME BillingTypes, [Next]_vars
    PROVE  \/ \E h \in Handler : Commit(h) \/ RollPeriod(h) \/ MoveToFree(h) \/ ChangePlan(h) \/ CompPlan(h)
           \/ Tick
           \/ /\ UNCHANGED <<today, boughtUntil, overtaken>>
              /\ sub'.plan = sub.plan /\ sub'.end = sub.end
<1> USE DEF ledgerVars, noticeVars, historyVars, budgetVars
<1>1. ASSUME NEW h \in Handler, FlagCancel(h)
      PROVE  UNCHANGED <<today, boughtUntil, overtaken>> /\ sub'.plan = sub.plan /\ sub'.end = sub.end
  BY <1>1 DEF FlagCancel, BillingTypes, TablesTyped, Subscription
<1>2. ASSUME NEW h \in Handler,
             \/ \E o \in Order : StartCheckout(h, o) \/ StartActivation(h, o)
             \/ \E kind \in Scan : StartScan(h, kind)
             \/ Fail(h) \/ StartCancel(h) \/ StartAdminChange(h)
      PROVE  UNCHANGED <<today, boughtUntil, overtaken, sub>>
  BY <1>2 DEF StartCheckout, StartActivation, StartScan, Fail, StartCancel, StartAdminChange
<1>3. ASSUME NEW h \in Handler, RequestProgress(h) \/ ScanProgress(h)
      PROVE  \/ Commit(h) \/ RollPeriod(h) \/ MoveToFree(h) \/ ChangePlan(h) \/ CompPlan(h) \/ FlagCancel(h)
             \/ UNCHANGED <<today, boughtUntil, overtaken, sub>>
  BY <1>3 DEF RequestProgress, ScanProgress, FindCoupon, CountUses, CreateOrder, ParkPayment, FindExisting,
     FindPlan, FindPending, QueueMail, FindNotice, CreateNotice
<1>4. CASE UpdatePlan \/ UpdateCoupon \/ (\E o \in Order : Pay(o)) \/ UNCHANGED vars
  BY <1>4 DEF UpdatePlan, UpdateCoupon, Pay, vars
<1>5. QED
  BY <1>1, <1>2, <1>3, <1>4 DEF Next

(* Who is about to update the row of a scan. *)
LEMMA UpdateSteps ==
    ASSUME BillingTypes, [Next]_vars
    PROVE  \/ \E h \in Handler, kind \in Scan : StartScan(h, kind)
           \/ \A x \in Handler : handler'[x].at \in {"roll", "move"} => handler'[x] = handler[x]
<1>0. HandlersFit /\ BillingTypes'
  BY TypeStep DEF BillingTypes
<1>1. CASE \A x \in Handler : Aside(x)
  BY <1>0, <1>1, ScanFits DEF ScanStep
<1>2. ASSUME NEW h \in Handler, ScanProgress(h) \/ Fail(h)
      PROVE  \A x \in Handler : handler'[x].at \in {"roll", "move"} => handler'[x] = handler[x]
  <2>1. Done(h) \/ \E step \in {"mail", "findNotice", "createNotice"} : Goto(h, step)
    BY <1>2 DEF ScanProgress, RollPeriod, MoveToFree, QueueMail, FindNotice, CreateNotice, Fail
  <2>2. QED
    BY <1>0, <2>1, GoesOn, Ends
<1>3. QED
  BY <1>1, <1>2, ScanSteps

LEMMA PeriodsStep ==
    ASSUME BillingTypes, PeriodsInv, [Next]_vars
    PROVE  PeriodsInv'
<1> USE DEF ledgerVars, noticeVars, historyVars, budgetVars
<1>0. /\ HandlersFit /\ BillingTypes'
      /\ today \in Nat /\ boughtUntil \in Nat /\ boughtUntil' \in Nat
      /\ sub.end \in Nat /\ sub'.end \in Nat
  <2>1. HandlersFit /\ BillingTypes' /\ TablesTyped /\ TablesTyped'
    BY TypeStep DEF BillingTypes
  <2>2. today \in 0..LastDay /\ boughtUntil \in Nat /\ boughtUntil' \in Nat
    BY <2>1 DEF TablesTyped
  <2>3. sub.end \in Nat /\ sub'.end \in Nat
    BY <2>1 DEF TablesTyped, Subscription
  <2>4. QED
    BY <2>1, <2>2, <2>3
<1>1. ASSUME NEW h \in Handler, NEW kind \in Scan, StartScan(h, kind)
      PROVE  PeriodsInv'
  <2>1. /\ UNCHANGED <<today, sub, boughtUntil, overtaken>>
        /\ \A x \in Handler \ {h} : handler'[x] = handler[x]
    BY <1>0, <1>1, Begins DEF StartScan
  <2>2. handler'[h].at \in {"roll", "move"} => sub.end < today
    <3>1. [Free EXCEPT !.at = FirstStep[kind], !.scan = kind, !.seen = sub].at = FirstStep[kind]
      BY DEF Free
    <3>2. handler'[h].at = FirstStep[kind]
      BY <1>0, <1>1, <3>1, Begins DEF StartScan
    <3>3. FirstStep[kind] \in {"roll", "move"} => kind \in {"advance", "lapse"}
      BY DEF FirstStep, Scan
    <3>4. QED
      BY <1>1, <3>2, <3>3 DEF StartScan, Due
  <2>3. ASSUME ~ overtaken, handler'[h].at \in {"roll", "move"}
        PROVE  boughtUntil <= today
    BY <1>0, <2>2, <2>3 DEF PeriodsInv
  <2>4. QED
    BY <2>1, <2>3 DEF PeriodsInv
<1>2. ASSUME \A x \in Handler : handler'[x].at \in {"roll", "move"} => handler'[x] = handler[x]
      PROVE  PeriodsInv'
  <2>1. CASE /\ UNCHANGED <<today, boughtUntil, overtaken>>
             /\ sub'.plan = sub.plan /\ sub'.end = sub.end
    BY <1>2, <2>1 DEF PeriodsInv
  <2>2. ASSUME NEW h \in Handler, Commit(h)
        PROVE  PeriodsInv'
    <3>1. /\ overtaken' = (overtaken \/ \E other \in Handler : handler[other].at \in {"roll", "move"})
          /\ UNCHANGED today
      BY <2>2 DEF Commit
    <3>2. ~ overtaken' => ~ overtaken /\ \A x \in Handler : handler[x].at \notin {"roll", "move"}
      BY <3>1
    <3>3. ~ overtaken' => \A x \in Handler : handler'[x].at \notin {"roll", "move"}
      BY <1>2, <3>2
    <3>4. CASE UNCHANGED <<sub, boughtUntil>>
      BY <3>1, <3>2, <3>3, <3>4 DEF PeriodsInv
    <3>5. CASE sub' = Activated(handler[h].order) /\ boughtUntil' = Activated(handler[h].order).end
      <4>1. sub'.plan = "paid" /\ sub'.end = boughtUntil'
        BY <3>5 DEF Activated
      <4>2. boughtUntil' <= sub'.end
        BY <1>0, <4>1
      <4>3. QED
        BY <3>3, <4>1, <4>2 DEF PeriodsInv
    <3>6. QED
      BY <2>2, <3>4, <3>5, CommitRow
  <2>3. ASSUME NEW h \in Handler, RollPeriod(h) \/ MoveToFree(h)
        PROVE  PeriodsInv'
    <3>1. UNCHANGED <<today, boughtUntil, overtaken>> /\ handler[h].at \in {"roll", "move"}
      BY <2>3 DEF RollPeriod, MoveToFree, Awaits
    <3>2. ~ overtaken => boughtUntil <= today
      BY <3>1 DEF PeriodsInv
    <3>3. ~ overtaken' => ~ (today' < boughtUntil')
      BY <1>0, <3>1, <3>2
    <3>4. QED
      BY <1>2, <3>1, <3>3 DEF PeriodsInv
  <2>4. ASSUME NEW h \in Handler, ChangePlan(h) \/ CompPlan(h)
        PROVE  PeriodsInv'
    <3>1. boughtUntil' = 0 /\ UNCHANGED today
      BY <2>4 DEF ChangePlan, CompPlan, AdminWrites
    <3>2. ~ (today' < boughtUntil') /\ boughtUntil' <= today'
      BY <1>0, <3>1
    <3>3. QED
      BY <3>2 DEF PeriodsInv
  <2>5. CASE Tick
    <3>1. /\ today' = today + 1 /\ UNCHANGED <<sub, boughtUntil, overtaken, handler>>
          /\ \A x \in Handler : handler[x].at = "idle"
      BY <2>5 DEF Tick, Awaits
    <3>2. today' < boughtUntil' => today < boughtUntil
      BY <1>0, <3>1
    <3>3. QED
      BY <3>1, <3>2 DEF PeriodsInv
  <2>6. QED
    BY <2>1, <2>2, <2>3, <2>4, <2>5, PeriodSteps
<1>3. QED
  BY <1>1, <1>2, UpdateSteps

------------------------------------------------------------------------------
(* Every row keeps its type, and the handlers that write one still find it *)
(* (and the order it is for): no matter how many requests and scans cross. *)
THEOREM BillingTypeTheorem == Spec => []BillingTypeOK
<1>1. Spec => []BillingTypes
  BY InitTypes, TypeStep, PTL DEF Spec
<1>2. QED
  BY <1>1, TypesEnough, PTL

(* Activations, settled payments, invoices and uses of the coupon agree,   *)
(* because each commit settles one payment that had no invoice.            *)
THEOREM BooksTheorem == Spec => []BooksBalance
<1>1. Init => BillingTypes /\ BooksBalance
  <2>1. SUFFICES ASSUME Init PROVE BooksBalance
    BY InitTypes
  <2>2. Succeeded = {} /\ \A o : {i \in Succeeded : payments[i].order = o} = {}
    BY <2>1 DEF Init, Succeeded
  <2>3. coupon.redeemed = 0
    BY <2>1 DEF Init
  <2>4. QED
    BY <2>1, <2>2, <2>3, FS_EmptySet DEF Init, BooksBalance
<1>2. QED
  BY <1>1, TypeStep, BooksStep, PTL DEF Spec

(* An activation that began when its payment was settled never commits:    *)
(* a payment stays settled, so the handler finds it so.                    *)
THEOREM StaySettledTheorem == Spec => []SettledPaymentsStaySettled
<1>1. BillingTypes => SettledPaymentsStaySettled
  BY DEF BillingTypes, HandlersFit, Fits, SettledPaymentsStaySettled, Awaits
<1>2. QED
  BY <1>1, InitTypes, TypeStep, PTL DEF Spec

(* What was paid for is kept until its end, unless a scan was overtaken.   *)
THEOREM PaidPeriodTheorem == Spec => []PaidPeriodKept
<1>1. Init => BillingTypes /\ PeriodsInv
  <2>1. SUFFICES ASSUME Init PROVE PeriodsInv
    BY InitTypes
  <2>2. today = 0 /\ boughtUntil = 0 /\ \A h \in Handler : handler[h].at = "idle"
    BY <2>1 DEF Init, Free
  <2>3. QED
    BY <2>2 DEF PeriodsInv
<1>2. PeriodsInv => PaidPeriodKept
  BY DEF PeriodsInv, PaidPeriodKept
<1>3. QED
  BY <1>1, <1>2, TypeStep, PeriodsStep, PTL DEF Spec

(* The owner of a period that a scan ended is mailed, unless a call of the *)
(* scan failed: the job of the reminder is another one.                    *)
THEOREM LapsedOwnersTheorem == Spec => []LapsedOwnersAreMailed
<1>1. Init => BillingTypes /\ MailsInv
  BY InitTypes DEF Init, MailsInv
<1>2. MailsInv => LapsedOwnersAreMailed
  BY DEF MailsInv, LapsedOwnersAreMailed, Awaits
<1>3. QED
  BY <1>1, <1>2, TypeStep, MailsStep, PTL DEF Spec

(* A period has one notice at most, unless two scans ran at once.          *)
THEOREM NoticesTheorem == Spec => []NoticesOnce
<1>1. Init => BillingTypes /\ NoticesInv
  <2>1. SUFFICES ASSUME Init PROVE NoticesInv
    BY InitTypes
  <2>2. \A h \in Handler : handler[h].at = "idle" /\ handler[h].scan = "none"
    BY <2>1 DEF Init, Free
  <2>3. \A r \in Reason, end \in 0..(LastDay + LongestCycle) : notices[<<r, end>>] = 0
    BY <2>1 DEF Init
  <2>4. QED
    BY <2>2, <2>3 DEF NoticesInv, Reason
<1>2. NoticesInv => NoticesOnce
  BY DEF NoticesInv, NoticesOnce
<1>3. QED
  BY <1>1, <1>2, TypeStep, NoticesStep, PTL DEF Spec
==============================================================================
