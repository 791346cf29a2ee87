------------------------------- MODULE DmQuota -------------------------------
(***************************************************************************)
(* The monthly DM quota: one UsageTracking counter per organisation and    *)
(* billing period, shared by every concurrent job that sends a DM          *)
(* (growasy-worker/src/billing/usage.ts and its callers).                  *)
(*                                                                         *)
(* A keyword or workflow send reserves a slot before it calls Meta,        *)
(* compares the count the increment returned with the plan's cap, and      *)
(* gives the slot back when it is refused or the send fails.  A            *)
(* lead-capture reply sends first and charges the counter afterwards,      *)
(* without looking at the cap.  Each database call is one atomic step.     *)
(*                                                                         *)
(* The module models one organisation.  It is used on its own (checked and *)
(* proved) and by the pipeline modules, whose steps are its actions.       *)
(***************************************************************************)
EXTENDS Integers, FiniteSets

CONSTANTS
    Sender,     \* the concurrent attempts of the workers
    Period,     \* billing-period keys (usage.ts billingPeriodKey)
    NoPeriod,   \* what an idle attempt has read
    Limit,      \* the caps a plan may have, Unlimited among them
    MaxCount    \* bound: no attempt begins once the counter got this high

Unlimited == -1

ASSUME QuotaAssumption ==
    /\ IsFiniteSet(Sender)
    /\ NoPeriod \notin Period
    /\ Limit \subseteq Nat \cup {Unlimited}
    /\ MaxCount \in Nat

VARIABLES
    count,      \* UsageTracking.count of MESSAGES_SENT, per period
    plan,       \* the subscription row: the cap and the current period
    sender,     \* what each attempt has read and where it stands
    \* History of the accounting, read by no action of the code
    sent,       \* reserved sends whose slot was kept
    replies,    \* lead replies charged after they were sent
    leaked,     \* slots whose owner died before it could release them
    ceiling     \* the highest cap any attempt has read for a period, 0 for none

quotaHistory == <<sent, replies, leaked, ceiling>>
quotaVars == <<count, plan, sender, sent, replies, leaked, ceiling>>

Idle == [at |-> "idle", period |-> NoPeriod, limit |-> Unlimited]

(* "over" holds a slot above the cap, "held" one within it, "owed" has     *)
(* sent a lead reply that the counter does not show yet.                   *)
Stage == {"idle", "quoted", "over", "held", "owed"}

Attempt == [at : Stage, period : Period \cup {NoPeriod}, limit : Limit \cup {Unlimited}]

QuotaTypeOK ==
    /\ count \in [Period -> Nat]
    /\ plan \in [limit : Limit, period : Period]
    /\ sender \in [Sender -> Attempt]
    /\ \A s \in Sender : sender[s].at # "idle" => sender[s].period \in Period
    /\ sent \in [Period -> Nat]
    /\ replies \in [Period -> Nat]
    /\ leaked \in [Period -> Nat]
    /\ ceiling \in [Period -> Nat \cup {Unlimited}]

QuotaInit ==
    /\ count = [p \in Period |-> 0]
    /\ plan \in [limit : Limit, period : Period]
    /\ sender = [s \in Sender |-> Idle]
    /\ sent = [p \in Period |-> 0]
    /\ replies = [p \in Period |-> 0]
    /\ leaked = [p \in Period |-> 0]
    /\ ceiling = [p \in Period |-> 0]

------------------------------------------------------------------------------
(* The operations of usage.ts                                              *)

Higher(a, b) ==
    IF a = Unlimited \/ b = Unlimited THEN Unlimited ELSE IF a < b THEN b ELSE a

(* Mutants: the cap compared with the count before the increment; a        *)
(* release that runs twice.                                                *)
OverCapStale(reserved, limit) == limit # Unlimited /\ reserved - 1 > limit
DecrementedTwice(p) == [count EXCEPT ![p] = @ - 2]

OverCap(reserved, limit) == limit # Unlimited /\ reserved > limit

(* updateMany ... where count > 0: a decrement of 0 changes nothing. *)
Decremented(p) ==
    [count EXCEPT ![p] = IF count[p] > 0 THEN count[p] - 1 ELSE count[p]]

Stand(s, stage) == sender' = [sender EXCEPT ![s].at = stage]
End(s) == sender' = [sender EXCEPT ![s] = Idle]

(* One query returns the cap and the period the counter is kept under. *)
ReadQuota(s) ==
    /\ sender[s].at = "idle"
    /\ count[plan.period] < MaxCount
    /\ sender' = [sender EXCEPT ![s] =
                    [at |-> "quoted", period |-> plan.period, limit |-> plan.limit]]
    /\ ceiling' = [ceiling EXCEPT ![plan.period] = Higher(@, plan.limit)]
    /\ UNCHANGED <<count, plan, sent, replies, leaked>>

(* incrementDmUsage is an atomic +1 that returns the new count. *)
Reserve(s) ==
    LET p == sender[s].period IN
    /\ sender[s].at = "quoted"
    /\ count' = [count EXCEPT ![p] = @ + 1]
    /\ Stand(s, IF OverCap(count[p] + 1, sender[s].limit) THEN "over" ELSE "held")
    /\ UNCHANGED <<plan, quotaHistory>>

(* decrementDmUsage, after a refusal or a send that failed. *)
Release(s) ==
    /\ sender[s].at \in {"over", "held"}
    /\ count' = Decremented(sender[s].period)
    /\ End(s)
    /\ UNCHANGED <<plan, quotaHistory>>

(* The send went through: the slot stays charged. *)
Keep(s) ==
    /\ sender[s].at = "held"
    /\ sent' = [sent EXCEPT ![sender[s].period] = @ + 1]
    /\ End(s)
    /\ UNCHANGED <<count, plan, replies, leaked, ceiling>>

(* A lead reply is sent without a reservation ... *)
SendUncapped(s) ==
    /\ sender[s].at = "quoted"
    /\ Stand(s, "owed")
    /\ UNCHANGED <<count, plan, quotaHistory>>

(* ... and charged afterwards, whatever the cap. *)
Charge(s) ==
    LET p == sender[s].period IN
    /\ sender[s].at = "owed"
    /\ count' = [count EXCEPT ![p] = @ + 1]
    /\ replies' = [replies EXCEPT ![p] = @ + 1]
    /\ End(s)
    /\ UNCHANGED <<plan, sent, leaked, ceiling>>

(* The attempt ends without another call: it had nothing to release, or it *)
(* crashed, or the call that would have released its slot threw.           *)
Abandon(s) ==
    LET p == sender[s].period IN
    /\ sender[s].at # "idle"
    /\ leaked' = IF sender[s].at \in {"over", "held"}
                 THEN [leaked EXCEPT ![p] = @ + 1] ELSE leaked
    /\ End(s)
    /\ UNCHANGED <<count, plan, sent, replies, ceiling>>

(* A payment, a lapse or the nightly roll-over rewrites the subscription,  *)
(* under the feet of attempts that have already read it.                   *)
ChangePlan ==
    /\ plan' \in [limit : Limit, period : Period]
    /\ UNCHANGED <<count, sender, quotaHistory>>

QuotaNext ==
    \/ ChangePlan
    \/ \E s \in Sender :
        \/ ReadQuota(s) \/ Reserve(s) \/ Release(s) \/ Keep(s)
        \/ SendUncapped(s) \/ Charge(s) \/ Abandon(s)

QuotaSpec == QuotaInit /\ [][QuotaNext]_quotaVars

------------------------------------------------------------------------------
(* Properties                                                              *)

Standing(stages, p) == {s \in Sender : sender[s].at \in stages /\ sender[s].period = p}

Reserved(p) == Cardinality(Standing({"over", "held"}, p))
Granted(p) == Cardinality(Standing({"held"}, p))

(* Every unit on the counter is accounted for: a slot some attempt still   *)
(* holds, a send that kept its slot, a charged lead reply, or a slot lost  *)
(* with its owner.  In particular no release is ever swallowed by the      *)
(* count > 0 guard of decrementDmUsage.                                    *)
CounterAccountsForAll ==
    \A p \in Period : count[p] = Reserved(p) + sent[p] + replies[p] + leaked[p]

(* The check-then-increment race is closed: attempts allowed to send plus  *)
(* sends already made never exceed the highest cap the period was read     *)
(* under, whatever the interleaving of workers, crashes and plan changes.  *)
NeverOversold ==
    \A p \in Period : ceiling[p] # Unlimited => Granted(p) + sent[p] <= ceiling[p]
=============================================================================
