---------------------------- MODULE DmQuotaProofs ----------------------------
(***************************************************************************)
(* Proofs about DmQuota, for any number of concurrent attempts, any caps,  *)
(* any billing periods and any bound MaxCount.                             *)
(***************************************************************************)
EXTENDS DmQuota, FiniteSetTheorems, TLAPS

(* An attempt's cap is never above the ceiling recorded for its period. *)
ReadUnderCeiling ==
    \A s \in Sender :
        sender[s].at # "idle" =>
            \/ ceiling[sender[s].period] = Unlimited
            \/ /\ sender[s].limit # Unlimited
               /\ sender[s].limit <= ceiling[sender[s].period]

(* The inductive invariant: the accounting equation bounds what the cap is *)
(* compared with, and ReadUnderCeiling what it is compared against.        *)
QuotaInv ==
    /\ QuotaTypeOK
    /\ ReadUnderCeiling
    /\ CounterAccountsForAll
    /\ NeverOversold

------------------------------------------------------------------------------
(* How a step of one attempt moves it between the sets that are counted    *)

At(f, stages, p) == {s \in Sender : f[s].at \in stages /\ f[s].period = p}

LEMMA AtFinite ==
    ASSUME NEW f, NEW stages, NEW p
    PROVE  /\ IsFiniteSet(At(f, stages, p))
           /\ Cardinality(At(f, stages, p)) \in Nat
<1>1. At(f, stages, p) \subseteq Sender
  BY DEF At
<1>2. IsFiniteSet(At(f, stages, p))
  BY <1>1, QuotaAssumption, FS_Subset
<1>3. QED
  BY <1>2, FS_CardinalityType

One(x, stages, p) == IF x.at \in stages /\ x.period = p THEN 1 ELSE 0
Moved(f, s, r) == [f EXCEPT ![s] = r]

(* The set of attempts at some stage grows or shrinks by exactly the       *)
(* attempt that moved.                                                     *)
LEMMA AtMoves ==
    ASSUME NEW f \in [Sender -> Attempt], NEW s \in Sender, NEW r, NEW stages, NEW p
    PROVE  Cardinality(At(Moved(f, s, r), stages, p)) =
             Cardinality(At(f, stages, p)) + One(r, stages, p) - One(f[s], stages, p)
<1> DEFINE S == At(f, stages, p)
           S2 == At(Moved(f, s, r), stages, p)
           in == f[s].at \in stages /\ f[s].period = p
           goes == r.at \in stages /\ r.period = p
<1>1. IsFiniteSet(S) /\ Cardinality(S) \in Nat
  BY AtFinite
<1>2. s \in S <=> in
  BY DEF At
<1>3. S2 = IF goes THEN S \cup {s} ELSE S \ {s}
  BY DEF At, Moved
<1> HIDE DEF S, S2
<1>4. CASE goes
  <2>1. Cardinality(S \cup {s}) = IF s \in S THEN Cardinality(S) ELSE Cardinality(S) + 1
    BY <1>1, FS_AddElement
  <2>2. Cardinality(S2) = Cardinality(S) + 1 - (IF in THEN 1 ELSE 0)
    BY <1>1, <1>2, <1>3, <1>4, <2>1
  <2>3. QED
    BY <1>4, <2>2 DEF S, S2, One
<1>5. CASE ~ goes
  <2>1. Cardinality(S \ {s}) = IF s \in S THEN Cardinality(S) - 1 ELSE Cardinality(S)
    BY <1>1, FS_RemoveElement
  <2>2. Cardinality(S2) = Cardinality(S) + 0 - (IF in THEN 1 ELSE 0)
    BY <1>1, <1>2, <1>3, <1>5, <2>1
  <2>3. QED
    BY <1>5, <2>2 DEF S, S2, One
<1>6. QED
  BY <1>4, <1>5

Slots == {"over", "held"}

(* The two counts the properties speak of, at a step that gives attempt s  *)
(* the record r.                                                           *)
LEMMA CountsMove ==
    ASSUME QuotaTypeOK, NEW s \in Sender, NEW r,
           sender' = Moved(sender, s, r), NEW p \in Period
    PROVE  /\ Reserved(p)' = Reserved(p) + One(r, Slots, p) - One(sender[s], Slots, p)
           /\ Granted(p)' = Granted(p) + One(r, {"held"}, p) - One(sender[s], {"held"}, p)
<1>1. /\ Reserved(p) = Cardinality(At(sender, Slots, p))
      /\ Granted(p) = Cardinality(At(sender, {"held"}, p))
  BY DEF Reserved, Granted, Standing, At, Slots
<1>2. /\ Reserved(p)' = Cardinality(At(sender', Slots, p))
      /\ Granted(p)' = Cardinality(At(sender', {"held"}, p))
  BY DEF Reserved, Granted, Standing, At, Slots
<1>3. sender \in [Sender -> Attempt]
  BY DEF QuotaTypeOK
<1>4. \A stages : Cardinality(At(Moved(sender, s, r), stages, p)) =
        Cardinality(At(sender, stages, p)) + One(r, stages, p) - One(sender[s], stages, p)
  BY <1>3, AtMoves
<1>5. \A stages : Cardinality(At(sender', stages, p)) =
        Cardinality(At(sender, stages, p)) + One(r, stages, p) - One(sender[s], stages, p)
  BY <1>4, Zenon
<1>6. QED
  BY <1>1, <1>2, <1>5

(* Attempts within the cap are among the attempts that hold a slot, in the *)
(* next state as in this one.                                              *)
LEMMA CountsOrdered ==
    ASSUME NEW p \in Period
    PROVE  /\ Reserved(p) \in Nat /\ Granted(p) \in Nat
           /\ Granted(p) <= Reserved(p)
           /\ Reserved(p)' \in Nat
<1>1. /\ Reserved(p) = Cardinality(At(sender, {"over", "held"}, p))
      /\ Granted(p) = Cardinality(At(sender, {"held"}, p))
      /\ Reserved(p)' = Cardinality(At(sender', {"over", "held"}, p))
  BY DEF Reserved, Granted, Standing, At
<1>2. At(sender, {"held"}, p) \subseteq At(sender, {"over", "held"}, p)
  BY DEF At
<1>3. QED
  BY <1>1, <1>2, AtFinite, FS_Subset

------------------------------------------------------------------------------
LEMMA InitQuotaInv == QuotaInit => QuotaInv
<1> SUFFICES ASSUME QuotaInit PROVE QuotaInv
  OBVIOUS
<1>1. QuotaTypeOK
  BY QuotaAssumption DEF QuotaInit, QuotaTypeOK, Attempt, Idle, Stage, Unlimited
<1>2. ReadUnderCeiling
  BY DEF QuotaInit, ReadUnderCeiling, Idle
<1>3. \A p \in Period : /\ Standing({"over", "held"}, p) = {}
                        /\ Standing({"held"}, p) = {}
  BY DEF QuotaInit, Standing, Idle
<1>4. \A p \in Period : Reserved(p) = 0 /\ Granted(p) = 0
  BY <1>3, FS_EmptySet DEF Reserved, Granted
<1>5. CounterAccountsForAll /\ NeverOversold
  BY <1>4 DEF QuotaInit, CounterAccountsForAll, NeverOversold, Unlimited
<1>6. QED
  BY <1>1, <1>2, <1>5 DEF QuotaInv

LEMMA TypeStep ==
    ASSUME QuotaTypeOK, [QuotaNext]_quotaVars
    PROVE  QuotaTypeOK'
<1> USE QuotaAssumption DEF QuotaTypeOK, Attempt, Stage, Unlimited
<1>1. CASE ChangePlan
  BY <1>1 DEF ChangePlan, quotaHistory
<1>2. ASSUME NEW s \in Sender, ReadQuota(s) PROVE QuotaTypeOK'
  <2>1. ceiling' \in [Period -> Nat \cup {Unlimited}]
    BY <1>2 DEF ReadQuota, Higher
  <2>2. QED
    BY <1>2, <2>1 DEF ReadQuota
<1>3. ASSUME NEW s \in Sender, Reserve(s) PROVE QuotaTypeOK'
  <2>1. PICK x \in Stage : sender' = [sender EXCEPT ![s].at = x]
    BY <1>3 DEF Reserve, Stand
  <2>2. count' \in [Period -> Nat]
    BY <1>3 DEF Reserve
  <2>3. QED
    BY <1>3, <2>1, <2>2 DEF Reserve, quotaHistory
<1>4. ASSUME NEW s \in Sender, Release(s) PROVE QuotaTypeOK'
  BY <1>4 DEF Release, End, Idle, Decremented, quotaHistory
<1>5. ASSUME NEW s \in Sender, Keep(s) PROVE QuotaTypeOK'
  BY <1>5 DEF Keep, End, Idle
<1>6. ASSUME NEW s \in Sender, SendUncapped(s) PROVE QuotaTypeOK'
  BY <1>6 DEF SendUncapped, Stand, quotaHistory
<1>7. ASSUME NEW s \in Sender, Charge(s) PROVE QuotaTypeOK'
  BY <1>7 DEF Charge, End, Idle
<1>8. ASSUME NEW s \in Sender, Abandon(s) PROVE QuotaTypeOK'
  BY <1>8 DEF Abandon, End, Idle
<1>9. CASE UNCHANGED quotaVars
  BY <1>9 DEF quotaVars
<1>10. QED
  BY <1>1, <1>2, <1>3, <1>4, <1>5, <1>6, <1>7, <1>8, <1>9 DEF QuotaNext

(* Caps read stay below the ceiling, which never comes down. *)
LEMMA CeilingStep ==
    ASSUME QuotaTypeOK, ReadUnderCeiling, [QuotaNext]_quotaVars
    PROVE  ReadUnderCeiling'
<1> USE QuotaAssumption DEF QuotaTypeOK, Attempt, Stage, ReadUnderCeiling, Unlimited
<1>1. CASE ChangePlan
  BY <1>1 DEF ChangePlan, quotaHistory
<1>2. ASSUME NEW s \in Sender, ReadQuota(s) PROVE ReadUnderCeiling'
  <2> DEFINE Under(limit, top) == top = Unlimited \/ (limit # Unlimited /\ limit <= top)
  <2>1. /\ ceiling \in [Period -> Nat \cup {Unlimited}]
        /\ ceiling' \in [Period -> Nat \cup {Unlimited}]
        /\ plan.limit \in Nat \cup {Unlimited} /\ plan.period \in Period
        /\ ceiling' = [ceiling EXCEPT ![plan.period] = Higher(@, plan.limit)]
    BY <1>2 DEF ReadQuota, Higher
  <2> HIDE DEF QuotaTypeOK, ReadUnderCeiling
  <2>2. Under(plan.limit, ceiling'[plan.period])
    BY <2>1 DEF Higher
  <2>3. ASSUME NEW q \in Period, NEW limit \in Nat \cup {Unlimited}, Under(limit, ceiling[q])
        PROVE  Under(limit, ceiling'[q])
    BY <2>1, <2>3 DEF Higher
  <2>4. ASSUME NEW t \in Sender, t # s, sender'[t].at # "idle"
        PROVE  Under(sender'[t].limit, ceiling'[sender'[t].period])
    <3>1. sender'[t] = sender[t]
      BY <1>2, <2>4 DEF ReadQuota, QuotaTypeOK
    <3>2. sender[t].period \in Period /\ sender[t].limit \in Nat \cup {Unlimited}
      BY <2>4, <3>1 DEF QuotaTypeOK
    <3>3. Under(sender[t].limit, ceiling[sender[t].period])
      BY <2>4, <3>1 DEF ReadUnderCeiling
    <3>4. QED
      BY <2>3, <3>1, <3>2, <3>3
  <2>5. sender'[s].period = plan.period /\ sender'[s].limit = plan.limit
    BY <1>2 DEF ReadQuota, QuotaTypeOK
  <2>6. QED
    BY <2>2, <2>4, <2>5 DEF ReadUnderCeiling
<1>3. ASSUME NEW s \in Sender, Reserve(s) PROVE ReadUnderCeiling'
  BY <1>3 DEF Reserve, Stand, quotaHistory
<1>4. ASSUME NEW s \in Sender, Release(s) PROVE ReadUnderCeiling'
  BY <1>4 DEF Release, End, Idle, quotaHistory
<1>5. ASSUME NEW s \in Sender, Keep(s) PROVE ReadUnderCeiling'
  BY <1>5 DEF Keep, End, Idle
<1>6. ASSUME NEW s \in Sender, SendUncapped(s) PROVE ReadUnderCeiling'
  BY <1>6 DEF SendUncapped, Stand, quotaHistory
<1>7. ASSUME NEW s \in Sender, Charge(s) PROVE ReadUnderCeiling'
  BY <1>7 DEF Charge, End, Idle
<1>8. ASSUME NEW s \in Sender, Abandon(s) PROVE ReadUnderCeiling'
  BY <1>8 DEF Abandon, End, Idle
<1>9. CASE UNCHANGED quotaVars
  BY <1>9 DEF quotaVars
<1>10. QED
  BY <1>1, <1>2, <1>3, <1>4, <1>5, <1>6, <1>7, <1>8, <1>9 DEF QuotaNext

(* What each step of an attempt does to the two counts. *)
LEMMA CountSteps ==
    ASSUME QuotaTypeOK, NEW p \in Period, NEW s \in Sender,
           NEW mine, mine = IF sender[s].period = p THEN 1 ELSE 0
    PROVE  /\ ReadQuota(s) \/ SendUncapped(s) \/ Charge(s) =>
                Reserved(p)' = Reserved(p) /\ Granted(p)' = Granted(p)
           /\ Reserve(s) =>
                /\ Reserved(p)' = Reserved(p) + mine
                /\ Granted(p)' = Granted(p) +
                     (IF OverCap(count[sender[s].period] + 1, sender[s].limit)
                      THEN 0 ELSE mine)
           /\ Release(s) =>
                /\ Reserved(p)' = Reserved(p) - mine
                /\ Granted(p)' = Granted(p) - (IF sender[s].at = "held" THEN mine ELSE 0)
           /\ Keep(s) =>
                /\ Reserved(p)' = Reserved(p) - mine
                /\ Granted(p)' = Granted(p) - mine
           /\ Abandon(s) =>
                /\ Reserved(p)' = Reserved(p) -
                     (IF sender[s].at \in Slots THEN mine ELSE 0)
                /\ Granted(p)' = Granted(p) - (IF sender[s].at = "held" THEN mine ELSE 0)
<1> DEFINE At0(x) == [sender[s] EXCEPT !.at = x]
           New == [at |-> "quoted", period |-> plan.period, limit |-> plan.limit]
           res == Reserved(p)
           gra == Granted(p)
           in(r) == One(r, Slots, p)
           ok(r) == One(r, {"held"}, p)
<1>1. res \in Nat /\ gra \in Nat
  BY CountsOrdered
<1>2. sender[s] \in Attempt /\ sender \in [Sender -> Attempt]
  BY DEF QuotaTypeOK
<1>3. \A r : sender' = Moved(sender, s, r) =>
             res' = res + in(r) - in(sender[s]) /\ gra' = gra + ok(r) - ok(sender[s])
  BY CountsMove
<1>4. /\ in(Idle) = 0 /\ ok(Idle) = 0 /\ in(New) = 0 /\ ok(New) = 0
      /\ in(sender[s]) = IF sender[s].at \in Slots THEN mine ELSE 0
      /\ ok(sender[s]) = IF sender[s].at = "held" THEN mine ELSE 0
      /\ mine \in {0, 1}
  BY DEF One, Idle, Slots
<1>5. \A x \in Stage : /\ in(At0(x)) = IF x \in Slots THEN mine ELSE 0
                       /\ ok(At0(x)) = IF x = "held" THEN mine ELSE 0
  BY <1>2 DEF One, Attempt
<1>6. /\ End(s) => sender' = Moved(sender, s, Idle)
      /\ \A x : Stand(s, x) => sender' = Moved(sender, s, At0(x))
  BY DEF End, Stand, Moved
<1> HIDE DEF At0, New, res, gra, in, ok
<1>7. ReadQuota(s) => res' = res /\ gra' = gra
  <2> SUFFICES ASSUME ReadQuota(s) PROVE res' = res /\ gra' = gra
    OBVIOUS
  <2>1. sender[s].at = "idle" /\ sender' = Moved(sender, s, New)
    BY DEF ReadQuota, Moved, New
  <2>2. res' = res + in(New) - in(sender[s]) /\ gra' = gra + ok(New) - ok(sender[s])
    BY <1>3, <2>1, Zenon
  <2>3. QED
    BY <1>1, <1>4, <2>1, <2>2 DEF Slots
<1>8. SendUncapped(s) => res' = res /\ gra' = gra
  <2> SUFFICES ASSUME SendUncapped(s) PROVE res' = res /\ gra' = gra
    OBVIOUS
  <2>1. sender[s].at = "quoted" /\ sender' = Moved(sender, s, At0("owed"))
    BY <1>6 DEF SendUncapped
  <2>2. /\ res' = res + in(At0("owed")) - in(sender[s])
        /\ gra' = gra + ok(At0("owed")) - ok(sender[s])
    BY <1>3, <2>1, Zenon
  <2>3. QED
    BY <1>1, <1>4, <1>5, <2>1, <2>2 DEF Slots, Stage
<1>9. ASSUME End(s)
      PROVE  res' = res - in(sender[s]) /\ gra' = gra - ok(sender[s])
  <2>1. res' = res + in(Idle) - in(sender[s]) /\ gra' = gra + ok(Idle) - ok(sender[s])
    BY <1>3, <1>6, <1>9, Zenon
  <2>2. QED
    BY <1>1, <1>4, <2>1
<1>10. Charge(s) => res' = res /\ gra' = gra
  BY <1>1, <1>4, <1>9 DEF Charge, Slots
<1>11. Reserve(s) =>
          /\ res' = res + mine
          /\ gra' = gra + (IF OverCap(count[sender[s].period] + 1, sender[s].limit)
                           THEN 0 ELSE mine)
  <2> DEFINE over == OverCap(count[sender[s].period] + 1, sender[s].limit)
             x == IF over THEN "over" ELSE "held"
  <2> SUFFICES ASSUME Reserve(s)
               PROVE  res' = res + mine /\ gra' = gra + (IF over THEN 0 ELSE mine)
    OBVIOUS
  <2>1. sender[s].at = "quoted" /\ sender' = Moved(sender, s, At0(x))
    BY <1>6 DEF Reserve
  <2>2. /\ res' = res + in(At0(x)) - in(sender[s])
        /\ gra' = gra + ok(At0(x)) - ok(sender[s])
    BY <1>3, <2>1, Zenon
  <2>3. x \in Stage /\ x \in Slots /\ (x = "held" <=> ~ over)
    BY DEF Stage, Slots
  <2> HIDE DEF x, over
  <2>4. QED
    BY <1>1, <1>4, <1>5, <2>1, <2>2, <2>3 DEF Slots
<1>12. Release(s) =>
          res' = res - mine /\ gra' = gra - (IF sender[s].at = "held" THEN mine ELSE 0)
  BY <1>1, <1>4, <1>9 DEF Release, Slots
<1>13. Keep(s) => res' = res - mine /\ gra' = gra - mine
  BY <1>1, <1>4, <1>9 DEF Keep, Slots
<1>14. Abandon(s) =>
          /\ res' = res - (IF sender[s].at \in Slots THEN mine ELSE 0)
          /\ gra' = gra - (IF sender[s].at = "held" THEN mine ELSE 0)
  BY <1>1, <1>4, <1>9 DEF Abandon, Slots
<1>15. QED
  BY <1>7, <1>8, <1>10, <1>11, <1>12, <1>13, <1>14 DEF res, gra

LEMMA CountsKept ==
    ASSUME UNCHANGED sender, NEW p \in Period
    PROVE  Reserved(p)' = Reserved(p) /\ Granted(p)' = Granted(p)
BY DEF Reserved, Granted, Standing

(* Every step changes the counter by what it changes on the other side of  *)
(* the accounting equation.                                                *)
LEMMA AccountingStep ==
    ASSUME QuotaTypeOK, CounterAccountsForAll, [QuotaNext]_quotaVars
    PROVE  CounterAccountsForAll'
<1> SUFFICES ASSUME NEW p \in Period
             PROVE  count'[p] = Reserved(p)' + sent'[p] + replies'[p] + leaked'[p]
  BY DEF CounterAccountsForAll
<1> DEFINE Balance == count'[p] = Reserved(p)' + sent'[p] + replies'[p] + leaked'[p]
<1>1. /\ count[p] = Reserved(p) + sent[p] + replies[p] + leaked[p]
      /\ count[p] \in Nat /\ sent[p] \in Nat /\ replies[p] \in Nat /\ leaked[p] \in Nat
      /\ Reserved(p) \in Nat /\ Reserved(p)' \in Nat
  BY CountsOrdered DEF CounterAccountsForAll, QuotaTypeOK
<1>2. /\ count = [q \in Period |-> count[q]]
      /\ sent = [q \in Period |-> sent[q]]
      /\ replies = [q \in Period |-> replies[q]]
      /\ leaked = [q \in Period |-> leaked[q]]
  BY DEF QuotaTypeOK
<1>3. CASE ChangePlan
  BY <1>1, <1>3, CountsKept DEF ChangePlan, quotaHistory
<1>4. ASSUME NEW s \in Sender, ReadQuota(s) PROVE Balance
  BY <1>1, <1>4, CountSteps DEF ReadQuota
<1>5. ASSUME NEW s \in Sender, Reserve(s) PROVE Balance
  <2>1. count'[p] = count[p] + (IF sender[s].period = p THEN 1 ELSE 0)
    BY <1>1, <1>2, <1>5 DEF Reserve
  <2>2. Reserved(p)' = Reserved(p) + (IF sender[s].period = p THEN 1 ELSE 0)
    BY <1>5, CountSteps
  <2>3. sent' = sent /\ replies' = replies /\ leaked' = leaked
    BY <1>5 DEF Reserve, quotaHistory
  <2>4. QED
    BY <1>1, <2>1, <2>2, <2>3
<1>6. ASSUME NEW s \in Sender, Release(s) PROVE Balance
  <2>1. Reserved(p)' = Reserved(p) - (IF sender[s].period = p THEN 1 ELSE 0)
    BY <1>6, CountSteps
  <2>2. sender[s].period = p => count[p] > 0
    BY <1>1, <2>1
  <2>3. count'[p] = count[p] - (IF sender[s].period = p THEN 1 ELSE 0)
    BY <1>1, <1>2, <1>6, <2>2 DEF Release, Decremented
  <2>4. sent' = sent /\ replies' = replies /\ leaked' = leaked
    BY <1>6 DEF Release, quotaHistory
  <2>5. QED
    BY <1>1, <2>1, <2>3, <2>4
<1>7. ASSUME NEW s \in Sender, Keep(s) PROVE Balance
  <2>1. Reserved(p)' = Reserved(p) - (IF sender[s].period = p THEN 1 ELSE 0)
    BY <1>7, CountSteps
  <2>2. sent'[p] = sent[p] + (IF sender[s].period = p THEN 1 ELSE 0)
    BY <1>1, <1>2, <1>7 DEF Keep
  <2>3. count' = count /\ replies' = replies /\ leaked' = leaked
    BY <1>7 DEF Keep
  <2>4. QED
    BY <1>1, <2>1, <2>2, <2>3
<1>8. ASSUME NEW s \in Sender, SendUncapped(s) PROVE Balance
  BY <1>1, <1>8, CountSteps DEF SendUncapped, quotaHistory
<1>9. ASSUME NEW s \in Sender, Charge(s) PROVE Balance
  <2>1. Reserved(p)' = Reserved(p)
    BY <1>9, CountSteps
  <2>2. /\ count'[p] = count[p] + (IF sender[s].period = p THEN 1 ELSE 0)
        /\ replies'[p] = replies[p] + (IF sender[s].period = p THEN 1 ELSE 0)
    BY <1>1, <1>2, <1>9 DEF Charge
  <2>3. sent' = sent /\ leaked' = leaked
    BY <1>9 DEF Charge
  <2>4. QED
    BY <1>1, <2>1, <2>2, <2>3
<1>10. ASSUME NEW s \in Sender, Abandon(s) PROVE Balance
  <2> DEFINE lost == sender[s].at \in Slots /\ sender[s].period = p
  <2>1. Reserved(p)' = Reserved(p) - (IF lost THEN 1 ELSE 0)
    BY <1>1, <1>10, CountSteps
  <2>2. leaked'[p] = leaked[p] + (IF lost THEN 1 ELSE 0)
    BY <1>1, <1>2, <1>10 DEF Abandon, Slots
  <2>3. count' = count /\ sent' = sent /\ replies' = replies
    BY <1>10 DEF Abandon
  <2>4. QED
    BY <1>1, <2>1, <2>2, <2>3
<1>11. CASE UNCHANGED quotaVars
  BY <1>1, <1>11, CountsKept DEF quotaVars
<1>12. QED
  BY <1>3, <1>4, <1>5, <1>6, <1>7, <1>8, <1>9, <1>10, <1>11 DEF QuotaNext

(* Only Reserve grants a send, and only below the cap: the count it saw    *)
(* includes every send granted or made before it.                          *)
LEMMA OversoldStep ==
    ASSUME QuotaInv, [QuotaNext]_quotaVars
    PROVE  NeverOversold'
<1> SUFFICES ASSUME NEW p \in Period, ceiling'[p] # Unlimited
             PROVE  Granted(p)' + sent'[p] <= ceiling'[p]
  BY DEF NeverOversold
<1> DEFINE Within == Granted(p)' + sent'[p] <= ceiling'[p]
<1>1. QuotaTypeOK /\ ReadUnderCeiling /\ CounterAccountsForAll /\ NeverOversold
  BY DEF QuotaInv
<1>2. /\ count[p] = Reserved(p) + sent[p] + replies[p] + leaked[p]
      /\ count[p] \in Nat /\ sent[p] \in Nat /\ replies[p] \in Nat /\ leaked[p] \in Nat
      /\ Reserved(p) \in Nat /\ Granted(p) \in Nat /\ Granted(p) <= Reserved(p)
      /\ ceiling[p] \in Nat \cup {Unlimited}
      /\ ceiling[p] # Unlimited => Granted(p) + sent[p] <= ceiling[p]
      /\ sent = [q \in Period |-> sent[q]]
  BY <1>1, CountsOrdered DEF CounterAccountsForAll, NeverOversold, QuotaTypeOK
<1>3. CASE ChangePlan
  BY <1>1, <1>2, <1>3, CountsKept DEF ChangePlan, quotaHistory
<1>4. ASSUME NEW s \in Sender, ReadQuota(s) PROVE Within
  <2>1. /\ ceiling \in [Period -> Nat \cup {Unlimited}]
        /\ plan.limit \in Nat \cup {Unlimited}
        /\ ceiling' = [ceiling EXCEPT ![plan.period] = Higher(@, plan.limit)]
    BY <1>1, <1>4, QuotaAssumption DEF ReadQuota, QuotaTypeOK
  <2>2. ceiling[p] # Unlimited /\ ceiling[p] <= ceiling'[p]
    BY <2>1 DEF Higher, Unlimited
  <2>3. Granted(p)' = Granted(p) /\ sent' = sent
    BY <1>1, <1>4, CountSteps DEF ReadQuota
  <2>4. ceiling'[p] \in Nat
    BY <2>1 DEF Higher, Unlimited
  <2>5. QED
    BY <1>2, <2>2, <2>3, <2>4 DEF Unlimited
<1>5. ASSUME NEW s \in Sender, Reserve(s) PROVE Within
  <2> DEFINE over == OverCap(count[sender[s].period] + 1, sender[s].limit)
  <2>1. /\ Granted(p)' = Granted(p) + (IF over THEN 0 ELSE IF sender[s].period = p THEN 1 ELSE 0)
        /\ sent' = sent /\ ceiling' = ceiling
    BY <1>1, <1>5, CountSteps DEF Reserve, quotaHistory
  <2>2. CASE ~ over /\ sender[s].period = p
    <3>1. /\ sender[s].limit # Unlimited
          /\ sender[s].limit <= ceiling[p]
      BY <1>1, <1>5, <2>1, <2>2 DEF ReadUnderCeiling, Reserve
    <3>2. sender[s].limit \in Nat
      BY <1>1, <3>1, QuotaAssumption DEF QuotaTypeOK, Attempt
    <3>3. count[p] + 1 <= sender[s].limit
      BY <1>2, <2>2, <3>1, <3>2 DEF OverCap
    <3>4. ceiling[p] \in Nat
      BY <1>2, <2>1
    <3>5. QED
      BY <1>2, <2>1, <2>2, <3>1, <3>2, <3>3, <3>4
  <2>3. CASE over \/ sender[s].period # p
    BY <1>2, <2>1, <2>3
  <2>4. QED
    BY <2>2, <2>3
<1>6. ASSUME NEW s \in Sender, Release(s) PROVE Within
  <2>1. /\ Granted(p)' = Granted(p) \/ Granted(p)' = Granted(p) - 1
        /\ sent' = sent /\ ceiling' = ceiling
    BY <1>1, <1>2, <1>6, CountSteps DEF Release, quotaHistory
  <2>2. QED
    BY <1>2, <2>1 DEF Unlimited
<1>7. ASSUME NEW s \in Sender, Keep(s) PROVE Within
  <2> DEFINE mine == IF sender[s].period = p THEN 1 ELSE 0
  <2>1. Granted(p)' = Granted(p) - mine
    BY <1>1, <1>7, CountSteps
  <2>2. sent'[p] = sent[p] + mine /\ ceiling' = ceiling
    BY <1>2, <1>7 DEF Keep
  <2>3. QED
    BY <1>2, <2>1, <2>2 DEF Unlimited
<1>8. ASSUME NEW s \in Sender, SendUncapped(s) PROVE Within
  BY <1>1, <1>2, <1>8, CountSteps DEF SendUncapped, quotaHistory
<1>9. ASSUME NEW s \in Sender, Charge(s) PROVE Within
  BY <1>1, <1>2, <1>9, CountSteps DEF Charge
<1>10. ASSUME NEW s \in Sender, Abandon(s) PROVE Within
  <2>1. /\ Granted(p)' = Granted(p) \/ Granted(p)' = Granted(p) - 1
        /\ sent' = sent /\ ceiling' = ceiling
    BY <1>1, <1>2, <1>10, CountSteps DEF Abandon
  <2>2. QED
    BY <1>2, <2>1 DEF Unlimited
<1>11. CASE UNCHANGED quotaVars
  BY <1>1, <1>2, <1>11, CountsKept DEF quotaVars
<1>12. QED
  BY <1>3, <1>4, <1>5, <1>6, <1>7, <1>8, <1>9, <1>10, <1>11 DEF QuotaNext

------------------------------------------------------------------------------
(* The inductive invariant holds of every behaviour of the quota, however  *)
(* many attempts run and wherever they crash.                              *)
THEOREM QuotaInvariant == QuotaSpec => []QuotaInv
<1>1. QuotaInit => QuotaInv
  BY InitQuotaInv
<1>2. QuotaInv /\ [QuotaNext]_quotaVars => QuotaInv'
  BY TypeStep, CeilingStep, AccountingStep, OversoldStep DEF QuotaInv
<1>3. QED
  BY <1>1, <1>2, PTL DEF QuotaSpec

(* Each unit on the monthly counter has an owner: decrementDmUsage's       *)
(* count > 0 guard never swallows a release.                               *)
THEOREM CounterTheorem == QuotaSpec => []CounterAccountsForAll
<1>1. QuotaInv => CounterAccountsForAll
  BY DEF QuotaInv
<1>2. QED
  BY <1>1, QuotaInvariant, PTL

(* The reservation protocol of usage.ts closes the check-then-increment    *)
(* race: sends allowed and made stay within the cap.                       *)
THEOREM NeverOversoldTheorem == QuotaSpec => []NeverOversold
<1>1. QuotaInv => NeverOversold
  BY DEF QuotaInv
<1>2. QED
  BY <1>1, QuotaInvariant, PTL

(* Type correctness: in particular an attempt that holds a slot knows the  *)
(* period it holds it in.                                                  *)
THEOREM QuotaTypeTheorem == QuotaSpec => []QuotaTypeOK
<1>1. QuotaInv => QuotaTypeOK
  BY DEF QuotaInv
<1>2. QED
  BY <1>1, QuotaInvariant, PTL
=============================================================================
