---------------------------- MODULE FlowEventProofs ---------------------------
(***************************************************************************)
(* What becomes of one event and of one run in DmWorkflows: an event is    *)
(* taken by one run, answers one wait, a run that has to go on is in       *)
(* somebody's hands, and a message of it is sent once.                     *)
(***************************************************************************)
EXTENDS DmWorkflowsProofs

(* What the dispatch knows of the ledger at the steps that look at it.     *)
Lawful ==
    \A w \in Worker :
        /\ worker[w].job = 0 /\ worker[w].at \in {"finish", "unsubscribe"} =>
             ledger[EventOf(w)] # "none"
        /\ worker[w].at = "record" => worker[w].note # "none"

(* Stage 1 writes a ledger row once, and no other step does.               *)
LEMMA LedgerSteps ==
    ASSUME FlowTypes, Lawful, [Next]_vars
    PROVE  /\ \A e \in Event : ledger[e] # "none" => ledger'[e] # "none"
           /\ \A w \in Worker : RecordProcessed(w) =>
                EventOf(w) \in Event /\ ledger'[EventOf(w)] # "none"
<1> USE DEF rowVars
<1>1. ASSUME NEW w \in Worker, RecordProcessed(w)
      PROVE  /\ EventOf(w) \in Event /\ ledger'[EventOf(w)] # "none"
             /\ \A e \in Event : ledger[e] # "none" => ledger'[e] # "none"
  <2>1. worker[w].at = "record" /\ EventOf(w) \in Event /\ worker[w].note # "none"
    BY <1>1, HandKnown DEF RecordProcessed, Awaits, InHand, DispatchStep, EventOf, Lawful
  <2>2. ledger \in [Event -> Outcome]
    BY DEF FlowTypes, RowsTyped
  <2>3. ledger' = IF ledger[EventOf(w)] = "none" THEN [ledger EXCEPT ![EventOf(w)] = worker[w].note]
                  ELSE ledger
    BY <1>1 DEF RecordProcessed
  <2>4. QED
    BY <2>1, <2>2, <2>3
<1>2. CASE \E w \in Worker : RecordProcessed(w)
  BY <1>1, <1>2
<1>3. CASE ~ \E w \in Worker : RecordProcessed(w)
  <2>1. ASSUME Apart PROVE ledger' = ledger
    BY <2>1, ApartKeeps
  <2>2. ASSUME NEW w \in Worker, \/ \E e \in Event : TakeHook(w, e)
                                 \/ \E i \in DOMAIN jobs : TakeJob(w, i)
                                 \/ Settle(w) \/ Crash(w) \/ Throw(w) \/ SendDmFails(w)
        PROVE  ledger' = ledger
    BY <2>2 DEF TakeHook, TakeJob, Settle, Crash, Throw, SendDmFails
  <2>3. ASSUME NEW w \in Worker, DispatchProgress(w), ~ RecordProcessed(w) PROVE ledger' = ledger
    BY <2>3 DEF DispatchProgress, Dedup, Resolve, Unsubscribe, FindWaitingRun, ExpireRun,
       AwakenRun, FeedReply, MatchWorkflow, CreateRun, EnqueueRun
  <2>4. ASSUME NEW w \in Worker, WalkProgress(w) PROVE ledger' = ledger
    BY <2>4 DEF WalkProgress, LoadRun, LoadAccount, WakeRun, Advance, Pause, BeginDelay,
       ScheduleResume, SaveContactField, ApplyAction, NotifyHandoff, ParkRun, CompleteRun
  <2>5. ASSUME NEW w \in Worker, SendProgress(w) PROVE ledger' = ledger
    BY <2>5 DEF SendProgress, CheckConsent, CheckContactCap, GetDmQuota, IncrementDmUsage,
       DecrementDmUsage, FindNotice, CreateNotice, SendDm, FlagAccount, RecordDm
  <2>6. QED
    BY <1>1, <1>3, <2>1, <2>2, <2>3, <2>4, <2>5, NextCases DEF Acts
<1>4. QED
  BY <1>1, <1>2, <1>3

(* At each step of a handler only the calls made there are.                *)
LEMMA RecordActs ==
    ASSUME NEW w \in Worker, Acts(w), worker[w].at = "record"
    PROVE  RecordProcessed(w) \/ Throw(w)
<1>1. ~ WalkProgress(w)
  BY DEF WalkProgress, LoadRun, LoadAccount, WakeRun, Advance, Pause, BeginDelay,
     ScheduleResume, SaveContactField, ApplyAction, NotifyHandoff, ParkRun, CompleteRun, Awaits
<1>2. ~ SendProgress(w) /\ ~ SendDmFails(w)
  BY DEF SendProgress, CheckConsent, CheckContactCap, GetDmQuota, IncrementDmUsage,
     DecrementDmUsage, FindNotice, CreateNotice, SendDm, SendDmFails, FlagAccount, RecordDm,
     Awaits
<1>3. DispatchProgress(w) => RecordProcessed(w)
  BY DEF DispatchProgress, Dedup, Resolve, Unsubscribe, FindWaitingRun, ExpireRun,
     AwakenRun, FeedReply, MatchWorkflow, CreateRun, EnqueueRun, Awaits
<1>4. QED
  BY <1>1, <1>2, <1>3 DEF Acts

LEMMA LawfulStep == FlowTypes /\ Lawful /\ [Next]_vars => Lawful'
<1> SUFFICES ASSUME FlowTypes, Lawful, [Next]_vars PROVE Lawful'
  OBVIOUS
<1> DEFINE Fine(w) == /\ worker[w].job = 0 /\ worker[w].at \in {"finish", "unsubscribe"} =>
                           ledger[EventOf(w)] # "none"
                      /\ worker[w].at = "record" => worker[w].note # "none"
<1>0. /\ worker \in [Worker -> WorkerState]
      /\ \A i \in DOMAIN jobs : i \in Nat /\ i # 0
      /\ \A e \in Event : ledger[e] # "none" => ledger'[e] # "none"
  BY HandKnown, LenProperties, LedgerSteps DEF FlowTypes, HandsFit, QueuesFit
<1>1. ASSUME NEW v \in Worker, worker'[v] = worker[v] PROVE Fine(v)'
  <2>1. worker[v].job = 0 /\ worker[v].at \in {"finish", "unsubscribe"} => EventOf(v) \in Event
    BY <1>0, HandKnown DEF InHand, Settling, DispatchStep, EventOf
  <2>2. QED
    BY <1>0, <1>1, <2>1 DEF Lawful, EventOf
<1>2. ASSUME NEW w \in Worker, Aside(w), worker'[w].at \in {"dedup", "load", "idle"}
      PROVE  Lawful'
  BY <1>1, <1>2 DEF Aside, Lawful
<1>3. CASE Apart
  BY <1>1, <1>3, ApartKeeps DEF Lawful
<1>4. ASSUME NEW w \in Worker, NEW e \in Event, TakeHook(w, e) PROVE Lawful'
  BY <1>0, <1>2, <1>4, HookTaken
<1>5. ASSUME NEW w \in Worker, NEW i \in DOMAIN jobs, TakeJob(w, i) PROVE Lawful'
  BY <1>0, <1>2, <1>5, JobTaken
<1>6. ASSUME NEW w \in Worker, Settle(w) \/ Crash(w) PROVE Lawful'
  BY <1>0, <1>2, <1>6, HandlerEnds DEF Free
<1>7. ASSUME NEW w \in Worker, SaveContactField(w) \/ ApplyAction(w) PROVE Lawful'
  <2>1. \A v \in Worker :
          /\ worker'[v].at = IF v = w THEN "advance" ELSE worker[v].at
          /\ worker'[v].event = worker[v].event /\ worker'[v].job = worker[v].job
          /\ worker'[v].note = worker[v].note
    BY <1>0, <1>7, ContactSet
  <2>2. ledger' = ledger
    BY <1>7 DEF SaveContactField, ApplyAction
  <2>3. QED
    BY <2>1, <2>2 DEF Lawful, EventOf
<1>8. ASSUME NEW w \in Worker, Acts(w), NEW step \in Step, Onward(w, step) PROVE Lawful'
  <2>1. /\ worker'[w].at = step /\ worker'[w].event = worker[w].event
        /\ worker'[w].job = worker[w].job /\ Aside(w)
        /\ step \in Follows(worker[w].at) \cup {"rethrow"}
        /\ step = "record" => worker'[w].note # "none"
        /\ step = "finish" /\ worker[w].at = "dedup" => ledger[EventOf(w)] # "none"
    BY <1>8 DEF Onward, Moves
  <2>2. InHand(worker[w]) /\ worker[w] \in WorkerState
    BY HandKnown
  <2>3. CASE worker[w].job = 0 /\ step \in {"finish", "unsubscribe"}
    <3>1. worker[w].at \in DispatchStep
      <4>1. worker[w].at \notin WalkStep \cup SendStep
        BY <1>0, <2>2, <2>3 DEF InHand
      <4>2. worker[w].at \notin Settling \cup {"idle"}
        BY <1>8 DEF Onward
      <4>3. QED
        BY <2>2, <4>1, <4>2 DEF WorkerState
    <3>2. worker[w].at \in {"dedup", "record", "unsubscribe"}
      BY <2>1, <2>3, <3>1 DEF Follows, DispatchStep
    <3>3. EventOf(w) \in Event
      BY <2>2, <3>1 DEF InHand, EventOf
    <3>4. ledger'[EventOf(w)] # "none"
      <4>1. CASE worker[w].at = "record"
        <5>1. RecordProcessed(w)
          <6>1. Throw(w) => Goto(w, "rethrow")
            BY <4>1 DEF Throw, Awaits
          <6>2. Goto(w, "rethrow") => step = "rethrow"
            BY <1>0, <2>1, GotoMoves DEF Moves, Step, Settling
          <6>3. QED
            BY <1>8, <2>3, <4>1, <6>1, <6>2, RecordActs
        <5>2. QED
          BY <5>1, LedgerSteps
      <4>2. CASE worker[w].at = "dedup"
        BY <1>0, <2>1, <2>3, <3>3, <4>2 DEF Follows
      <4>3. CASE worker[w].at = "unsubscribe"
        BY <1>0, <2>3, <3>3, <4>3 DEF Lawful
      <4>4. QED
        BY <3>2, <4>1, <4>2, <4>3
    <3>5. QED
      BY <1>1, <2>1, <2>3, <3>4 DEF Lawful, Aside, EventOf
  <2>4. CASE ~ (worker[w].job = 0 /\ step \in {"finish", "unsubscribe"})
    BY <1>1, <2>1, <2>4 DEF Lawful, Aside
  <2>5. QED
    BY <2>3, <2>4
<1>9. QED
  BY <1>3, <1>4, <1>5, <1>6, <1>7, <1>8, NextCases, ActsOnward

------------------------------------------------------------------------------
(* Who may still take an event, or answer a wait with it                   *)

(* Handler w of stage 1 may: it has seen no ledger row of the event, or    *)
(* its attempt threw before there was one.                                 *)
Taking(w, e) ==
    /\ worker[w].job = 0 /\ EventOf(w) = e
    /\ \/ worker[w].at \in {"resolve", "findRun", "expire", "awaken", "feed", "match", "create",
                            "enqueue"}
       \/ worker[w].at \in {"dedup", "rethrow"} /\ ledger[e] = "none"

(* So may an attempt yet to come, if no handler holds the job's lock.      *)
Held(e) ==
    \E w \in Worker :
        /\ hook[e].state = "active" /\ hook[e].owner = w
        /\ worker[w].job = 0 /\ EventOf(w) = e

Spare(e) == ledger[e] = "none" /\ ~ Held(e)

Chances(e) ==
    {<<"handler", w>> : w \in {v \in Worker : Taking(v, e)}}
    \cup {c \in {<<"hook", e>>} : Spare(e)}

(* A walk may answer with it while the reply is at hand, and again when    *)
(* its job starts over with the text it carries.                           *)
Answering(w, e) ==
    /\ worker[w].job # 0
    /\ \/ worker[w].at \in {"load", "rethrow", "throttled"} /\ JobOf(w).reply = e
       \/ /\ worker[w].at = "release" /\ worker[w].error = "limited" /\ sender[w].at = "held"
          /\ JobOf(w).reply = e
       \/ worker[w].at \in OnItsWay /\ worker[w].reply = e

Working(i) == \E w \in Worker : jobs[i].bull.owner = w /\ worker[w].job = i

Carrying(i, e) ==
    /\ i \in DOMAIN jobs /\ jobs[i].reply = e
    /\ jobs[i].bull.state = "waiting" \/ (jobs[i].bull.state = "active" /\ ~ Working(i))

Carriers(e) ==
    {<<"handler", w>> : w \in {v \in Worker : Answering(v, e)}}
    \cup {<<"job", i>> : i \in {k \in DOMAIN jobs : Carrying(k, e)}}

(* Inductive: what was taken and what may still be taken together cost no  *)
(* more than one, and one per fault.                                       *)
TakesCounted(e) ==
    /\ IsFiniteSet(Chances(e))
    /\ Cardinality(Chances(e)) + fed[e] <= 1 + faults

AnswersCover(e) ==
    /\ IsFiniteSet(Chances(e)) /\ IsFiniteSet(Carriers(e))
    /\ Cardinality(Chances(e)) + Cardinality(Carriers(e)) + answered[e] <= 1 + faults


(* How a step changes such a set.                                          *)
Keeps(T, U) == U \subseteq T
Spends(T, U) == \E x \in T : U \subseteq T \ {x}
Swaps(T, U) == \E x \in T : \E y : U \subseteq (T \ {x}) \cup {y}
Gains(T, U) == \E y : U \subseteq T \cup {y}

LEMMA SetsCounted ==
    ASSUME NEW T, IsFiniteSet(T), NEW U
    PROVE  /\ Cardinality(T) \in Nat
           /\ Gains(T, U) =>
                IsFiniteSet(U) /\ Cardinality(U) \in Nat /\ Cardinality(U) <= Cardinality(T) + 1
           /\ Keeps(T, U) \/ Swaps(T, U) =>
                IsFiniteSet(U) /\ Cardinality(U) \in Nat /\ Cardinality(U) <= Cardinality(T)
           /\ Spends(T, U) =>
                IsFiniteSet(U) /\ Cardinality(U) \in Nat /\ Cardinality(U) + 1 <= Cardinality(T)
<1>1. Cardinality(T) \in Nat
  BY FS_CardinalityType
<1>2. ASSUME NEW S, IsFiniteSet(S), U \subseteq S
      PROVE  IsFiniteSet(U) /\ Cardinality(U) \in Nat /\ Cardinality(U) <= Cardinality(S)
             /\ Cardinality(S) \in Nat
  BY <1>2, FS_Subset, FS_CardinalityType
<1>3. ASSUME NEW S, IsFiniteSet(S), NEW y
      PROVE  /\ IsFiniteSet(S \cup {y}) /\ Cardinality(S \cup {y}) \in Nat
             /\ Cardinality(S \cup {y}) <= Cardinality(S) + 1
  <2>1. /\ IsFiniteSet(S \cup {y}) /\ Cardinality(S) \in Nat
        /\ Cardinality(S \cup {y}) = IF y \in S THEN Cardinality(S) ELSE Cardinality(S) + 1
    BY <1>3, FS_AddElement, FS_CardinalityType
  <2>2. PICK n \in Nat : n = Cardinality(S)
    BY <2>1
  <2>3. Cardinality(S \cup {y}) \in {n, n + 1}
    BY <2>1, <2>2
  <2>4. PICK m : m = Cardinality(S \cup {y})
    OBVIOUS
  <2>5. m \in Nat /\ m <= n + 1
    BY <2>3, <2>4
  <2>6. QED
    BY <2>1, <2>2, <2>4, <2>5
<1>4. ASSUME NEW x \in T
      PROVE  /\ IsFiniteSet(T \ {x}) /\ Cardinality(T \ {x}) \in Nat
             /\ Cardinality(T \ {x}) + 1 = Cardinality(T)
  <2>1. /\ IsFiniteSet(T \ {x}) /\ Cardinality(T \ {x}) = Cardinality(T) - 1
        /\ Cardinality(T \ {x}) \in Nat
    BY FS_RemoveElement, FS_CardinalityType
  <2>2. QED
    BY <1>1, <2>1
<1>5. ASSUME Gains(T, U)
      PROVE  IsFiniteSet(U) /\ Cardinality(U) \in Nat /\ Cardinality(U) <= Cardinality(T) + 1
  <2>1. PICK y : U \subseteq T \cup {y}
    BY <1>5 DEF Gains
  <2>2. /\ IsFiniteSet(T \cup {y}) /\ Cardinality(T \cup {y}) \in Nat
        /\ Cardinality(T \cup {y}) <= Cardinality(T) + 1
    BY <1>3
  <2>3. IsFiniteSet(U) /\ Cardinality(U) \in Nat /\ Cardinality(U) <= Cardinality(T \cup {y})
    BY <1>2, <2>1, <2>2
  <2>4. QED
    BY <1>1, <2>2, <2>3
<1>6. ASSUME Swaps(T, U)
      PROVE  IsFiniteSet(U) /\ Cardinality(U) \in Nat /\ Cardinality(U) <= Cardinality(T)
  <2>1. PICK x \in T : \E y : U \subseteq (T \ {x}) \cup {y}
    BY <1>6 DEF Swaps
  <2>2. PICK y : U \subseteq (T \ {x}) \cup {y}
    BY <2>1
  <2>3. /\ IsFiniteSet(T \ {x}) /\ Cardinality(T \ {x}) \in Nat
        /\ Cardinality(T \ {x}) + 1 = Cardinality(T)
    BY <1>4
  <2>4. /\ IsFiniteSet((T \ {x}) \cup {y}) /\ Cardinality((T \ {x}) \cup {y}) \in Nat
        /\ Cardinality((T \ {x}) \cup {y}) <= Cardinality(T \ {x}) + 1
    BY <1>3, <2>3
  <2>5. QED
    BY <1>1, <1>2, <2>2, <2>3, <2>4
<1>7. ASSUME Spends(T, U)
      PROVE  IsFiniteSet(U) /\ Cardinality(U) \in Nat /\ Cardinality(U) + 1 <= Cardinality(T)
  <2>1. PICK x \in T : U \subseteq T \ {x}
    BY <1>7 DEF Spends
  <2>2. /\ IsFiniteSet(T \ {x}) /\ Cardinality(T \ {x}) \in Nat
        /\ Cardinality(T \ {x}) + 1 = Cardinality(T)
    BY <1>4
  <2>3. IsFiniteSet(U) /\ Cardinality(U) \in Nat /\ Cardinality(U) <= Cardinality(T \ {x})
    BY <1>2, <2>1, <2>2
  <2>4. QED
    BY <1>1, <2>2, <2>3
<1>8. QED
  BY <1>1, <1>2, <1>5, <1>6, <1>7 DEF Keeps

(* What any step may do with the chances of an event and its carriers: it  *)
(* takes the event, hands it to another, or a fault costs one more.        *)
Trade(e) ==
    \/ /\ Keeps(Chances(e), Chances(e)') /\ Keeps(Carriers(e), Carriers(e)')
       /\ fed'[e] = fed[e] /\ answered'[e] = answered[e] /\ faults' \in {faults, faults + 1}
    \/ /\ Spends(Chances(e), Chances(e)') /\ Gains(Carriers(e), Carriers(e)')
       /\ fed'[e] = fed[e] + 1 /\ answered'[e] = answered[e] /\ faults' = faults
    \/ /\ Swaps(Chances(e), Chances(e)') /\ Keeps(Carriers(e), Carriers(e)')
       /\ fed'[e] = fed[e] /\ answered'[e] = answered[e] /\ faults' = faults
    \/ /\ Gains(Chances(e), Chances(e)') /\ Keeps(Carriers(e), Carriers(e)')
       /\ fed'[e] = fed[e] /\ answered'[e] = answered[e] /\ faults' = faults + 1
    \/ /\ Keeps(Chances(e), Chances(e)') /\ Spends(Carriers(e), Carriers(e)')
       /\ fed'[e] = fed[e] /\ answered'[e] = answered[e] + 1 /\ faults' = faults
    \/ /\ Keeps(Chances(e), Chances(e)') /\ Swaps(Carriers(e), Carriers(e)')
       /\ fed'[e] = fed[e] /\ answered'[e] = answered[e] /\ faults' = faults
    \/ /\ Keeps(Chances(e), Chances(e)') /\ Gains(Carriers(e), Carriers(e)')
       /\ fed'[e] = fed[e] /\ answered'[e] = answered[e] /\ faults' = faults + 1

LEMMA TradeCounted ==
    ASSUME NEW e \in Event, FlowTypes, TakesCounted(e), AnswersCover(e), Trade(e)
    PROVE  TakesCounted(e)' /\ AnswersCover(e)'
<1>0. fed[e] \in Nat /\ answered[e] \in Nat /\ faults \in Nat
  BY WorkflowAssumption DEF FlowTypes, RowsTyped
<1> DEFINE T == Chances(e)
           K == Carriers(e)
<1>1. PICK U : U = Chances(e)'
  OBVIOUS
<1>2. PICK J : J = Carriers(e)'
  OBVIOUS
<1>3. PICK n1 : n1 = fed'[e]
  OBVIOUS
<1>4. PICK n2 : n2 = answered'[e]
  OBVIOUS
<1>5. PICK n3 : n3 = faults'
  OBVIOUS
<1>6. /\ IsFiniteSet(T) /\ IsFiniteSet(K)
      /\ Cardinality(T) + fed[e] <= 1 + faults
      /\ Cardinality(T) + Cardinality(K) + answered[e] <= 1 + faults
  BY DEF TakesCounted, AnswersCover
<1>7. \/ /\ Keeps(T, U) /\ Keeps(K, J)
         /\ n1 = fed[e] /\ n2 = answered[e] /\ n3 \in {faults, faults + 1}
      \/ /\ Spends(T, U) /\ Gains(K, J)
         /\ n1 = fed[e] + 1 /\ n2 = answered[e] /\ n3 = faults
      \/ /\ Swaps(T, U) /\ Keeps(K, J)
         /\ n1 = fed[e] /\ n2 = answered[e] /\ n3 = faults
      \/ /\ Gains(T, U) /\ Keeps(K, J)
         /\ n1 = fed[e] /\ n2 = answered[e] /\ n3 = faults + 1
      \/ /\ Keeps(T, U) /\ Spends(K, J)
         /\ n1 = fed[e] /\ n2 = answered[e] + 1 /\ n3 = faults
      \/ /\ Keeps(T, U) /\ Swaps(K, J)
         /\ n1 = fed[e] /\ n2 = answered[e] /\ n3 = faults
      \/ /\ Keeps(T, U) /\ Gains(K, J)
         /\ n1 = fed[e] /\ n2 = answered[e] /\ n3 = faults + 1
  BY <1>1, <1>2, <1>3, <1>4, <1>5 DEF Trade
<1> HIDE DEF T, K
<1>8. /\ IsFiniteSet(U) /\ IsFiniteSet(J)
      /\ Cardinality(U) + n1 <= 1 + n3
      /\ Cardinality(U) + Cardinality(J) + n2 <= 1 + n3
  <2>1. /\ Cardinality(T) \in Nat
        /\ Gains(T, U) =>
             IsFiniteSet(U) /\ Cardinality(U) \in Nat /\ Cardinality(U) <= Cardinality(T) + 1
        /\ Keeps(T, U) \/ Swaps(T, U) =>
             IsFiniteSet(U) /\ Cardinality(U) \in Nat /\ Cardinality(U) <= Cardinality(T)
        /\ Spends(T, U) =>
             IsFiniteSet(U) /\ Cardinality(U) \in Nat /\ Cardinality(U) + 1 <= Cardinality(T)
    BY <1>6, SetsCounted
  <2>2. /\ Cardinality(K) \in Nat
        /\ Gains(K, J) =>
             IsFiniteSet(J) /\ Cardinality(J) \in Nat /\ Cardinality(J) <= Cardinality(K) + 1
        /\ Keeps(K, J) \/ Swaps(K, J) =>
             IsFiniteSet(J) /\ Cardinality(J) \in Nat /\ Cardinality(J) <= Cardinality(K)
        /\ Spends(K, J) =>
             IsFiniteSet(J) /\ Cardinality(J) \in Nat /\ Cardinality(J) + 1 <= Cardinality(K)
    BY <1>6, SetsCounted
  <2>3. PICK a, b, c, d : a = Cardinality(T) /\ b = Cardinality(K) /\ c = Cardinality(U) /\ d = Cardinality(J)
    OBVIOUS
  <2>4. QED
    BY <1>0, <1>6, <1>7, <2>1, <2>2, <2>3
<1>9. QED
  BY <1>1, <1>2, <1>3, <1>4, <1>5, <1>8 DEF TakesCounted, AnswersCover

(* What the moves of one handler make of the chances of an event, when the *)
(* other handlers have no new ones.                                        *)
LEMMA ChanceMoves ==
    ASSUME NEW e, NEW w, \A v \in Worker \ {w} : Taking(v, e)' => Taking(v, e)
    PROVE  /\ (Taking(w, e)' => Taking(w, e)) /\ (Spare(e)' => Spare(e))
                => Keeps(Chances(e), Chances(e)')
           /\ w \in Worker /\ Taking(w, e) /\ ~ Taking(w, e)' /\ (Spare(e)' => Spare(e))
                => Spends(Chances(e), Chances(e)')
           /\ w \in Worker /\ Taking(w, e) /\ ~ Taking(w, e)' => Swaps(Chances(e), Chances(e)')
           /\ Spare(e) /\ ~ Spare(e)' => Swaps(Chances(e), Chances(e)')
           /\ (Taking(w, e)' => Taking(w, e)) \/ (Spare(e)' => Spare(e))
                => Gains(Chances(e), Chances(e)')
<1> DEFINE h == <<"handler", w>>
           k == <<"hook", e>>
<1>1. PICK T, U : T = Chances(e) /\ U = Chances(e)'
  OBVIOUS
<1>2. /\ \A v \in Worker : Taking(v, e) => <<"handler", v>> \in T
      /\ Spare(e) => k \in T
  BY <1>1 DEF Chances
<1>3. \A c \in U : \/ \E v \in Worker : c = <<"handler", v>> /\ Taking(v, e)'
                   \/ c = k /\ Spare(e)'
  BY <1>1 DEF Chances
<1>4. \A c \in U : c \in T \/ (c = h /\ Taking(w, e)') \/ (c = k /\ Spare(e)')
  BY <1>2, <1>3
<1>5. w \in Worker /\ Taking(w, e) /\ ~ Taking(w, e)' => h \in T /\ h \notin U
  BY <1>2, <1>3
<1>6. Spare(e) /\ ~ Spare(e)' => k \in T /\ k \notin U
  BY <1>2, <1>3
<1>7. /\ Taking(w, e) /\ w \in Worker => h \in T
      /\ h \in U => w \in Worker
  BY <1>2, <1>3
<1> HIDE DEF h, k
<1>8. /\ (Taking(w, e)' => Taking(w, e)) /\ (Spare(e)' => Spare(e)) => U \subseteq T
      /\ w \in Worker /\ Taking(w, e) /\ ~ Taking(w, e)' /\ (Spare(e)' => Spare(e))
           => h \in T /\ U \subseteq T \ {h}
      /\ w \in Worker /\ Taking(w, e) /\ ~ Taking(w, e)'
           => h \in T /\ U \subseteq (T \ {h}) \cup {k}
      /\ Spare(e) /\ ~ Spare(e)' => k \in T /\ U \subseteq (T \ {k}) \cup {h}
      /\ (Taking(w, e)' => Taking(w, e)) => U \subseteq T \cup {k}
      /\ (Spare(e)' => Spare(e)) => U \subseteq T \cup {h}
  BY <1>2, <1>4, <1>5, <1>6, <1>7
<1>9. QED
  BY <1>1, <1>8 DEF Keeps, Spends, Swaps, Gains

(* And what they make of its carriers, when one job at most is a new one.  *)
LEMMA CarrierMoves ==
    ASSUME NEW e, NEW w, \A v \in Worker \ {w} : Answering(v, e)' => Answering(v, e),
           NEW i, \A j \in DOMAIN jobs' \ {i} : Carrying(j, e)' => Carrying(j, e)
    PROVE  /\ (Answering(w, e)' => Answering(w, e)) /\ (Carrying(i, e)' => Carrying(i, e))
                => Keeps(Carriers(e), Carriers(e)')
           /\ w \in Worker /\ Answering(w, e) /\ ~ Answering(w, e)'
              /\ (Carrying(i, e)' => Carrying(i, e))
                => Spends(Carriers(e), Carriers(e)')
           /\ w \in Worker /\ Answering(w, e) /\ ~ Answering(w, e)'
                => Swaps(Carriers(e), Carriers(e)')
           /\ Carrying(i, e) /\ ~ Carrying(i, e)' => Swaps(Carriers(e), Carriers(e)')
           /\ (Answering(w, e)' => Answering(w, e)) \/ (Carrying(i, e)' => Carrying(i, e))
                => Gains(Carriers(e), Carriers(e)')
<1> DEFINE h == <<"handler", w>>
           k == <<"job", i>>
<1>1. PICK T, U : T = Carriers(e) /\ U = Carriers(e)'
  OBVIOUS
<1>2. /\ \A v \in Worker : Answering(v, e) => <<"handler", v>> \in T
      /\ \A j : Carrying(j, e) => <<"job", j>> \in T
  BY <1>1 DEF Carriers, Carrying
<1>3. \A c \in U : \/ \E v \in Worker : c = <<"handler", v>> /\ Answering(v, e)'
                   \/ \E j \in DOMAIN jobs' : c = <<"job", j>> /\ Carrying(j, e)'
  BY <1>1 DEF Carriers
<1>4. \A c \in U : c \in T \/ (c = h /\ Answering(w, e)') \/ (c = k /\ Carrying(i, e)')
  BY <1>2, <1>3
<1>5. w \in Worker /\ Answering(w, e) /\ ~ Answering(w, e)' => h \in T /\ h \notin U
  BY <1>2, <1>3
<1>6. Carrying(i, e) /\ ~ Carrying(i, e)' => k \in T /\ k \notin U
  BY <1>2, <1>3
<1>7. /\ Answering(w, e) /\ w \in Worker => h \in T
      /\ h \in U => w \in Worker
      /\ Carrying(i, e) => k \in T
  BY <1>2, <1>3
<1> HIDE DEF h, k
<1>8. /\ (Answering(w, e)' => Answering(w, e)) /\ (Carrying(i, e)' => Carrying(i, e))
           => U \subseteq T
      /\ w \in Worker /\ Answering(w, e) /\ ~ Answering(w, e)'
         /\ (Carrying(i, e)' => Carrying(i, e))
           => h \in T /\ U \subseteq T \ {h}
      /\ w \in Worker /\ Answering(w, e) /\ ~ Answering(w, e)'
           => h \in T /\ U \subseteq (T \ {h}) \cup {k}
      /\ Carrying(i, e) /\ ~ Carrying(i, e)' => k \in T /\ U \subseteq (T \ {k}) \cup {h}
      /\ (Answering(w, e)' => Answering(w, e)) => U \subseteq T \cup {k}
      /\ (Carrying(i, e)' => Carrying(i, e)) => U \subseteq T \cup {h}
  BY <1>4, <1>5, <1>6, <1>7
<1>9. QED
  BY <1>1, <1>8 DEF Keeps, Spends, Swaps, Gains

------------------------------------------------------------------------------
(* What the steps of one handler leave alone                               *)

(* Nothing of handler v that an event could be taken by has moved.         *)
Unmoved(v) ==
    /\ worker'[v].at = worker[v].at /\ worker'[v].event = worker[v].event
    /\ worker'[v].job = worker[v].job /\ worker'[v].reply = worker[v].reply
    /\ worker'[v].error = worker[v].error /\ worker'[v].run = worker[v].run
    /\ sender'[v] = sender[v]

LEMMA OthersWait ==
    ASSUME FlowTypes, NEW w, NEW e \in Event, \A v \in Worker \ {w} : Unmoved(v),
           \A i \in DOMAIN jobs : jobs'[i].reply = jobs[i].reply,
           ledger[e] # "none" => ledger'[e] # "none"
    PROVE  \A v \in Worker \ {w} : /\ Taking(v, e)' => Taking(v, e)
                                   /\ Answering(v, e)' => Answering(v, e)
<1> SUFFICES ASSUME NEW v \in Worker \ {w}
             PROVE  (Taking(v, e)' => Taking(v, e)) /\ (Answering(v, e)' => Answering(v, e))
  OBVIOUS
<1>1. Taking(v, e)' => Taking(v, e)
  BY DEF Taking, Unmoved, EventOf
<1>2. worker[v].job # 0 /\ worker[v].at \in {"load", "rethrow", "throttled", "release"}
        => worker[v].job \in DOMAIN jobs
  BY HandKnown DEF InHand, WalkStep, SendStep, Settling
<1>3. Answering(v, e)' => Answering(v, e)
  BY <1>2 DEF Answering, Unmoved, JobOf
<1>4. QED
  BY <1>1, <1>3

LEMMA SpareKept ==
    ASSUME NEW e \in Event, hook' = hook,
           \A v \in Worker : worker'[v].event = worker[v].event /\ worker'[v].job = worker[v].job,
           ledger[e] # "none" => ledger'[e] # "none"
    PROVE  Spare(e)' => Spare(e)
  BY DEF Spare, Held, EventOf

LEMMA CarryingKept ==
    ASSUME NEW e \in Event, NEW i \in DOMAIN jobs, jobs'[i] = jobs[i],
           \A v \in Worker : worker'[v].job = worker[v].job
    PROVE  Carrying(i, e)' => Carrying(i, e)
  BY DEF Carrying, Working

LEMMA ActsAside ==
    ASSUME FlowTypes, NEW w \in Worker, Acts(w)
    PROVE  /\ \A v \in Worker \ {w} : Unmoved(v)
           /\ worker'[w].event = worker[w].event /\ worker'[w].job = worker[w].job
           /\ hook' = hook
<1>1. /\ QuotaTypeOK /\ worker \in [Worker -> WorkerState]
  BY HandKnown DEF FlowTypes
<1>2. \A v \in Worker \ {w} : sender'[v] = sender[v]
  <2>1. CASE QuotaUntouched(w)
    BY <1>1, <2>1, UntouchedKeeps, SlotSteps DEF SlotMoves
  <2>2. CASE SendProgress(w)
    <3>1. \/ UNCHANGED quotaVars \/ ReadQuota(w) \/ Reserve(w) \/ Release(w) \/ Keep(w)
      BY <2>2 DEF SendProgress, CheckConsent, CheckContactCap, GetDmQuota, IncrementDmUsage,
         DecrementDmUsage, FindNotice, CreateNotice, SendDm, FlagAccount, RecordDm
    <3>2. QED
      BY <1>1, <3>1, SlotSteps DEF SlotMoves
  <2>3. CASE SendDmFails(w)
    BY <1>1, <2>3, SlotSteps DEF SendDmFails, SlotMoves
  <2>4. CASE Throw(w)
    BY <1>1, <2>4, SlotSteps DEF Throw, SlotMoves
  <2>5. QED
    BY <2>1, <2>2, <2>3, <2>4 DEF Acts, QuotaUntouched
<1>3. hook' = hook
  <2> USE DEF queueVars
  <2>1. CASE DispatchProgress(w)
    BY <2>1 DEF DispatchProgress, Dedup, Resolve, RecordProcessed, Unsubscribe, FindWaitingRun,
       ExpireRun, AwakenRun, FeedReply, MatchWorkflow, CreateRun, EnqueueRun
  <2>2. CASE WalkProgress(w)
    BY <2>2 DEF WalkProgress, LoadRun, LoadAccount, WakeRun, Advance, Pause, BeginDelay,
       ScheduleResume, SaveContactField, ApplyAction, NotifyHandoff, ParkRun, CompleteRun
  <2>3. CASE SendProgress(w)
    BY <2>3 DEF SendProgress, CheckConsent, CheckContactCap, GetDmQuota, IncrementDmUsage,
       DecrementDmUsage, FindNotice, CreateNotice, SendDm, FlagAccount, RecordDm
  <2>4. CASE SendDmFails(w) \/ Throw(w)
    BY <2>4 DEF SendDmFails, Throw
  <2>5. QED
    BY <2>1, <2>2, <2>3, <2>4 DEF Acts
<1>4. CASE SaveContactField(w) \/ ApplyAction(w)
  BY <1>1, <1>2, <1>3, <1>4, ContactSet DEF Unmoved
<1>5. ASSUME NEW step \in Step, Onward(w, step)
      PROVE  /\ \A v \in Worker \ {w} : worker'[v] = worker[v]
             /\ worker'[w].event = worker[w].event /\ worker'[w].job = worker[w].job
  BY <1>5 DEF Onward, Moves, Aside
<1>6. QED
  BY <1>2, <1>3, <1>4, <1>5, ActsOnward DEF Unmoved

------------------------------------------------------------------------------
(* What each step does with an event                                       *)

(* No job carries an event that carried none before.                       *)
LEMMA CarriersKept ==
    ASSUME FlowTypes, NEW w \in Worker, NEW e \in Event, Acts(w), jobs' = jobs
    PROVE  \A j : Carrying(j, e)' => Carrying(j, e)
<1>1. \A v \in Worker : worker'[v].job = worker[v].job
  BY ActsAside DEF Unmoved
<1>2. QED
  BY <1>1, CarryingKept DEF Carrying

(* What holds of all that is not the handler's own.                        *)
LEMMA ActsFrame ==
    ASSUME FlowTypes, Lawful, [Next]_vars, NEW w \in Worker, Acts(w), NEW e \in Event,
           \A i \in DOMAIN jobs : jobs'[i].reply = jobs[i].reply
    PROVE  /\ \A v \in Worker \ {w} : Taking(v, e)' => Taking(v, e)
           /\ \A v \in Worker \ {w} : Answering(v, e)' => Answering(v, e)
           /\ Spare(e)' => Spare(e)
           /\ ledger[e] # "none" => ledger'[e] # "none"
<1>1. ledger[e] # "none" => ledger'[e] # "none"
  BY LedgerSteps
<1>2. /\ \A v \in Worker \ {w} : Unmoved(v)
      /\ worker'[w].event = worker[w].event /\ worker'[w].job = worker[w].job
      /\ hook' = hook
  BY ActsAside
<1>3. \A v \in Worker : worker'[v].event = worker[v].event /\ worker'[v].job = worker[v].job
  BY <1>2 DEF Unmoved
<1>4. QED
  BY <1>1, <1>2, <1>3, OthersWait, SpareKept

LEMMA CountsKnown ==
    ASSUME FlowTypes
    PROVE  /\ fed \in [Event -> Nat] /\ answered \in [Event -> Nat] /\ faults \in Nat
           /\ NoEvent \notin Event
  BY WorkflowAssumption DEF FlowTypes, RowsTyped

LEMMA DispatchTrades ==
    ASSUME FlowTypes, Lawful, [Next]_vars, NEW w \in Worker, DispatchProgress(w), NEW e \in Event
    PROVE  Trade(e)
<1> USE DEF DispatchStep
<1>1. /\ worker[w].at \in DispatchStep /\ InHand(worker[w])
      /\ QueuesFit /\ RunsFit /\ HandsFit /\ faults \in Nat /\ fed \in [Event -> Nat]
      /\ NoEvent \notin Event
  <2>1. worker[w].at \in DispatchStep
    BY DEF DispatchProgress, Dedup, Resolve, RecordProcessed, Unsubscribe, FindWaitingRun,
       ExpireRun, AwakenRun, FeedReply, MatchWorkflow, CreateRun, EnqueueRun, Awaits
  <2>2. QED
    BY <2>1, HandKnown, CountsKnown DEF FlowTypes
<1>2. worker[w].job = 0 /\ EventOf(w) \in Event
  BY <1>1 DEF InHand, EventOf
<1>3. Acts(w)
  BY DEF Acts
<1>4. ~ Answering(w, e) /\ ~ Answering(w, e)'
  BY <1>2, <1>3, ActsAside DEF Answering
<1>5. CASE ~ FeedReply(w) /\ ~ EnqueueRun(w)
  <2>1. /\ jobs' = jobs /\ fed' = fed /\ answered' = answered /\ faults' = faults
    BY <1>5 DEF DispatchProgress, Dedup, Resolve, RecordProcessed, Unsubscribe, FindWaitingRun,
       ExpireRun, AwakenRun, MatchWorkflow, CreateRun, queueVars, historyVars, budgetVars
  <2>2. /\ \A v \in Worker \ {w} : Taking(v, e)' => Taking(v, e)
        /\ \A v \in Worker \ {w} : Answering(v, e)' => Answering(v, e)
        /\ Spare(e)' => Spare(e)
    BY <1>3, <2>1, ActsFrame
  <2>3. Taking(w, e)' => Taking(w, e)
    <3>1. PICK step \in Step : Onward(w, step)
      BY DispatchOnward
    <3>2. /\ worker'[w].at = step /\ EventOf(w)' = EventOf(w) /\ worker'[w].job = 0
          /\ step \in Follows(worker[w].at) /\ step # "rethrow"
      BY <1>1, <1>2, <2>1, <3>1 DEF Onward, Moves, Fault, EventOf
    <3>3. worker[w].at = "dedup" /\ step = "resolve" => ledger[EventOf(w)] = "none"
      <4>1. ASSUME worker[w].at = "dedup", step = "resolve" PROVE ledger[EventOf(w)] = "none"
        <5>1. Dedup(w)
          BY <4>1 DEF DispatchProgress, Resolve, RecordProcessed, Unsubscribe, FindWaitingRun,
             ExpireRun, AwakenRun, FeedReply, MatchWorkflow, CreateRun, EnqueueRun, Awaits
        <5>2. CASE ledger[EventOf(w)] # "none"
          <6>1. Goto(w, "finish")
            BY <5>1, <5>2 DEF Dedup
          <6>2. worker'[w].at = "finish"
            BY <1>1, <6>1, GotoMoves DEF HandsFit, Moves, Step, Settling
          <6>3. QED
            BY <3>2, <4>1, <6>2
        <5>3. QED
          BY <5>2
      <4>2. QED
        BY <4>1
    <3>4. QED
      BY <1>1, <1>2, <3>2, <3>3 DEF Taking, Follows
  <2>4. Keeps(Chances(e), Chances(e)')
    BY <2>2, <2>3, ChanceMoves
  <2>5. Keeps(Carriers(e), Carriers(e)')
    BY <1>3, <1>4, <2>1, <2>2, CarriersKept, CarrierMoves
  <2>6. QED
    BY <2>1, <2>4, <2>5 DEF Trade
<1>6. ASSUME FeedReply(w) \/ EnqueueRun(w) PROVE Trade(e)
  <2>1. /\ fed' = [fed EXCEPT ![EventOf(w)] = @ + 1] /\ answered' = answered /\ faults' = faults
        /\ worker[w].at \in {"feed", "enqueue"} /\ worker'[w].at = "record"
    BY <1>1, <1>6, WriteMoves
       DEF FeedReply, EnqueueRun, Awaits, budgetVars, HandsFit, Outcome, Moves
  <2>2. worker[w].run \in DOMAIN runs
    BY <1>1, <2>1 DEF InHand
  <2>3. PICK reply \in {EventOf(w), NoEvent} : AddJob(worker[w].run, FALSE, reply)
    BY <1>6 DEF FeedReply, EnqueueRun
  <2>4. PICK k : k = Len(jobs) + 1
    OBVIOUS
  <2>5. /\ DOMAIN jobs' = DOMAIN jobs \cup {k} /\ k \notin DOMAIN jobs
        /\ jobs'[k].reply = reply
        /\ \A i \in DOMAIN jobs : jobs'[i] = jobs[i]
    BY <1>1, <1>2, <2>2, <2>3, <2>4, JobAdded
  <2>6. /\ \A v \in Worker \ {w} : Taking(v, e)' => Taking(v, e)
        /\ \A v \in Worker \ {w} : Answering(v, e)' => Answering(v, e)
        /\ Spare(e)' => Spare(e)
    BY <1>3, <2>5, ActsFrame
  <2>7. \A v \in Worker : worker'[v].job = worker[v].job
    BY <1>3, ActsAside DEF Unmoved
  <2>8. \A j \in DOMAIN jobs' \ {k} : Carrying(j, e)' => Carrying(j, e)
    BY <2>5, <2>7, CarryingKept
  <2>9. CASE e = EventOf(w)
    <3>1. Taking(w, e) /\ ~ Taking(w, e)'
      BY <1>2, <2>1, <2>9 DEF Taking
    <3>2. Spends(Chances(e), Chances(e)')
      BY <2>6, <3>1, ChanceMoves
    <3>3. Gains(Carriers(e), Carriers(e)')
      BY <1>4, <2>6, <2>8, CarrierMoves
    <3>4. fed'[e] = fed[e] + 1
      BY <1>1, <2>1, <2>9
    <3>5. QED
      BY <2>1, <3>2, <3>3, <3>4 DEF Trade
  <2>10. CASE e # EventOf(w)
    <3>1. ~ Carrying(k, e)'
      BY <1>1, <2>5, <2>10 DEF Carrying
    <3>2. ~ Taking(w, e)'
      BY <1>3, <2>10, ActsAside DEF Taking, EventOf
    <3>3. Keeps(Chances(e), Chances(e)')
      BY <2>6, <3>2, ChanceMoves
    <3>4. Keeps(Carriers(e), Carriers(e)')
      BY <1>4, <2>6, <2>8, <3>1, CarrierMoves
    <3>5. fed'[e] = fed[e]
      BY <1>1, <1>2, <2>1, <2>10
    <3>6. QED
      BY <2>1, <3>3, <3>4, <3>5 DEF Trade
  <2>11. QED
    BY <2>9, <2>10
<1>7. QED
  BY <1>5, <1>6

LEMMA WalkTrades ==
    ASSUME FlowTypes, Lawful, [Next]_vars, NEW w \in Worker, WalkProgress(w), NEW e \in Event
    PROVE  Trade(e)
<1> USE DEF WalkStep, OnItsWay
<1>0. worker[w].at \in WalkStep
  BY DEF WalkProgress, LoadRun, LoadAccount, WakeRun, Advance, Pause, BeginDelay,
     ScheduleResume, SaveContactField, ApplyAction, NotifyHandoff, ParkRun, CompleteRun, Awaits
<1>1. /\ InHand(worker[w]) /\ worker[w].job \in DOMAIN jobs /\ worker[w].job # 0
      /\ QueuesFit /\ RunsFit /\ worker \in [Worker -> WorkerState]
      /\ \A f \in Workflow : flow[f].graph \in Graph
      /\ worker[w].at # "load" => worker[w].run \in DOMAIN runs /\ worker[w].graph \in Graph
      /\ JobOf(w).run \in DOMAIN runs
  <2>1. worker[w].job \in DOMAIN jobs /\ InHand(worker[w])
    BY <1>0, HandKnown DEF InHand
  <2>2. worker[w].job # 0
    BY <2>1, LenProperties DEF FlowTypes, QueuesFit
  <2>3. QED
    BY <1>0, <2>1, <2>2, HandKnown DEF FlowTypes, QueuesFit, JobOf
<1>2. Acts(w)
  BY DEF Acts
<1>3. ~ Taking(w, e) /\ ~ Taking(w, e)' /\ worker'[w].job = worker[w].job
  BY <1>1, <1>2, ActsAside DEF Taking
<1>4. fed' = fed /\ faults' = faults
  BY DEF WalkProgress, LoadRun, LoadAccount, WakeRun, Advance, Pause, BeginDelay,
     ScheduleResume, SaveContactField, ApplyAction, NotifyHandoff, ParkRun, CompleteRun,
     historyVars, budgetVars
<1>5. worker'[w].at \notin {"load", "rethrow", "throttled", "release"}
  <2>1. CASE SaveContactField(w) \/ ApplyAction(w)
    BY <1>1, <2>1, ContactSet
  <2>2. CASE ~ SaveContactField(w) /\ ~ ApplyAction(w)
    <3>1. PICK step \in Step : Onward(w, step)
      BY <2>2, WalkOnward
    <3>2. worker'[w].at = step /\ step \in Follows(worker[w].at)
      BY <1>4, <3>1, CountsKnown DEF Onward, Moves, Fault
    <3>3. QED
      BY <1>0, <3>2 DEF Follows, Landings
  <2>3. QED
    BY <2>1, <2>2
<1>6. Answering(w, e)' => worker'[w].reply = e /\ worker'[w].at \in OnItsWay
  BY <1>5 DEF Answering
<1>7. ASSUME \A i \in DOMAIN jobs : jobs'[i].reply = jobs[i].reply
      PROVE  /\ Keeps(Chances(e), Chances(e)')
             /\ \A v \in Worker \ {w} : Answering(v, e)' => Answering(v, e)
  <2>1. /\ \A v \in Worker \ {w} : Taking(v, e)' => Taking(v, e)
        /\ \A v \in Worker \ {w} : Answering(v, e)' => Answering(v, e)
        /\ Spare(e)' => Spare(e)
    BY <1>2, <1>7, ActsFrame
  <2>2. QED
    BY <1>3, <2>1, ChanceMoves
<1>8. ASSUME jobs' = jobs, answered' = answered, Answering(w, e)' => Answering(w, e)
      PROVE  Trade(e)
  <2>1. Keeps(Carriers(e), Carriers(e)')
    BY <1>2, <1>7, <1>8, CarriersKept, CarrierMoves
  <2>2. QED
    BY <1>4, <1>7, <1>8, <2>1 DEF Trade
<1>9. CASE LoadRun(w)
  <2>1. jobs' = jobs /\ answered' = answered /\ worker[w].at = "load"
    BY <1>9 DEF LoadRun, queueVars, Awaits
  <2>2. worker'[w].at = "finish" \/ worker'[w].reply = JobOf(w).reply
    BY <1>1, <1>9, RunLoaded DEF FlowTypes, RunsFit, QueuesFit, Moves
  <2>3. Answering(w, e)' => Answering(w, e)
    BY <1>1, <1>6, <2>1, <2>2 DEF Answering, SendStep
  <2>4. QED
    BY <1>8, <2>1, <2>3
<1>10. CASE LoadAccount(w) \/ WakeRun(w) \/ Advance(w)
  <2>1. jobs' = jobs /\ worker[w].at \in OnItsWay
    BY <1>10 DEF LoadAccount, WakeRun, Advance, queueVars, Awaits
  <2>2. worker[w].node \in Node \cup {NoNode} /\ Targets(w) \subseteq Node \cup {NoNode}
    BY <1>1, <2>1, TargetsAreNodes, HandKnown DEF Targets, WorkerState
  <2>3. \/ (Goto(w, "finish") \/ Goto(w, "wake")) /\ answered' = answered
        \/ \E n \in Node \cup {NoNode} : WalkOn(w, worker[w], n)
    BY <1>10, <2>2 DEF LoadAccount, WakeRun, Advance
  <2>4. CASE (Goto(w, "finish") \/ Goto(w, "wake")) /\ answered' = answered
    <3>1. worker'[w].reply = worker[w].reply
      BY <1>1, <2>4, GotoMoves DEF Recalls, Step, Settling
    <3>2. Answering(w, e)' => Answering(w, e)
      BY <1>1, <1>6, <2>1, <3>1 DEF Answering
    <3>3. QED
      BY <1>8, <2>1, <2>4, <3>2
  <2>5. ASSUME NEW n \in Node \cup {NoNode}, WalkOn(w, worker[w], n) PROVE Trade(e)
    <3>1. Landing(worker[w], n, worker'[w]) /\ answered' = Answered(worker[w], n)
      BY <1>1, <2>1, <2>5, WalkLands
    <3>2. CASE worker'[w].reply = worker[w].reply /\ answered' = answered
      <4>1. Answering(w, e)' => Answering(w, e)
        BY <1>1, <1>6, <2>1, <3>2 DEF Answering
      <4>2. QED
        BY <1>8, <2>1, <3>2, <4>1
    <3>3. CASE /\ worker[w].reply # NoEvent /\ worker'[w].reply = NoEvent
               /\ answered' = [answered EXCEPT ![worker[w].reply] = @ + 1]
      <4>1. ~ Answering(w, e)'
        BY <1>6, <3>3, CountsKnown
      <4>2. CASE e = worker[w].reply
        <5>1. Answering(w, e)
          BY <1>1, <2>1, <4>2 DEF Answering
        <5>2. Spends(Carriers(e), Carriers(e)')
          BY <1>2, <1>7, <2>1, <4>1, <5>1, CarriersKept, CarrierMoves
        <5>3. answered'[e] = answered[e] + 1
          BY <3>3, <4>2, CountsKnown
        <5>4. QED
          BY <1>4, <1>7, <2>1, <5>2, <5>3 DEF Trade
      <4>3. CASE e # worker[w].reply
        <5>1. answered'[e] = answered[e]
          BY <3>3, <4>3, CountsKnown
        <5>2. Keeps(Carriers(e), Carriers(e)')
          BY <1>2, <1>7, <2>1, <4>1, CarriersKept, CarrierMoves
        <5>3. QED
          BY <1>4, <1>7, <2>1, <5>1, <5>2 DEF Trade
      <4>4. QED
        BY <4>2, <4>3
    <3>4. QED
      BY <3>1, <3>2, <3>3 DEF Landing
  <2>6. QED
    BY <2>3, <2>4, <2>5
<1>11. CASE ScheduleResume(w)
  <2>1. /\ AddJob(worker[w].run, TRUE, NoEvent) /\ answered' = answered /\ worker[w].at = "schedule"
    BY <1>11 DEF ScheduleResume, historyVars, RunOf, Awaits
  <2>2. PICK k : k = Len(jobs) + 1
    OBVIOUS
  <2>3. /\ DOMAIN jobs' = DOMAIN jobs \cup {k} /\ k \notin DOMAIN jobs
        /\ jobs'[k].reply = NoEvent
        /\ \A i \in DOMAIN jobs : jobs'[i] = jobs[i]
    BY <1>1, <2>1, <2>2, JobAdded
  <2>4. \A v \in Worker : worker'[v].job = worker[v].job
    BY <1>2, ActsAside DEF Unmoved
  <2>5. \A j \in DOMAIN jobs' \ {k} : Carrying(j, e)' => Carrying(j, e)
    BY <2>3, <2>4, CarryingKept
  <2>6. ~ Carrying(k, e)'
    BY <2>3, CountsKnown DEF Carrying
  <2>7. worker'[w].at = "finish"
    BY <1>1, <1>11, GotoMoves DEF ScheduleResume, Moves, Step, Settling
  <2>8. ~ Answering(w, e)'
    BY <1>6, <2>7 DEF SendStep
  <2>9. Keeps(Carriers(e), Carriers(e)')
    BY <1>7, <2>3, <2>5, <2>6, <2>8, CarrierMoves
  <2>10. QED
    BY <1>4, <1>7, <2>1, <2>3, <2>9 DEF Trade
<1>12. CASE \/ Pause(w) \/ BeginDelay(w) \/ NotifyHandoff(w) \/ ParkRun(w) \/ CompleteRun(w)
            \/ SaveContactField(w) \/ ApplyAction(w)
  <2>1. jobs' = jobs /\ answered' = answered /\ worker[w].at # "load"
    BY <1>12 DEF Pause, BeginDelay, NotifyHandoff, ParkRun, CompleteRun, SaveContactField,
       ApplyAction, queueVars, historyVars, Awaits
  <2>2. worker'[w].reply = worker[w].reply
    <3>1. CASE SaveContactField(w) \/ ApplyAction(w)
      BY <1>1, <3>1, ContactSet
    <3>2. CASE ~ SaveContactField(w) /\ ~ ApplyAction(w)
      <4>1. \E step \in {"finish", "schedule", "park"} : Goto(w, step)
        BY <1>12, <3>2 DEF Pause, BeginDelay, NotifyHandoff, ParkRun, CompleteRun
      <4>2. QED
        BY <1>1, <4>1, GotoMoves DEF Recalls, Step, Settling
    <3>3. QED
      BY <3>1, <3>2
  <2>3. Answering(w, e)' => Answering(w, e)
    BY <1>0, <1>1, <1>6, <2>1, <2>2 DEF Answering
  <2>4. QED
    BY <1>8, <2>1, <2>3
<1>13. QED
  BY <1>9, <1>10, <1>11, <1>12 DEF WalkProgress

(* A send keeps the reply at hand, and a throttled one holds its unit.     *)
LEMMA SendTrades ==
    ASSUME FlowTypes, Lawful, [Next]_vars, NEW w \in Worker, SendProgress(w), NEW e \in Event
    PROVE  Trade(e)
<1> USE DEF SendStep
<1>0. worker[w].at \in SendStep
  BY DEF SendProgress, CheckConsent, CheckContactCap, GetDmQuota, IncrementDmUsage,
     DecrementDmUsage, FindNotice, CreateNotice, SendDm, FlagAccount, RecordDm, Awaits
<1>1. /\ InHand(worker[w]) /\ worker[w].job \in DOMAIN jobs /\ worker[w].job # 0
      /\ worker \in [Worker -> WorkerState] /\ worker[w].doing # "none"
      /\ QuotaTypeOK
  <2>1. worker[w].job \in DOMAIN jobs /\ InHand(worker[w])
    BY <1>0, HandKnown DEF InHand
  <2>2. worker[w].job # 0
    BY <2>1, LenProperties DEF FlowTypes, QueuesFit
  <2>3. QED
    BY <1>0, <2>1, <2>2, HandKnown DEF InHand, FlowTypes
<1>2. Acts(w) /\ jobs' = jobs
  BY SendGrows DEF Acts
<1>3. ~ Taking(w, e) /\ ~ Taking(w, e)' /\ worker'[w].job = worker[w].job
  BY <1>1, <1>2, ActsAside DEF Taking
<1>4. fed' = fed /\ answered' = answered /\ faults' = faults
  BY DEF SendProgress, CheckConsent, CheckContactCap, GetDmQuota, IncrementDmUsage,
     DecrementDmUsage, FindNotice, CreateNotice, SendDm, FlagAccount, RecordDm, historyVars,
     budgetVars
<1>5. /\ worker'[w].reply = worker[w].reply
      /\ worker'[w].at \notin {"load", "rethrow"}
      /\ worker'[w].at = "throttled" =>
           worker[w].at = "release" /\ worker[w].error = "limited" /\ sender[w].at # "over"
      /\ worker'[w].at = "release" => sender'[w].at # "held"
  <2>1. ASSUME NEW ok \in BOOLEAN, Return(w, ok)
        PROVE  /\ worker'[w].reply = worker[w].reply
               /\ worker'[w].at \in {"advance", "pause", "finish"}
    BY <1>1, <2>1, SendReturns DEF Moves
  <2>2. ASSUME NEW step \in Step, Goto(w, step)
        PROVE  worker'[w].reply = worker[w].reply /\ worker'[w].at = step
    BY <1>1, <2>2, GotoMoves DEF Recalls, Moves
  <2>3. {"cap", "quota", "notice", "dmRow", "reserve", "release", "send", "flag", "throttled"}
          \subseteq Step
    BY DEF Step, Settling
  <2>4. CASE \/ CheckConsent(w) \/ CheckContactCap(w) \/ FindNotice(w) \/ CreateNotice(w)
             \/ SendDm(w) \/ FlagAccount(w) \/ RecordDm(w)
    <3>1. \/ Return(w, FALSE) \/ Return(w, TRUE)
          \/ \E step \in {"cap", "quota", "notice", "dmRow"} : Goto(w, step)
      BY <2>4 DEF CheckConsent, CheckContactCap, FindNotice, CreateNotice, SendDm, FlagAccount,
         RecordDm
    <3>2. QED
      BY <2>1, <2>2, <2>3, <3>1
  <2>5. CASE GetDmQuota(w)
    BY <2>2, <2>3, <2>5 DEF GetDmQuota
  <2>6. CASE IncrementDmUsage(w)
    <3>1. Goto(w, IF sender'[w].at = "over" THEN "release" ELSE "send")
      BY <2>6 DEF IncrementDmUsage
    <3>2. QED
      BY <2>2, <2>3, <3>1
  <2>7. CASE DecrementDmUsage(w)
    <3>1. worker[w].at = "release"
      BY <2>7 DEF DecrementDmUsage, Awaits
    <3>2. CASE sender[w].at = "over"
      <4>1. worker' = [worker EXCEPT ![w].at = "findNotice", ![w].period = sender[w].period]
        BY <2>7, <3>2 DEF DecrementDmUsage
      <4>2. worker'[w].reply = worker[w].reply /\ worker'[w].at = "findNotice"
        BY <1>1, <4>1 DEF WorkerState
      <4>3. QED
        BY <4>2
    <3>3. CASE sender[w].at # "over"
      <4>1. \/ Goto(w, "flag") \/ Return(w, FALSE)
            \/ Goto(w, "throttled") /\ worker[w].error = "limited"
        BY <2>7, <3>3 DEF DecrementDmUsage
      <4>2. QED
        BY <2>1, <2>2, <2>3, <3>1, <3>3, <4>1
    <3>4. QED
      BY <3>2, <3>3
  <2>8. QED
    BY <2>4, <2>5, <2>6, <2>7 DEF SendProgress
<1>6. worker[w].at = "release" => sender[w].at \in {"over", "held"}
  BY HandKnown DEF SlotStages
<1>7. Answering(w, e)' => Answering(w, e)
  <2>1. JobOf(w)' = JobOf(w)
    BY <1>2, <1>3 DEF JobOf
  <2>2. QED
    BY <1>0, <1>1, <1>5, <1>6, <2>1 DEF Answering, OnItsWay
<1>8. /\ \A v \in Worker \ {w} : Taking(v, e)' => Taking(v, e)
      /\ \A v \in Worker \ {w} : Answering(v, e)' => Answering(v, e)
      /\ Spare(e)' => Spare(e)
  BY <1>2, ActsFrame
<1>9. Keeps(Chances(e), Chances(e)')
  BY <1>3, <1>8, ChanceMoves
<1>10. Keeps(Carriers(e), Carriers(e)')
  BY <1>2, <1>7, <1>8, CarriersKept, CarrierMoves
<1>11. QED
  BY <1>4, <1>9, <1>10 DEF Trade

(* A call that throws makes its job start over: a chance more for the      *)
(* event of stage 1, or a carrier more for the reply of a walk.            *)
LEMMA ErrorTrades ==
    ASSUME FlowTypes, Lawful, [Next]_vars, NEW w \in Worker, SendDmFails(w) \/ Throw(w),
           NEW e \in Event
    PROVE  Trade(e)
<1>1. Acts(w) /\ jobs' = jobs
  BY DEF Acts, SendDmFails, Throw, queueVars
<1>2. fed' = fed /\ answered' = answered /\ faults' = faults + 1
  BY DEF SendDmFails, Throw, historyVars, Fault
<1>3. worker'[w].job = worker[w].job
  BY <1>1, ActsAside
<1>4. /\ \A v \in Worker \ {w} : Taking(v, e)' => Taking(v, e)
      /\ \A v \in Worker \ {w} : Answering(v, e)' => Answering(v, e)
      /\ Spare(e)' => Spare(e)
  BY <1>1, ActsFrame
<1>5. \A j : Carrying(j, e)' => Carrying(j, e)
  BY <1>1, CarriersKept
<1>6. CASE worker[w].job = 0
  <2>1. Gains(Chances(e), Chances(e)')
    BY <1>4, ChanceMoves
  <2>2. ~ Answering(w, e)'
    BY <1>3, <1>6 DEF Answering
  <2>3. Keeps(Carriers(e), Carriers(e)')
    BY <1>4, <1>5, <2>2, CarrierMoves
  <2>4. QED
    BY <1>2, <2>1, <2>3 DEF Trade
<1>7. CASE worker[w].job # 0
  <2>1. ~ Taking(w, e)'
    BY <1>3, <1>7 DEF Taking
  <2>2. Keeps(Chances(e), Chances(e)')
    BY <1>4, <2>1, ChanceMoves
  <2>3. Gains(Carriers(e), Carriers(e)')
    BY <1>4, <1>5, CarrierMoves
  <2>4. QED
    BY <1>2, <2>2, <2>3 DEF Trade
<1>8. QED
  BY <1>6, <1>7

(* An attempt of stage 1 takes over the chance of the job's lock.          *)
LEMMA HookTrades ==
    ASSUME FlowTypes, NEW w \in Worker, NEW e0 \in Event, TakeHook(w, e0), NEW e \in Event
    PROVE  Trade(e)
<1>1. /\ worker \in [Worker -> WorkerState] /\ hook \in [Event -> OwnedJob]
      /\ 0 \notin DOMAIN jobs
  BY HandKnown, LenProperties DEF FlowTypes, QueuesFit
<1>2. /\ jobs' = jobs /\ ledger' = ledger /\ fed' = fed /\ answered' = answered
      /\ faults' = faults /\ sender' = sender
      /\ hook[e0].state = "waiting" /\ hook' = [hook EXCEPT ![e0] = Bull!Taken(@, w)]
  BY DEF TakeHook, rowVars, historyVars, budgetVars, quotaVars
<1>3. /\ worker[w] = Free
      /\ \A v \in Worker \ {w} : worker'[v] = worker[v]
      /\ worker'[w].at = "dedup" /\ worker'[w].event = e0 /\ worker'[w].job = 0
  BY <1>1, HookTaken, HandKnown DEF Aside, InHand
<1>4. worker[w].job = 0 /\ worker[w].event = NoEvent
  BY <1>3 DEF Free
<1>5. /\ \A v \in Worker \ {w} : Taking(v, e)' => Taking(v, e)
      /\ \A v \in Worker \ {w} : Answering(v, e)' => Answering(v, e)
  BY <1>2, <1>3, OthersWait DEF Unmoved
<1>6. Keeps(Carriers(e), Carriers(e)')
  <2>1. \A v \in Worker : worker'[v].job = worker[v].job
    BY <1>3, <1>4
  <2>2. \A j : Carrying(j, e)' => Carrying(j, e)
    BY <1>2, <2>1, CarryingKept DEF Carrying
  <2>3. ~ Answering(w, e)'
    BY <1>3 DEF Answering
  <2>4. QED
    BY <1>5, <2>2, <2>3, CarrierMoves
<1>7. CASE e = e0 /\ ledger[e] = "none"
  <2>1. Spare(e)
    BY <1>1, <1>2, <1>7 DEF Spare, Held
  <2>2. Held(e)'
    <3>1. hook'[e].state = "active" /\ hook'[e].owner = w
      BY <1>1, <1>2, <1>7 DEF Bull!Taken, OwnedJob, Bull!Job
    <3>2. QED
      BY <1>3, <1>7, <3>1 DEF Held, EventOf
  <2>3. Swaps(Chances(e), Chances(e)')
    BY <1>5, <2>1, <2>2, ChanceMoves DEF Spare
  <2>4. QED
    BY <1>2, <1>6, <2>3 DEF Trade
<1>8. CASE ~ (e = e0 /\ ledger[e] = "none")
  <2>1. ~ Taking(w, e)'
    BY <1>2, <1>3, <1>8 DEF Taking, EventOf
  <2>2. Spare(e)' => Spare(e)
    <3>1. CASE e = e0
      BY <1>2, <1>8, <3>1 DEF Spare
    <3>2. CASE e # e0
      <4>1. hook'[e] = hook[e]
        BY <1>1, <1>2, <3>2
      <4>2. Held(e) => Held(e)'
        BY <1>3, <1>4, <4>1, CountsKnown DEF Held, EventOf
      <4>3. QED
        BY <1>2, <4>2 DEF Spare
    <3>3. QED
      BY <3>1, <3>2
  <2>3. Keeps(Chances(e), Chances(e)')
    BY <1>5, <2>1, <2>2, ChanceMoves
  <2>4. QED
    BY <1>2, <1>6, <2>3 DEF Trade
<1>9. QED
  BY <1>7, <1>8

(* The chance of an attempt of stage 1 is not the handler's of a walk.     *)
LEMMA WalkerHoldsNone ==
    ASSUME NEW w \in Worker, NEW e \in Event, hook' = hook, ledger' = ledger,
           worker[w].job # 0 \/ EventOf(w) # e,
           \A v \in Worker \ {w} : worker'[v] = worker[v]
    PROVE  Spare(e)' => Spare(e)
  BY DEF Spare, Held, EventOf

(* A walk takes over the reply that its job carries.                       *)
LEMMA JobTrades ==
    ASSUME FlowTypes, NEW w \in Worker, NEW i \in DOMAIN jobs, TakeJob(w, i), NEW e \in Event
    PROVE  Trade(e)
<1>1. /\ worker \in [Worker -> WorkerState] /\ QueuesFit
      /\ 0 \notin DOMAIN jobs /\ i \in Nat /\ jobs[i].bull \in OwnedJob
  BY HandKnown, LenProperties DEF FlowTypes, QueuesFit
<1>2. /\ hook' = hook /\ ledger' = ledger /\ fed' = fed /\ answered' = answered
      /\ faults' = faults /\ sender' = sender
      /\ jobs[i].bull.state = "waiting"
  BY DEF TakeJob, rowVars, historyVars, budgetVars, quotaVars
<1>3. /\ worker[w] = Free
      /\ \A v \in Worker \ {w} : worker'[v] = worker[v]
      /\ worker'[w].at = "load" /\ worker'[w].job = i
  BY <1>1, JobTaken, HandKnown DEF Aside, InHand
<1>4. worker[w].job = 0 /\ worker[w].event = NoEvent /\ i # 0
  BY <1>1, <1>3 DEF Free
<1>5. PICK b \in OwnedJob : b = Bull!Taken(jobs[i].bull, w) /\ b.state = "active" /\ b.owner = w
  <2>1. Bull!Taken(jobs[i].bull, w) \in OwnedJob
    BY <1>1, JobSteps
  <2>2. /\ Bull!Taken(jobs[i].bull, w).state = "active"
        /\ Bull!Taken(jobs[i].bull, w).owner = w
    BY <1>1 DEF Bull!Taken, OwnedJob, Bull!Job
  <2>3. QED
    BY <2>1, <2>2
<1>6. /\ DOMAIN jobs' = DOMAIN jobs
      /\ \A k \in DOMAIN jobs : jobs'[k].reply = jobs[k].reply
                                /\ jobs'[k].bull = IF k = i THEN b ELSE jobs[k].bull
  <2>1. jobs' = [jobs EXCEPT ![i].bull = b]
    BY <1>5 DEF TakeJob
  <2>2. QED
    BY <1>1, <2>1, JobUpdated
<1>7. /\ \A v \in Worker \ {w} : Taking(v, e)' => Taking(v, e)
      /\ \A v \in Worker \ {w} : Answering(v, e)' => Answering(v, e)
  BY <1>2, <1>3, <1>6, OthersWait DEF Unmoved
<1>8. Keeps(Chances(e), Chances(e)')
  <2>1. Spare(e)' => Spare(e)
    BY <1>2, <1>3, <1>4, WalkerHoldsNone, CountsKnown DEF EventOf
  <2>2. ~ Taking(w, e)'
    BY <1>3, <1>4 DEF Taking
  <2>3. QED
    BY <1>7, <2>1, <2>2, ChanceMoves
<1>9. \A j \in DOMAIN jobs' \ {i} : Carrying(j, e)' => Carrying(j, e)
  <2>1. ASSUME NEW j \in DOMAIN jobs \ {i}, Working(j) PROVE Working(j)'
    BY <1>1, <1>3, <1>4, <1>6, <2>1 DEF Working
  <2>2. QED
    BY <1>6, <2>1 DEF Carrying
<1>10. ~ Carrying(i, e)'
  BY <1>3, <1>5, <1>6 DEF Carrying, Working
<1>11. CASE jobs[i].reply = e
  <2>1. Carrying(i, e)
    BY <1>2, <1>11 DEF Carrying
  <2>2. Swaps(Carriers(e), Carriers(e)')
    BY <1>7, <1>9, <1>10, <2>1, CarrierMoves
  <2>3. QED
    BY <1>2, <1>8, <2>2 DEF Trade
<1>12. CASE jobs[i].reply # e
  <2>1. ~ Answering(w, e)'
    BY <1>3, <1>6, <1>12 DEF Answering, JobOf, OnItsWay
  <2>2. Keeps(Carriers(e), Carriers(e)')
    BY <1>7, <1>9, <1>10, <2>1, CarrierMoves
  <2>3. QED
    BY <1>2, <1>8, <2>2 DEF Trade
<1>13. QED
  BY <1>11, <1>12

(* A handler gives its job back: with the chance or the reply, if it threw *)
(* and still holds the lock, or without.                                   *)
LEMMA SettleTrades ==
    ASSUME FlowTypes, Lawful, NEW w \in Worker, Settle(w), NEW e \in Event
    PROVE  Trade(e)
<1>1. /\ worker \in [Worker -> WorkerState] /\ QueuesFit /\ hook \in [Event -> OwnedJob]
      /\ 0 \notin DOMAIN jobs /\ InHand(worker[w])
      /\ \A v \in Worker \ {w} : worker'[v] = worker[v]
      /\ worker'[w] = Free
  BY HandKnown, HandlerEnds, LenProperties DEF FlowTypes, QueuesFit, Aside
<1>2. /\ ledger' = ledger /\ fed' = fed /\ answered' = answered
      /\ faults' = faults /\ sender' = sender /\ worker[w].at \in Settling
  BY DEF Settle, rowVars, historyVars, budgetVars, quotaVars
<1>3. /\ worker'[w].at = "idle" /\ worker'[w].job = 0 /\ worker'[w].event = NoEvent
      /\ worker'[w].reply = NoEvent
  BY <1>1 DEF Free
<1>4. ~ Taking(w, e)' /\ ~ Answering(w, e)'
  BY <1>3 DEF Taking, Answering
<1>5. CASE worker[w].job = 0
  <2>1. /\ jobs' = jobs /\ worker[w].event \in Event
        /\ \E b : hook' = [hook EXCEPT ![worker[w].event] = b]
    BY <1>1, <1>2, <1>5 DEF Settle, InHand
  <2>2. worker[w].at \in {"finish", "rethrow"}
    BY <1>1, <1>2, <1>5 DEF InHand, Settling
  <2>3. /\ \A v \in Worker \ {w} : Taking(v, e)' => Taking(v, e)
        /\ \A v \in Worker \ {w} : Answering(v, e)' => Answering(v, e)
    BY <1>1, <1>2, <2>1, OthersWait DEF Unmoved
  <2>4. Keeps(Carriers(e), Carriers(e)')
    <3>1. \A v \in Worker : worker'[v].job = worker[v].job
      BY <1>1, <1>3, <1>5
    <3>2. \A j : Carrying(j, e)' => Carrying(j, e)
      BY <2>1, <3>1, CarryingKept DEF Carrying
    <3>3. QED
      BY <1>4, <2>3, <3>2, CarrierMoves
  <2>5. CASE e = worker[w].event /\ ledger[e] = "none"
    <3>1. Taking(w, e)
      BY <1>5, <2>2, <2>5 DEF Taking, Lawful, EventOf
    <3>2. Swaps(Chances(e), Chances(e)')
      BY <1>4, <2>3, <3>1, ChanceMoves
    <3>3. QED
      BY <1>2, <2>4, <3>2 DEF Trade
  <2>6. CASE ledger[e] # "none"
    <3>1. ~ Spare(e)'
      BY <1>2, <2>6 DEF Spare
    <3>2. Keeps(Chances(e), Chances(e)')
      BY <1>4, <2>3, <3>1, ChanceMoves
    <3>3. QED
      BY <1>2, <2>4, <3>2 DEF Trade
  <2>7. CASE e # worker[w].event
    <3>1. hook'[e] = hook[e]
      BY <1>1, <2>1, <2>7
    <3>2. Held(e) => Held(e)'
      BY <1>1, <2>7, <3>1 DEF Held, EventOf
    <3>3. Spare(e)' => Spare(e)
      BY <1>2, <3>2 DEF Spare
    <3>4. Keeps(Chances(e), Chances(e)')
      BY <1>4, <2>3, <3>3, ChanceMoves
    <3>5. QED
      BY <1>2, <2>4, <3>4 DEF Trade
  <2>8. QED
    BY <2>5, <2>6, <2>7
<1>6. CASE worker[w].job # 0
  <2>1. PICK i \in DOMAIN jobs : i = worker[w].job /\ i # 0
    BY <1>1, <1>2, <1>6 DEF InHand
  <2>2. hook' = hook
    BY <1>6 DEF Settle
  <2>3. jobs[i].bull \in OwnedJob
    BY <1>1 DEF QueuesFit
  <2>4. PICK b \in OwnedJob : b = Settled(w, jobs[i].bull, WorkflowAttempts)
    BY <1>2, <2>3, JobSteps DEF Settled, Settling, Awaits
  <2>5. /\ DOMAIN jobs' = DOMAIN jobs
        /\ \A k \in DOMAIN jobs : jobs'[k].reply = jobs[k].reply
                                  /\ jobs'[k].bull = IF k = i THEN b ELSE jobs[k].bull
    <3>1. jobs' = [jobs EXCEPT ![i].bull = b]
      BY <1>6, <2>1, <2>4 DEF Settle
    <3>2. QED
      BY <1>1, <3>1, JobUpdated
  <2>6. /\ \A v \in Worker \ {w} : Taking(v, e)' => Taking(v, e)
        /\ \A v \in Worker \ {w} : Answering(v, e)' => Answering(v, e)
    BY <1>1, <1>2, <2>5, OthersWait DEF Unmoved
  <2>7. Spare(e)' => Spare(e)
    BY <1>1, <1>2, <1>6, <2>2, WalkerHoldsNone
  <2>8. Keeps(Chances(e), Chances(e)')
    BY <1>4, <2>6, <2>7, ChanceMoves
  <2>9. \A j \in DOMAIN jobs' \ {i} : Carrying(j, e)' => Carrying(j, e)
    <3>1. ASSUME NEW j \in DOMAIN jobs \ {i}, Working(j) PROVE Working(j)'
      BY <1>1, <2>1, <2>5, <3>1 DEF Working
    <3>2. QED
      BY <2>5, <3>1 DEF Carrying
  <2>10. CASE jobs[i].reply = e /\ worker[w].at \in {"rethrow", "throttled"}
    <3>1. Answering(w, e)
      BY <1>6, <2>1, <2>10 DEF Answering, JobOf
    <3>2. Swaps(Carriers(e), Carriers(e)')
      BY <1>4, <2>6, <2>9, <3>1, CarrierMoves
    <3>3. QED
      BY <1>2, <2>8, <3>2 DEF Trade
  <2>11. CASE jobs[i].reply # e \/ worker[w].at = "finish"
    <3>1. Carrying(i, e)' => Carrying(i, e)
      <4>1. CASE jobs[i].reply # e
        BY <2>5, <4>1 DEF Carrying
      <4>2. CASE worker[w].at = "finish"
        <5>1. b = Bull!Completed(jobs[i].bull, w)
          BY <2>4, <4>2 DEF Settled, Awaits
        <5>2. CASE jobs[i].bull.owner = w
          <6>1. b.state = "completed"
            BY <5>1, <5>2 DEF Bull!Completed, Bull!Absent
          <6>2. QED
            BY <2>5, <6>1 DEF Carrying
        <5>3. CASE jobs[i].bull.owner # w
          <6>1. b = jobs[i].bull
            BY <5>1, <5>3 DEF Bull!Completed
          <6>2. Working(i) => Working(i)'
            BY <1>1, <2>5, <5>3, <6>1 DEF Working
          <6>3. QED
            BY <2>5, <6>1, <6>2 DEF Carrying
        <5>4. QED
          BY <5>2, <5>3
      <4>3. QED
        BY <2>11, <4>1, <4>2
    <3>2. Keeps(Carriers(e), Carriers(e)')
      BY <1>4, <2>6, <2>9, <3>1, CarrierMoves
    <3>3. QED
      BY <1>2, <2>8, <3>2 DEF Trade
  <2>12. QED
    BY <1>2, <2>10, <2>11 DEF Settling
<1>7. QED
  BY <1>5, <1>6

(* A crash leaves a lock that nobody works under.                          *)
LEMMA CrashTrades ==
    ASSUME FlowTypes, NEW w \in Worker, Crash(w), NEW e \in Event
    PROVE  Trade(e)
<1>1. /\ worker \in [Worker -> WorkerState] /\ QueuesFit /\ QuotaTypeOK
      /\ 0 \notin DOMAIN jobs /\ InHand(worker[w])
      /\ \A v \in Worker \ {w} : worker'[v] = worker[v]
      /\ worker'[w] = Free
  BY HandKnown, HandlerEnds, LenProperties DEF FlowTypes, QueuesFit, Aside
<1>2. /\ hook' = hook /\ jobs' = jobs /\ ledger' = ledger /\ fed' = fed /\ answered' = answered
      /\ faults' = faults + 1
  BY DEF Crash, queueVars, rowVars, historyVars, Fault
<1>3. \A v \in Worker \ {w} : sender'[v] = sender[v]
  BY <1>1, SlotSteps DEF Crash, SlotMoves
<1>4. worker'[w].at = "idle" /\ worker'[w].job = 0 /\ worker'[w].reply = NoEvent
  BY <1>1 DEF Free
<1>5. ~ Taking(w, e)' /\ ~ Answering(w, e)'
  BY <1>4 DEF Taking, Answering
<1>6. /\ \A v \in Worker \ {w} : Taking(v, e)' => Taking(v, e)
      /\ \A v \in Worker \ {w} : Answering(v, e)' => Answering(v, e)
  BY <1>1, <1>2, <1>3, OthersWait DEF Unmoved
<1> PICK i : i = worker[w].job
  OBVIOUS
<1>7. \A j \in DOMAIN jobs' \ {i} : Carrying(j, e)' => Carrying(j, e)
  <2>1. ASSUME NEW j \in DOMAIN jobs \ {i}, Working(j) PROVE Working(j)'
    BY <1>1, <1>2, <2>1 DEF Working
  <2>2. QED
    BY <1>2, <2>1 DEF Carrying
<1>8. CASE worker[w].job = 0
  <2>1. ~ Carrying(i, e)'
    BY <1>1, <1>2, <1>8 DEF Carrying
  <2>2. Keeps(Carriers(e), Carriers(e)')
    BY <1>5, <1>6, <1>7, <2>1, CarrierMoves
  <2>3. Gains(Chances(e), Chances(e)')
    BY <1>5, <1>6, ChanceMoves
  <2>4. QED
    BY <1>2, <2>2, <2>3 DEF Trade
<1>9. CASE worker[w].job # 0
  <2>1. Gains(Carriers(e), Carriers(e)')
    BY <1>5, <1>6, <1>7, CarrierMoves
  <2>2. Keeps(Chances(e), Chances(e)')
    <3>1. Spare(e)' => Spare(e)
      BY <1>1, <1>2, <1>9, WalkerHoldsNone
    <3>2. QED
      BY <1>5, <1>6, <3>1, ChanceMoves
  <2>3. QED
    BY <1>2, <2>1, <2>2 DEF Trade
<1>10. QED
  BY <1>8, <1>9

(* The lock of a slow worker expires at the cost of a fault; nothing else  *)
(* that moves no handler touches an event.                                 *)
LEMMA ApartTrades ==
    ASSUME FlowTypes, Apart, NEW e \in Event
    PROVE  Trade(e)
<1> USE DEF queueVars, quotaVars, budgetVars
<1>1. /\ worker' = worker /\ ledger' = ledger /\ fed' = fed /\ answered' = answered
      /\ hook \in [Event -> OwnedJob] /\ QueuesFit /\ faults \in Nat
  BY ApartKeeps, CountsKnown DEF rowVars, historyVars, FlowTypes, QueuesFit
<1>2. sender' = sender
  BY DEF Apart, Deliver, Evict, Recover, RecoverJob, StopRun, LoseStop, WaitLapses,
     ChangeWorkflow, ChangeTenant, vars
<1>3. ASSUME \A i \in DOMAIN jobs : jobs'[i].reply = jobs[i].reply
      PROVE  \A v \in Worker : /\ Taking(v, e)' => Taking(v, e)
                               /\ Answering(v, e)' => Answering(v, e)
  <2>1. \A v \in Worker : Unmoved(v)
    BY <1>1, <1>2 DEF Unmoved
  <2>2. \A v \in Worker \ {NoWorker} : /\ Taking(v, e)' => Taking(v, e)
                                       /\ Answering(v, e)' => Answering(v, e)
    BY <1>1, <1>3, <2>1, OthersWait
  <2>3. QED
    BY <2>2, WorkflowAssumption
<1>4. ASSUME jobs' = jobs, Spare(e)' => Spare(e)
      PROVE  Keeps(Chances(e), Chances(e)') /\ Keeps(Carriers(e), Carriers(e)')
  <2>1. \A j : Carrying(j, e)' => Carrying(j, e)
    BY <1>1, <1>4, CarryingKept DEF Carrying
  <2>2. QED
    BY <1>3, <1>4, <2>1 DEF Keeps, Chances, Carriers
<1>5. ASSUME jobs' = jobs, hook' = hook, faults' \in {faults, faults + 1} PROVE Trade(e)
  <2>1. Spare(e)' => Spare(e)
    BY <1>1, <1>5, SpareKept
  <2>2. QED
    BY <1>1, <1>4, <1>5, <2>1 DEF Trade
<1>6. ASSUME NEW e0 \in Event, Deliver(e0) \/ Evict(e0) PROVE Trade(e)
  <2>1. /\ jobs' = jobs /\ faults' = faults
        /\ \E b : hook' = [hook EXCEPT ![e0] = b]
        /\ hook[e0].state # "active"
    BY <1>6 DEF Deliver, Evict, Edit
  <2>2. Held(e) => Held(e)'
    BY <1>1, <2>1 DEF Held, EventOf
  <2>3. Spare(e)' => Spare(e)
    BY <1>1, <2>2 DEF Spare
  <2>4. QED
    BY <1>1, <1>4, <2>1, <2>3 DEF Trade
<1>7. ASSUME NEW e0 \in Event, Recover(e0) PROVE Trade(e)
  <2>1. /\ jobs' = jobs /\ \E b : hook' = [hook EXCEPT ![e0] = b]
    BY <1>7 DEF Recover
  <2>2. CASE Fault
    <3>1. Gains(Chances(e), Chances(e)')
      <4>1. \A v \in Worker \ {NoWorker} : Taking(v, e)' => Taking(v, e)
        BY <1>3, <2>1
      <4>2. Taking(NoWorker, e)' => Taking(NoWorker, e)
        BY <1>1 DEF Taking, EventOf
      <4>3. QED
        BY <4>1, <4>2, ChanceMoves
    <3>2. Keeps(Carriers(e), Carriers(e)')
      <4>1. \A j : Carrying(j, e)' => Carrying(j, e)
        BY <1>1, <2>1, CarryingKept DEF Carrying
      <4>2. QED
        BY <1>3, <2>1, <4>1 DEF Keeps, Carriers
    <3>3. QED
      BY <1>1, <2>2, <3>1, <3>2 DEF Trade, Fault
  <2>3. CASE ~ (\E w \in Worker : hook[e0].owner = w /\ EventOf(w) = e0) /\ UNCHANGED budgetVars
    <3>1. Held(e) => Held(e)'
      BY <1>1, <2>1, <2>3 DEF Held, EventOf
    <3>2. Spare(e)' => Spare(e)
      BY <1>1, <3>1 DEF Spare
    <3>3. QED
      BY <1>1, <1>4, <2>1, <2>3, <3>2 DEF Trade
  <2>4. QED
    BY <1>7, <2>2, <2>3 DEF Recover
<1>8. ASSUME NEW i \in DOMAIN jobs, RecoverJob(i) PROVE Trade(e)
  <2>1. hook' = hook /\ jobs[i].bull.state = "active" /\ jobs[i].bull \in OwnedJob
    BY <1>1, <1>8 DEF RecoverJob, QueuesFit
  <2>2. PICK b \in OwnedJob : b = Bull!Stalled(jobs[i].bull)
    BY <2>1, JobSteps
  <2>3. /\ DOMAIN jobs' = DOMAIN jobs
        /\ \A k \in DOMAIN jobs : jobs'[k].reply = jobs[k].reply
                                  /\ jobs'[k].bull = IF k = i THEN b ELSE jobs[k].bull
    <3>1. jobs' = [jobs EXCEPT ![i].bull = b]
      BY <1>8, <2>2 DEF RecoverJob
    <3>2. QED
      BY <1>1, <3>1, JobUpdated
  <2>4. Keeps(Chances(e), Chances(e)')
    <3>1. Spare(e)' => Spare(e)
      BY <1>1, <2>1, SpareKept
    <3>2. QED
      BY <1>3, <2>3, <3>1 DEF Keeps, Chances
  <2>5. \A j \in DOMAIN jobs' \ {i} : Carrying(j, e)' => Carrying(j, e)
    BY <1>1, <2>3 DEF Carrying, Working
  <2>6. \A v \in Worker : Answering(v, e)' => Answering(v, e)
    BY <1>3, <2>3
  <2>7. CASE Fault
    <3>1. Carriers(e)' \subseteq Carriers(e) \cup {<<"job", i>>}
      BY <2>5, <2>6 DEF Carriers, Carrying
    <3>2. Gains(Carriers(e), Carriers(e)')
      BY <3>1 DEF Gains
    <3>3. QED
      BY <1>1, <2>4, <2>7, <3>2 DEF Trade, Fault
  <2>8. CASE ~ (\E w \in Worker : jobs[i].bull.owner = w /\ worker[w].job = i) /\ UNCHANGED budgetVars
    <3>1. Carrying(i, e)' => Carrying(i, e)
      BY <2>1, <2>3, <2>8 DEF Carrying, Working
    <3>2. Keeps(Carriers(e), Carriers(e)')
      BY <2>5, <2>6, <3>1 DEF Keeps, Carriers, Carrying
    <3>3. QED
      BY <1>1, <2>4, <2>8, <3>2 DEF Trade
  <2>9. QED
    BY <1>8, <2>7, <2>8 DEF RecoverJob
<1>9. CASE \E r \in DOMAIN runs : StopRun(r) \/ LoseStop(r) \/ WaitLapses(r)
  BY <1>5, <1>9 DEF StopRun, LoseStop, WaitLapses, Fault, Edit
<1>10. CASE (\E f \in Workflow : ChangeWorkflow(f)) \/ ChangeTenant \/ UNCHANGED vars
  BY <1>5, <1>10 DEF ChangeWorkflow, ChangeTenant, vars, Edit
<1>11. QED
  BY <1>6, <1>7, <1>8, <1>9, <1>10 DEF Apart

LEMMA TradeStep ==
    ASSUME FlowTypes, Lawful, [Next]_vars, NEW e \in Event
    PROVE  Trade(e)
<1>1. ASSUME NEW w \in Worker, Acts(w) PROVE Trade(e)
  BY <1>1, DispatchTrades, WalkTrades, SendTrades, ErrorTrades DEF Acts
<1>2. ASSUME NEW w \in Worker,
             \/ \E e0 \in Event : TakeHook(w, e0)
             \/ \E i \in DOMAIN jobs : TakeJob(w, i)
             \/ Settle(w) \/ Crash(w)
      PROVE  Trade(e)
  BY <1>2, HookTrades, JobTrades, SettleTrades, CrashTrades
<1>3. QED
  BY <1>1, <1>2, ApartTrades, NextCases

(* Inductive: every event's accounts, and what the dispatch knows.         *)
EventInv == Lawful /\ \A e \in Event : TakesCounted(e) /\ AnswersCover(e)

LEMMA EventInit == Init => EventInv
<1> SUFFICES ASSUME Init PROVE EventInv
  OBVIOUS
<1>1. /\ worker = [w \in Worker |-> Free] /\ jobs = <<>> /\ faults = 0
      /\ fed = [e \in Event |-> 0] /\ answered = [e \in Event |-> 0]
  BY DEF Init, StateInit
<1>2. Lawful
  BY <1>1 DEF Lawful, Free
<1>3. ASSUME NEW e \in Event PROVE TakesCounted(e) /\ AnswersCover(e)
  <2>1. Chances(e) \subseteq {<<"hook", e>>}
    BY <1>1 DEF Chances, Taking, Free
  <2>2. Carriers(e) = {}
    BY <1>1 DEF Carriers, Answering, Free
  <2>3. IsFiniteSet({<<"hook", e>>}) /\ Cardinality({<<"hook", e>>}) = 1
    BY FS_Singleton
  <2>4. IsFiniteSet(Chances(e)) /\ Cardinality(Chances(e)) \in Nat /\ Cardinality(Chances(e)) <= 1
    BY <2>1, <2>3, FS_Subset, FS_CardinalityType
  <2>5. IsFiniteSet(Carriers(e)) /\ Cardinality(Carriers(e)) = 0
    BY <2>2, FS_EmptySet
  <2>6. fed[e] = 0 /\ answered[e] = 0
    BY <1>1
  <2>7. QED
    BY <1>1, <2>4, <2>5, <2>6 DEF TakesCounted, AnswersCover
<1>4. QED
  BY <1>2, <1>3 DEF EventInv

LEMMA EventStep == FlowTypes /\ EventInv /\ [Next]_vars => EventInv'
<1> SUFFICES ASSUME FlowTypes, EventInv, [Next]_vars PROVE EventInv'
  OBVIOUS
<1>1. ASSUME NEW e \in Event PROVE TakesCounted(e)' /\ AnswersCover(e)'
  BY TradeStep, TradeCounted DEF EventInv
<1>2. QED
  BY <1>1, LawfulStep DEF EventInv

LEMMA EventInvariant == Spec => []EventInv
  BY EventInit, EventStep, TypesInvariant, PTL DEF Spec

(* Deliveries, handlers that cross, retries and expired locks: an event    *)
(* starts or resumes one run, and one more per fault at most, although     *)
(* stage 1 acts before it writes the event's ledger row.                   *)
THEOREM EventsTakenOnceTheorem == Spec => []EventsTakenOnce
<1>1. FlowTypes /\ EventInv => EventsTakenOnce
  <2> SUFFICES ASSUME FlowTypes, EventInv, NEW e \in Event PROVE fed[e] <= 1 + faults
    BY DEF EventsTakenOnce
  <2>1. IsFiniteSet(Chances(e)) /\ Cardinality(Chances(e)) + fed[e] <= 1 + faults
    BY DEF EventInv, TakesCounted
  <2>2. Cardinality(Chances(e)) \in Nat
    BY <2>1, FS_CardinalityType
  <2>3. fed[e] \in Nat /\ faults \in Nat
    BY CountsKnown
  <2>4. QED
    BY <2>1, <2>2, <2>3
<1>2. QED
  BY <1>1, TypesInvariant, EventInvariant, PTL

(* A reply answers one wait of one run, and one more per fault at most:    *)
(* it travels in one job, and the first wait that it reaches consumes it.  *)
THEOREM RepliesAnswerOnceTheorem == Spec => []RepliesAnswerOnce
<1>1. FlowTypes /\ EventInv => RepliesAnswerOnce
  <2> SUFFICES ASSUME FlowTypes, EventInv, NEW e \in Event PROVE answered[e] <= 1 + faults
    BY DEF RepliesAnswerOnce
  <2>1. /\ IsFiniteSet(Chances(e)) /\ IsFiniteSet(Carriers(e))
        /\ Cardinality(Chances(e)) + Cardinality(Carriers(e)) + answered[e] <= 1 + faults
    BY DEF EventInv, AnswersCover
  <2>2. Cardinality(Chances(e)) \in Nat /\ Cardinality(Carriers(e)) \in Nat
    BY <2>1, FS_CardinalityType
  <2>3. answered[e] \in Nat /\ faults \in Nat
    BY CountsKnown
  <2>4. QED
    BY <2>1, <2>2, <2>3
<1>2. QED
  BY <1>1, TypesInvariant, EventInvariant, PTL

------------------------------------------------------------------------------
(* Who will move a run on                                                  *)

(* A walk goes on with the run its job names.                              *)
Linked ==
    \A w \in Worker :
        worker[w].at \in OnItsWay => JobOf(w).run = RunOf(w)

(* Without a fault nothing throws and every handler holds its job's lock.  *)
Calm ==
    \A w \in Worker :
        /\ worker[w].at \in WalkStep \cup SendStep => worker[w].error = "none"
        /\ worker[w].at \notin {"rethrow", "throttled"}
        /\ worker[w].job # 0 => JobOf(w).bull.state = "active" /\ JobOf(w).bull.owner = w

Needs(r) == runs[r].status = "RUNNING" \/ (runs[r].status = "WAITING" /\ runs[r].wait = "delay")

(* A job of the run that will not pass it by.                              *)
Serves(i, r) ==
    /\ jobs[i].run = r
    /\ runs[r].status = "RUNNING" \/ jobs[i].resume \/ jobs[i].reply # NoEvent

(* A stop under way, a job in the queue, or a handler that has the run.    *)
Queued(r) == \E i \in DOMAIN jobs : jobs[i].bull.state = "waiting" /\ Serves(i, r)

Handled(w, r) ==
    \/ worker[w].at = "load" /\ Serves(worker[w].job, r)
    \/ worker[w].at \in OnItsWay \cup {"feed"} /\ RunOf(w) = r
    \/ worker[w].at = "enqueue" /\ RunOf(w) = r /\ runs[r].status = "RUNNING"

InHands(r) == r \in stops \/ Queued(r) \/ \E w \in Worker : Handled(w, r)

(* Inductive: as long as nothing has failed, whatever run has to go on is  *)
(* in hands that will take it further, not only named by a job: a job that *)
(* finds its run waiting and brings no text passes it by.                  *)
CareInv == faults = 0 => Calm /\ \A r \in DOMAIN runs : Needs(r) => InHands(r)

(* What the steps of a handler do to the jobs: they are only added.        *)
LEMMA ActsJobs ==
    ASSUME FlowTypes, NEW w \in Worker, Acts(w)
    PROVE  /\ \A i \in DOMAIN jobs : i \in DOMAIN jobs' /\ jobs'[i] = jobs[i]
           /\ worker[w].at \in {"feed", "enqueue", "schedule"} =>
                \/ faults' = faults + 1
                \/ \E k \in DOMAIN jobs' :
                     /\ jobs'[k].bull.state = "waiting" /\ jobs'[k].run = RunOf(w)
                     /\ worker[w].at = "feed" => jobs'[k].reply # NoEvent
                     /\ worker[w].at = "schedule" => jobs'[k].resume
<1> USE DEF queueVars
<1>1. QueuesFit /\ RunsFit /\ InHand(worker[w])
  BY HandKnown DEF FlowTypes
<1>2. ASSUME FeedReply(w) \/ EnqueueRun(w) \/ ScheduleResume(w)
      PROVE  /\ \A i \in DOMAIN jobs : i \in DOMAIN jobs' /\ jobs'[i] = jobs[i]
             /\ \E k \in DOMAIN jobs' :
                  /\ jobs'[k].bull.state = "waiting" /\ jobs'[k].run = RunOf(w)
                  /\ worker[w].at = "feed" => jobs'[k].reply # NoEvent
                  /\ worker[w].at = "schedule" => jobs'[k].resume
  <2>1. worker[w].run \in DOMAIN runs /\ (worker[w].at = "feed" => EventOf(w) \in Event)
    BY <1>1, <1>2 DEF InHand, DispatchStep, OnItsWay, WalkStep, EventOf, Awaits, FeedReply,
       EnqueueRun, ScheduleResume
  <2>2. PICK resume \in BOOLEAN, reply \in Event \cup {NoEvent} :
          /\ AddJob(worker[w].run, resume, reply)
          /\ worker[w].at = "feed" => reply # NoEvent
          /\ worker[w].at = "schedule" => resume
    BY <1>2, <2>1, CountsKnown DEF FeedReply, EnqueueRun, ScheduleResume, RunOf, Awaits
  <2>3. PICK k : k = Len(jobs) + 1
    OBVIOUS
  <2>4. /\ DOMAIN jobs' = DOMAIN jobs \cup {k}
        /\ jobs'[k].run = worker[w].run /\ jobs'[k].resume = resume /\ jobs'[k].reply = reply
        /\ jobs'[k].bull.state = "waiting"
        /\ \A i \in DOMAIN jobs : jobs'[i] = jobs[i]
    BY <1>1, <2>1, <2>2, <2>3, JobAdded
  <2>5. QED
    BY <2>2, <2>4 DEF RunOf
<1>3. ASSUME ~ FeedReply(w), ~ EnqueueRun(w), ~ ScheduleResume(w)
      PROVE  /\ jobs' = jobs
             /\ worker[w].at \in {"feed", "enqueue", "schedule"} => faults' = faults + 1
  <2>1. CASE DispatchProgress(w)
    BY <1>3, <2>1 DEF DispatchProgress, Dedup, Resolve, RecordProcessed, Unsubscribe,
       FindWaitingRun, ExpireRun, AwakenRun, MatchWorkflow, CreateRun, Awaits
  <2>2. CASE WalkProgress(w)
    BY <1>3, <2>2 DEF WalkProgress, LoadRun, LoadAccount, WakeRun, Advance, Pause, BeginDelay,
       SaveContactField, ApplyAction, NotifyHandoff, ParkRun, CompleteRun, Awaits
  <2>3. CASE SendProgress(w)
    <3>1. worker[w].at \in SendStep
      BY <2>3 DEF SendProgress, CheckConsent, CheckContactCap, GetDmQuota, IncrementDmUsage,
         DecrementDmUsage, FindNotice, CreateNotice, SendDm, FlagAccount, RecordDm, Awaits,
         SendStep
    <3>2. QED
      BY <2>3, <3>1, SendGrows DEF SendStep
  <2>4. CASE SendDmFails(w) \/ Throw(w)
    BY <2>4 DEF SendDmFails, Throw, Fault
  <2>5. QED
    BY <2>1, <2>2, <2>3, <2>4 DEF Acts
<1>4. QED
  BY <1>2, <1>3

(* A handler only adds to the stops under way.                             *)
LEMMA ActsStops ==
    ASSUME FlowTypes, NEW w \in Worker, Acts(w)
    PROVE  stops \subseteq stops'
<1>1. CASE DispatchProgress(w)
  BY <1>1 DEF DispatchProgress, Dedup, Resolve, RecordProcessed, Unsubscribe, FindWaitingRun,
     ExpireRun, AwakenRun, FeedReply, MatchWorkflow, CreateRun, EnqueueRun, runVars
<1>2. CASE SendDmFails(w)
  BY <1>2 DEF SendDmFails, runVars
<1>3. CASE WalkProgress(w) \/ SendProgress(w) \/ Throw(w)
  BY <1>3, StopsOwnRun
<1>4. QED
  BY <1>1, <1>2, <1>3 DEF Acts

(* A walk keeps to its run.                                                *)
LEMMA ActsStay ==
    ASSUME FlowTypes, NEW w \in Worker, Acts(w), worker[w].at \in OnItsWay \cup {"awaken"}
    PROVE  worker'[w].run = worker[w].run
<1>1. /\ worker \in [Worker -> WorkerState] /\ InHand(worker[w]) /\ QuotaTypeOK
      /\ worker[w].at \in SendStep => worker[w].doing # "none"
      /\ worker[w].at \in OnItsWay => worker[w].graph \in Graph
  BY HandKnown DEF FlowTypes, InHand
<1>2. ASSUME NEW step \in Step, Goto(w, step) PROVE worker'[w].run = worker[w].run
  BY <1>1, <1>2, GotoMoves DEF Stays
<1>3. ASSUME NEW ok \in BOOLEAN, Return(w, ok), worker[w].at \in SendStep
      PROVE  worker'[w].run = worker[w].run
  BY <1>1, <1>3, SendReturns DEF Stays
<1>4. {"feed", "finish", "wake", "schedule", "park", "cap", "quota", "reserve", "release", "send",
       "notice", "dmRow", "flag", "throttled", "rethrow"} \subseteq Step
  BY DEF Step, DispatchStep, WalkStep, SendStep, Settling
<1>5. CASE DispatchProgress(w)
  BY <1>2, <1>4, <1>5 DEF DispatchProgress, Dedup, Resolve, RecordProcessed, Unsubscribe,
     FindWaitingRun, ExpireRun, AwakenRun, FeedReply, MatchWorkflow, CreateRun, EnqueueRun,
     Awaits, OnItsWay, WalkStep, SendStep
<1>6. CASE SaveContactField(w) \/ ApplyAction(w)
  BY <1>1, <1>6, ContactSet
<1>7. CASE LoadAccount(w) \/ WakeRun(w) \/ Advance(w)
  <2>1. worker[w].at \in OnItsWay
    BY <1>7 DEF LoadAccount, WakeRun, Advance, Awaits, OnItsWay, WalkStep
  <2>2. worker[w].node \in Node \cup {NoNode} /\ Targets(w) \subseteq Node \cup {NoNode}
    BY <1>1, <2>1, TargetsAreNodes DEF Targets, WorkerState
  <2>3. \/ Goto(w, "finish") \/ Goto(w, "wake")
        \/ \E n \in Node \cup {NoNode} : WalkOn(w, worker[w], n)
    BY <1>7, <2>2 DEF LoadAccount, WakeRun, Advance
  <2>4. QED
    BY <1>1, <1>2, <1>4, <2>1, <2>3, WalkLands
<1>8. CASE WalkProgress(w) /\ ~ (\/ SaveContactField(w) \/ ApplyAction(w) \/ LoadAccount(w)
                                 \/ WakeRun(w) \/ Advance(w))
  <2>1. ~ LoadRun(w)
    BY DEF LoadRun, Awaits, OnItsWay, WalkStep, SendStep
  <2>2. \E step \in {"finish", "schedule", "park"} : Goto(w, step)
    BY <1>8, <2>1 DEF WalkProgress, Pause, BeginDelay, ScheduleResume, NotifyHandoff, ParkRun,
       CompleteRun
  <2>3. QED
    BY <1>2, <1>4, <2>2
<1>9. CASE DecrementDmUsage(w)
  <2>1. worker[w].at \in SendStep
    BY <1>9 DEF DecrementDmUsage, Awaits, SendStep
  <2>2. QED
    BY <1>1, <1>2, <1>3, <1>4, <1>9, <2>1, SlotReturned DEF Stays
<1>10. CASE SendProgress(w) /\ ~ DecrementDmUsage(w)
  <2>1. worker[w].at \in SendStep
    BY <1>10 DEF SendProgress, CheckConsent, CheckContactCap, GetDmQuota, IncrementDmUsage,
       FindNotice, CreateNotice, SendDm, FlagAccount, RecordDm, Awaits, SendStep
  <2>2. \/ \E step \in {"cap", "quota", "reserve", "release", "send", "notice", "dmRow"} :
             Goto(w, step)
        \/ Return(w, FALSE) \/ Return(w, TRUE)
    BY <1>10 DEF SendProgress, CheckConsent, CheckContactCap, GetDmQuota, IncrementDmUsage,
       FindNotice, CreateNotice, SendDm, FlagAccount, RecordDm
  <2>3. QED
    BY <1>2, <1>3, <1>4, <2>1, <2>2
<1>11. CASE SendDmFails(w)
  BY <1>1, <1>11, ErrorCaught DEF SendDmFails, Stays
<1>12. CASE Throw(w)
  BY <1>2, <1>3, <1>4, <1>12 DEF Throw, Awaits, SendStep
<1>13. QED
  BY <1>5, <1>6, <1>7, <1>8, <1>9, <1>10, <1>11, <1>12 DEF Acts

(* The updates that leave a run to nobody.                                 *)
LEMMA RunSettles ==
    ASSUME FlowTypes, NEW w \in Worker,
           Pause(w) \/ ParkRun(w) \/ CompleteRun(w) \/ ExpireRun(w),
           NEW r, r = RunOf(w)
    PROVE  /\ ~ Needs(r)'
           /\ DOMAIN runs' = DOMAIN runs
           /\ \A q \in DOMAIN runs \ {r} : runs'[q] = runs[q]
<1>1. r \in DOMAIN runs /\ runs[r] \in Run
  BY HandKnown DEF Pause, ParkRun, CompleteRun, ExpireRun, Awaits, InHand, OnItsWay, WalkStep,
     RunOf
<1>2. PICK row :
        /\ runs' = [runs EXCEPT ![r] = row]
        /\ \/ row = [runs[r] EXCEPT !.status = "WAITING", !.node = worker[w].node,
                        !.wait = "reply", !.lapsed = FALSE, !.vars = worker[w].vars]
           \/ row = [runs[r] EXCEPT !.status = "HANDOFF", !.node = worker[w].node,
                        !.vars = worker[w].vars]
           \/ row = [runs[r] EXCEPT !.status = "COMPLETED", !.node = NoNode,
                        !.vars = worker[w].vars]
           \/ row = [runs[r] EXCEPT !.status = "CANCELED"]
  BY DEF Pause, ParkRun, CompleteRun, ExpireRun, UpdateRun, RunOf
<1>3. row.status \notin {"RUNNING", "WAITING"} \/ (row.status = "WAITING" /\ row.wait = "reply")
  BY <1>1, <1>2 DEF Run
<1>4. runs'[r] = row
  BY <1>1, <1>2
<1>5. QED
  BY <1>2, <1>3, <1>4 DEF Needs

(* What they do to the runs: a run that its handler does not leave to      *)
(* others is one that needs nobody.                                        *)
LEMMA ActsRuns ==
    ASSUME FlowTypes, NEW w \in Worker, Acts(w)
    PROVE  /\ \A r \in DOMAIN runs :
                /\ r \in DOMAIN runs'
                /\ \/ runs'[r].status = runs[r].status /\ runs'[r].wait = runs[r].wait
                   \/ /\ r = RunOf(w)
                      /\ ~ Needs(r)' \/ worker[w].at \in {"awaken", "wake", "delay"}
           /\ \A r \in DOMAIN runs' \ DOMAIN runs :
                /\ worker'[w].at = "enqueue" /\ worker'[w].run = r
                /\ runs'[r].status = "RUNNING"
<1>1. /\ worker \in [Worker -> WorkerState] /\ InHand(worker[w]) /\ RunsFit
      /\ \A r \in DOMAIN runs : runs[r] \in Run
  BY HandKnown DEF FlowTypes
<1> DEFINE Kept(r) == runs'[r].status = runs[r].status /\ runs'[r].wait = runs[r].wait
           Turned(r) == r = RunOf(w)
                        /\ (~ Needs(r)' \/ worker[w].at \in {"awaken", "wake", "delay"})
           Same == (\A r \in DOMAIN runs : r \in DOMAIN runs' /\ (Kept(r) \/ Turned(r)))
                   /\ DOMAIN runs' = DOMAIN runs
<1>2. ASSUME runs' = runs PROVE Same
  BY <1>2
<1>3. ASSUME Pause(w) \/ ParkRun(w) \/ CompleteRun(w) \/ ExpireRun(w) PROVE Same
  BY <1>3, RunSettles
<1>4. ASSUME WakeRun(w) \/ AwakenRun(w) \/ BeginDelay(w) PROVE Same
  <2>1. \E row : runs' = [runs EXCEPT ![RunOf(w)] = row]
    BY <1>4 DEF WakeRun, AwakenRun, BeginDelay, UpdateRun, RunOf
  <2>2. worker[w].at \in {"awaken", "wake", "delay"}
    BY <1>4 DEF WakeRun, AwakenRun, BeginDelay, Awaits
  <2>3. QED
    BY <2>1, <2>2
<1>5. ASSUME Advance(w) PROVE Same
  <2>1. PICK q : q = RunOf(w)
    OBVIOUS
  <2>2. q \in DOMAIN runs /\ runs[q] \in Run
    BY <1>1, <1>5, <2>1 DEF Advance, Awaits, InHand, OnItsWay, WalkStep, RunOf
  <2>3. PICK n : runs' = [runs EXCEPT ![q] = [runs[q] EXCEPT !.node = n, !.vars = worker[w].vars]]
    BY <1>5, <2>1 DEF Advance, UpdateRun, RunOf
  <2>4. PICK row : row = [runs[q] EXCEPT !.node = n, !.vars = worker[w].vars]
    OBVIOUS
  <2>5. row.status = runs[q].status /\ row.wait = runs[q].wait
    BY <2>2, <2>4 DEF Run
  <2>6. QED
    BY <2>2, <2>3, <2>4, <2>5
<1>6. ASSUME CreateRun(w)
      PROVE  /\ \A r \in DOMAIN runs : r \in DOMAIN runs' /\ Kept(r)
             /\ \A r \in DOMAIN runs' \ DOMAIN runs :
                  /\ worker'[w].at = "enqueue" /\ worker'[w].run = r
                  /\ runs'[r].status = "RUNNING"
  <2>1. PICK k : k = Len(runs) + 1
    OBVIOUS
  <2>2. /\ DOMAIN runs' = DOMAIN runs \cup {k} /\ runs'[k].status = "RUNNING"
        /\ \A r \in DOMAIN runs : runs'[r] = runs[r]
    BY <1>6, <2>1, RunCreated
  <2>3. worker'[w].at = "enqueue" /\ worker'[w].run = k
    BY <1>1, <1>6, <2>1, RunMade DEF Moves, RunsFit
  <2>4. QED
    BY <2>2, <2>3
<1>7. CASE DispatchProgress(w) /\ ~ CreateRun(w)
  <2>1. ExpireRun(w) \/ AwakenRun(w) \/ runs' = runs
    BY <1>7 DEF DispatchProgress, Dedup, Resolve, RecordProcessed, Unsubscribe,
       FindWaitingRun, FeedReply, MatchWorkflow, EnqueueRun, runVars
  <2>2. QED
    BY <1>2, <1>3, <1>4, <2>1
<1>8. CASE WalkProgress(w)
  <2>1. \/ WakeRun(w) \/ Advance(w) \/ Pause(w) \/ BeginDelay(w) \/ ParkRun(w) \/ CompleteRun(w)
        \/ runs' = runs
    BY <1>8 DEF WalkProgress, LoadRun, LoadAccount, ScheduleResume, SaveContactField,
       ApplyAction, NotifyHandoff, runVars
  <2>2. QED
    BY <1>2, <1>3, <1>4, <1>5, <2>1
<1>9. CASE SendProgress(w) \/ SendDmFails(w) \/ Throw(w)
  BY <1>2, <1>9, SendGrows DEF SendDmFails, Throw, runVars
<1>10. QED
  BY <1>6, <1>7, <1>8, <1>9 DEF Acts

(* A walk that ends has stopped its run, settled it, or added the job that *)
(* takes it up again.                                                      *)
LEMMA WalkEnds ==
    ASSUME FlowTypes, Calm, NEW w \in Worker, Acts(w), faults' = faults,
           worker[w].at \in OnItsWay, worker'[w].at \notin OnItsWay, NEW r, r = RunOf(w)
    PROVE  worker[w].at = "schedule" \/ r \in stops' \/ ~ Needs(r)'
<1> USE DEF OnItsWay
<1>1. /\ worker \in [Worker -> WorkerState] /\ worker[w] \in WorkerState
      /\ InHand(worker[w]) /\ QuotaTypeOK
      /\ worker[w].graph \in Graph
      /\ worker[w].at \in SendStep => worker[w].doing # "none"
      /\ faults \in Nat /\ worker[w].error = "none"
  BY HandKnown, CountsKnown DEF FlowTypes, InHand, Calm
<1> DEFINE Ends == worker[w].at = "schedule" \/ r \in stops' \/ ~ Needs(r)'
<1>2. ASSUME NEW step \in OnItsWay, Goto(w, step) PROVE FALSE
  BY <1>1, <1>2, GotoMoves DEF Moves, Step
<1>3. ASSUME NEW ok \in BOOLEAN, Return(w, ok), worker[w].at \in SendStep PROVE Ends
  <2>1. /\ worker'[w].at \in {"advance", "pause", "finish"}
        /\ worker'[w].at = "finish" => stops' = stops \cup {r}
    BY <1>1, <1>3, SendReturns DEF Moves, RunOf
  <2>2. QED
    BY <2>1 DEF WalkStep
<1>4. CASE LoadAccount(w) \/ WakeRun(w) \/ Advance(w)
  <2>1. worker[w].node \in Node \cup {NoNode} /\ Targets(w) \subseteq Node \cup {NoNode}
    BY <1>1, TargetsAreNodes DEF Targets, WorkerState
  <2>2. \/ stops' = stops \cup {r} \/ Goto(w, "wake")
        \/ \E n \in Node \cup {NoNode} : WalkOn(w, worker[w], n)
    BY <1>4, <2>1 DEF LoadAccount, WakeRun, Advance, RunOf
  <2>3. ASSUME NEW n \in Node \cup {NoNode}, WalkOn(w, worker[w], n) PROVE Ends
    <3>1. /\ Landing(worker[w], n, worker'[w])
          /\ stops' = IF Missing(worker[w], n) THEN stops \cup {r} ELSE stops
      BY <1>1, <2>3, WalkLands DEF RunOf
    <3>2. worker'[w].at = "finish"
      BY <3>1 DEF Landing, WalkStep, SendStep
    <3>3. QED
      BY <3>1, <3>2 DEF Landing
  <2>4. QED
    BY <1>2, <2>2, <2>3 DEF WalkStep
<1>5. CASE Pause(w) \/ ParkRun(w) \/ CompleteRun(w)
  BY <1>5, RunSettles
<1>6. CASE BeginDelay(w) \/ NotifyHandoff(w)
  BY <1>2, <1>6 DEF BeginDelay, NotifyHandoff, WalkStep
<1>7. CASE SaveContactField(w) \/ ApplyAction(w)
  BY <1>1, <1>7, ContactSet DEF WalkStep
<1>8. CASE LoadRun(w) \/ ScheduleResume(w) \/ DispatchProgress(w)
  BY <1>8 DEF LoadRun, ScheduleResume, DispatchProgress, Dedup, Resolve, RecordProcessed,
     Unsubscribe, FindWaitingRun, ExpireRun, AwakenRun, FeedReply, MatchWorkflow, CreateRun,
     EnqueueRun, Awaits, WalkStep, SendStep
<1>9. CASE DecrementDmUsage(w)
  <2>1. worker[w].at \in SendStep
    BY <1>9 DEF DecrementDmUsage, Awaits, SendStep
  <2>2. ~ Moves(w, "findNotice")
    BY DEF Moves, SendStep
  <2>3. QED
    BY <1>1, <1>2, <1>3, <1>9, <2>1, <2>2, SlotReturned DEF SendStep
<1>10. CASE SendProgress(w) /\ ~ DecrementDmUsage(w)
  <2>1. worker[w].at \in SendStep
    BY <1>10 DEF SendProgress, CheckConsent, CheckContactCap, GetDmQuota, IncrementDmUsage,
       FindNotice, CreateNotice, SendDm, FlagAccount, RecordDm, Awaits, SendStep
  <2>2. \/ \E step \in {"cap", "quota", "reserve", "release", "send", "notice", "dmRow"} :
             Goto(w, step)
        \/ Return(w, FALSE) \/ Return(w, TRUE)
    BY <1>10 DEF SendProgress, CheckConsent, CheckContactCap, GetDmQuota, IncrementDmUsage,
       FindNotice, CreateNotice, SendDm, FlagAccount, RecordDm
  <2>3. QED
    BY <1>2, <1>3, <2>1, <2>2 DEF SendStep
<1>11. CASE SendDmFails(w) \/ Throw(w)
  <2>1. faults' = faults + 1
    BY <1>11 DEF SendDmFails, Throw, Fault
  <2>2. QED
    BY <1>1, <2>1
<1>12. QED
  BY <1>4, <1>5, <1>6, <1>7, <1>8, <1>9, <1>10, <1>11 DEF Acts, WalkProgress

(* Jobs keep what they were added with.                                    *)
LEMMA JobsKept ==
    ASSUME FlowTypes, [Next]_vars
    PROVE  \A i \in DOMAIN jobs :
             /\ i \in DOMAIN jobs' /\ jobs'[i].run = jobs[i].run
             /\ jobs'[i].resume = jobs[i].resume /\ jobs'[i].reply = jobs[i].reply
<1> USE DEF queueVars
<1> DEFINE Same == \A i \in DOMAIN jobs :
                     /\ i \in DOMAIN jobs' /\ jobs'[i].run = jobs[i].run
                     /\ jobs'[i].resume = jobs[i].resume /\ jobs'[i].reply = jobs[i].reply
<1>1. QueuesFit
  BY DEF FlowTypes
<1>2. ASSUME jobs' = jobs PROVE Same
  BY <1>2
<1>3. ASSUME NEW i \in DOMAIN jobs, NEW b \in OwnedJob, jobs' = [jobs EXCEPT ![i].bull = b]
      PROVE  Same
  BY <1>1, <1>3, JobUpdated
<1>4. ASSUME NEW w \in Worker, Acts(w) PROVE Same
  BY <1>4, ActsJobs
<1>5. ASSUME NEW w \in Worker, NEW i \in DOMAIN jobs, TakeJob(w, i) PROVE Same
  <2>1. PICK b \in OwnedJob : b = Bull!Taken(jobs[i].bull, w)
    BY <1>1, JobSteps DEF QueuesFit
  <2>2. jobs' = [jobs EXCEPT ![i].bull = b]
    BY <1>5, <2>1 DEF TakeJob
  <2>3. QED
    BY <1>3, <2>2
<1>6. ASSUME NEW w \in Worker, Settle(w) PROVE Same
  <2>1. CASE worker[w].job = 0
    BY <1>2, <1>6, <2>1 DEF Settle
  <2>2. CASE worker[w].job # 0
    <3>1. PICK i \in DOMAIN jobs : i = worker[w].job
      BY <1>6, <2>2, HandKnown DEF Settle, InHand
    <3>2. jobs[i].bull \in OwnedJob /\ worker[w].at \in Settling
      BY <1>1, <1>6 DEF QueuesFit, Settle
    <3>3. PICK b \in OwnedJob : b = Settled(w, jobs[i].bull, WorkflowAttempts)
      BY <3>2, JobSteps DEF Settled, Settling, Awaits
    <3>4. jobs' = [jobs EXCEPT ![i].bull = b]
      BY <1>6, <2>2, <3>1, <3>3 DEF Settle
    <3>5. QED
      BY <1>3, <3>4
  <2>3. QED
    BY <2>1, <2>2
<1>7. ASSUME NEW i \in DOMAIN jobs, RecoverJob(i) PROVE Same
  <2>1. PICK b \in OwnedJob : b = Bull!Stalled(jobs[i].bull)
    BY <1>1, JobSteps DEF QueuesFit
  <2>2. jobs' = [jobs EXCEPT ![i].bull = b]
    BY <1>7, <2>1 DEF RecoverJob
  <2>3. QED
    BY <1>3, <2>2
<1>8. ASSUME NEW w \in Worker, (\E e \in Event : TakeHook(w, e)) \/ Crash(w) PROVE Same
  BY <1>2, <1>8 DEF TakeHook, Crash
<1>9. ASSUME Apart, ~ \E i \in DOMAIN jobs : RecoverJob(i) PROVE Same
  BY <1>2, <1>9 DEF Apart, Deliver, Evict, Recover, StopRun, LoseStop, WaitLapses, ChangeWorkflow,
     ChangeTenant, vars
<1>10. QED
  BY <1>4, <1>5, <1>6, <1>7, <1>8, <1>9, NextCases

(* A handler that holds a job and no run yet can only load the run.        *)
LEMMA AtLoad ==
    ASSUME NEW w \in Worker, Acts(w), worker[w].at = "load"
    PROVE  LoadRun(w) \/ Throw(w)
  BY DEF Acts, DispatchProgress, Dedup, Resolve, RecordProcessed, Unsubscribe, FindWaitingRun,
     ExpireRun, AwakenRun, FeedReply, MatchWorkflow, CreateRun, EnqueueRun, WalkProgress,
     LoadAccount, WakeRun, Advance, Pause, BeginDelay, ScheduleResume, SaveContactField,
     ApplyAction, NotifyHandoff, ParkRun, CompleteRun, SendProgress, CheckConsent,
     CheckContactCap, GetDmQuota, IncrementDmUsage, DecrementDmUsage, FindNotice, CreateNotice,
     SendDm, SendDmFails, FlagAccount, RecordDm, Awaits

LEMMA LinkedStep == FlowTypes /\ Linked /\ [Next]_vars => Linked'
<1> SUFFICES ASSUME FlowTypes, Linked, [Next]_vars PROVE Linked'
  OBVIOUS
<1> DEFINE Fine(w) == worker[w].at \in OnItsWay => JobOf(w).run = RunOf(w)
<1>1. \A i \in DOMAIN jobs : jobs'[i].run = jobs[i].run
  BY JobsKept
<1>2. \A v \in Worker : worker[v].at \in OnItsWay => worker[v].job \in DOMAIN jobs
  BY HandKnown DEF InHand, OnItsWay
<1>3. ASSUME NEW v \in Worker, worker'[v].run = worker[v].run, worker'[v].job = worker[v].job,
             worker[v].at \in OnItsWay
      PROVE  Fine(v)'
  BY <1>1, <1>2, <1>3 DEF Linked, JobOf, RunOf
<1>4. ASSUME NEW v \in Worker, worker'[v].at = worker[v].at, worker'[v].run = worker[v].run,
             worker'[v].job = worker[v].job
      PROVE  Fine(v)'
  BY <1>3, <1>4
<1>5. ASSUME NEW w \in Worker, \A v \in Worker \ {w} : worker'[v] = worker[v],
             worker'[w].at \notin OnItsWay
      PROVE  Linked'
  BY <1>4, <1>5 DEF Linked
<1>6. CASE Apart
  BY <1>4, <1>6, ApartKeeps DEF Linked
<1>7. ASSUME NEW w \in Worker,
             \/ \E e \in Event : TakeHook(w, e)
             \/ \E i \in DOMAIN jobs : TakeJob(w, i)
             \/ Settle(w) \/ Crash(w)
      PROVE  Linked'
  <2>1. /\ \A v \in Worker \ {w} : worker'[v] = worker[v]
        /\ worker'[w].at \in {"dedup", "load", "idle"}
    <3>1. worker \in [Worker -> WorkerState] /\ \A i \in DOMAIN jobs : i \in Nat
      BY HandKnown, LenProperties DEF FlowTypes, QueuesFit
    <3>2. QED
      BY <1>7, <3>1, HookTaken, JobTaken, HandlerEnds DEF Aside, Free
  <2>2. QED
    BY <1>5, <2>1 DEF OnItsWay, WalkStep, SendStep
<1>8. ASSUME NEW w \in Worker, Acts(w) PROVE Linked'
  <2>1. (\A v \in Worker \ {w} : Unmoved(v)) /\ worker'[w].job = worker[w].job
    BY <1>8, ActsAside
  <2>2. \A v \in Worker \ {w} : Fine(v)'
    BY <1>4, <2>1 DEF Unmoved
  <2>3. CASE worker[w].at \in OnItsWay
    BY <1>3, <1>8, <2>1, <2>2, <2>3, ActsStay DEF Linked
  <2>4. CASE worker[w].at \notin OnItsWay
    <3>1. CASE LoadRun(w)
      <4>1. /\ worker \in [Worker -> WorkerState] /\ runs \in Seq(Run) /\ jobs \in Seq(FlowJob)
            /\ \A f \in Workflow : flow[f].graph \in Graph
            /\ worker[w].job \in DOMAIN jobs /\ JobOf(w).run \in DOMAIN runs
        <5>1. worker[w].job \in DOMAIN jobs
          BY <3>1, HandKnown DEF LoadRun, Awaits, InHand, WalkStep
        <5>2. QED
          BY <5>1, HandKnown DEF FlowTypes, RunsFit, QueuesFit, JobOf
      <4>2. worker'[w].at = "finish" \/ worker'[w].run = JobOf(w).run
        BY <3>1, <4>1, RunLoaded DEF Moves
      <4>3. Fine(w)'
        BY <1>1, <2>1, <4>1, <4>2 DEF JobOf, RunOf, OnItsWay, WalkStep, SendStep
      <4>4. QED
        BY <2>2, <4>3 DEF Linked
    <3>2. CASE ~ LoadRun(w)
      <4>1. ~ SaveContactField(w) /\ ~ ApplyAction(w)
        BY <2>4 DEF SaveContactField, ApplyAction, Awaits, OnItsWay, WalkStep
      <4>2. PICK step \in Step : Onward(w, step)
        BY <1>8, <4>1, ActsOnward
      <4>3. worker'[w].at = step /\ step \in Follows(worker[w].at) \cup {"rethrow"}
            /\ worker[w].at \in DispatchStep \cup {"load"}
        BY <2>4, <4>2, HandKnown DEF Onward, Moves, WorkerState, OnItsWay
      <4>4. CASE worker[w].at \in DispatchStep
        <5>1. step \notin OnItsWay
          BY <4>3, <4>4 DEF Follows, DispatchStep, OnItsWay, WalkStep, SendStep
        <5>2. QED
          BY <2>2, <4>3, <5>1 DEF Linked
      <4>5. CASE worker[w].at = "load"
        <5>1. Throw(w)
          BY <1>8, <3>2, <4>5, AtLoad
        <5>2. Goto(w, "rethrow")
          BY <4>5, <5>1 DEF Throw, Awaits
        <5>3. worker'[w].at = "rethrow"
          BY <5>2, GotoMoves, HandKnown DEF Moves, Step, Settling
        <5>4. QED
          BY <2>2, <5>3 DEF Linked, OnItsWay, WalkStep, SendStep
      <4>6. QED
        BY <4>3, <4>4, <4>5
    <3>3. QED
      BY <3>1, <3>2
  <2>5. QED
    BY <2>3, <2>4
<1>9. QED
  BY <1>6, <1>7, <1>8, NextCases

(* Faults are counted one by one.                                          *)
LEMMA FaultFree ==
    ASSUME FlowTypes, [Next]_vars, faults' = 0
    PROVE  faults = 0
<1>1. faults \in Nat
  BY CountsKnown
<1>2. ASSUME faults' = faults \/ faults' = faults + 1 PROVE faults = 0
  BY <1>1, <1>2
<1>3. ASSUME NEW w \in Worker, Acts(w) PROVE faults' = faults \/ faults' = faults + 1
  <2>1. ASSUME DispatchProgress(w) PROVE faults' = faults
    BY <2>1 DEF DispatchProgress, Dedup, Resolve, RecordProcessed, Unsubscribe, FindWaitingRun,
       ExpireRun, AwakenRun, FeedReply, MatchWorkflow, CreateRun, EnqueueRun, budgetVars
  <2>2. ASSUME WalkProgress(w) PROVE faults' = faults
    BY <2>2 DEF WalkProgress, LoadRun, LoadAccount, WakeRun, Advance, Pause, BeginDelay,
       ScheduleResume, SaveContactField, ApplyAction, NotifyHandoff, ParkRun, CompleteRun,
       budgetVars
  <2>3. CASE SendProgress(w)
    BY <2>3 DEF SendProgress, CheckConsent, CheckContactCap, GetDmQuota, IncrementDmUsage,
       DecrementDmUsage, FindNotice, CreateNotice, SendDm, FlagAccount, RecordDm, budgetVars
  <2>4. CASE SendDmFails(w) \/ Throw(w)
    BY <2>4 DEF SendDmFails, Throw, Fault
  <2>5. QED
    BY <1>3, <2>1, <2>2, <2>3, <2>4 DEF Acts
<1>4. ASSUME NEW w \in Worker,
             \/ \E e \in Event : TakeHook(w, e)
             \/ \E i \in DOMAIN jobs : TakeJob(w, i)
             \/ Settle(w) \/ Crash(w)
      PROVE  faults' = faults \/ faults' = faults + 1
  BY <1>4 DEF TakeHook, TakeJob, Settle, Crash, Fault, budgetVars
<1>5. ASSUME Apart PROVE faults' = faults \/ faults' = faults + 1
  BY <1>5 DEF Apart, Deliver, Evict, Recover, RecoverJob, StopRun, LoseStop, WaitLapses,
     ChangeWorkflow, ChangeTenant, vars, Fault, Edit, budgetVars
<1>6. QED
  BY <1>2, <1>3, <1>4, <1>5, NextCases

(* What a step without a fault does to the lock of a job: it is given to   *)
(* an idle handler, or its holder gives it back.                           *)
LEMMA LocksStay ==
    ASSUME FlowTypes, Calm, [Next]_vars, faults = 0, faults' = 0,
           NEW v \in Worker, worker'[v].job = worker[v].job,
           worker[v].job # 0, ~ Settle(v)
    PROVE  JobOf(v)'.bull.state = "active" /\ JobOf(v)'.bull.owner = v
<1> USE DEF queueVars
<1> PICK j : j = worker[v].job
  OBVIOUS
<1>1. /\ j \in DOMAIN jobs /\ jobs[j].bull.state = "active" /\ jobs[j].bull.owner = v
      /\ QueuesFit
  BY HandKnown DEF InHand, Calm, JobOf, WorkerState, Free, OnItsWay, FlowTypes
<1> SUFFICES jobs'[j].bull = jobs[j].bull
  BY <1>1 DEF JobOf
<1>2. ASSUME NEW i \in DOMAIN jobs, i # j, NEW b \in OwnedJob, jobs' = [jobs EXCEPT ![i].bull = b]
      PROVE  jobs'[j].bull = jobs[j].bull
  BY <1>1, <1>2, JobUpdated
<1>3. ASSUME NEW w \in Worker, Acts(w) PROVE jobs'[j].bull = jobs[j].bull
  BY <1>1, <1>3, ActsJobs
<1>4. ASSUME NEW w \in Worker, NEW i \in DOMAIN jobs, TakeJob(w, i)
      PROVE  jobs'[j].bull = jobs[j].bull
  <2>1. i # j
    BY <1>1, <1>4 DEF TakeJob
  <2>2. PICK b \in OwnedJob : b = Bull!Taken(jobs[i].bull, w)
    BY <1>1, <1>4, JobSteps DEF QueuesFit
  <2>3. jobs' = [jobs EXCEPT ![i].bull = b]
    BY <1>4, <2>2 DEF TakeJob
  <2>4. QED
    BY <1>2, <2>1, <2>3
<1>5. ASSUME NEW w \in Worker, Settle(w) PROVE jobs'[j].bull = jobs[j].bull
  <2>1. CASE worker[w].job = 0
    BY <1>5, <2>1 DEF Settle
  <2>2. CASE worker[w].job # 0
    <3>1. PICK i \in DOMAIN jobs : i = worker[w].job
      BY <1>5, <2>2, HandKnown DEF Settle, InHand
    <3>2. jobs[i].bull.owner = w /\ jobs[i].bull \in OwnedJob /\ worker[w].at \in Settling
      BY <1>1, <1>5, <2>2, <3>1 DEF Calm, JobOf, QueuesFit, Settle
    <3>3. w # v /\ i # j
      BY <1>1, <1>5, <3>2
    <3>4. PICK b \in OwnedJob : b = Settled(w, jobs[i].bull, WorkflowAttempts)
      BY <3>2, JobSteps DEF Settled, Settling, Awaits
    <3>5. jobs' = [jobs EXCEPT ![i].bull = b]
      BY <1>5, <2>2, <3>1, <3>4 DEF Settle
    <3>6. QED
      BY <1>2, <3>3, <3>5
  <2>3. QED
    BY <2>1, <2>2
<1>6. ASSUME NEW i \in DOMAIN jobs, RecoverJob(i) PROVE jobs'[j].bull = jobs[j].bull
  <2>1. ~ Fault
    BY DEF Fault
  <2>2. i # j
    BY <1>1, <1>6, <2>1 DEF RecoverJob
  <2>3. PICK b \in OwnedJob : b = Bull!Stalled(jobs[i].bull)
    BY <1>1, JobSteps DEF QueuesFit
  <2>4. jobs' = [jobs EXCEPT ![i].bull = b]
    BY <1>6, <2>3 DEF RecoverJob
  <2>5. QED
    BY <1>2, <2>2, <2>4
<1>7. ASSUME NEW w \in Worker, (\E e \in Event : TakeHook(w, e)) \/ Crash(w)
      PROVE  jobs'[j].bull = jobs[j].bull
  BY <1>7 DEF TakeHook, Crash
<1>8. ASSUME Apart, ~ \E i \in DOMAIN jobs : RecoverJob(i) PROVE jobs'[j].bull = jobs[j].bull
  BY <1>8 DEF Apart, Deliver, Evict, Recover, StopRun, LoseStop, WaitLapses, ChangeWorkflow,
     ChangeTenant, vars
<1>9. QED
  BY <1>3, <1>4, <1>5, <1>6, <1>7, <1>8, NextCases

(* The two steps that write the contact of a walk.                         *)
LEMMA ContactStep ==
    ASSUME NEW w
    PROVE  /\ SaveContactField(w) => worker[w].at = "save"
           /\ ApplyAction(w) => worker[w].at = "setContact"
<1>1. ASSUME SaveContactField(w) PROVE worker[w].at = "save"
  BY <1>1 DEF SaveContactField, Awaits
<1>2. ASSUME ApplyAction(w) PROVE worker[w].at = "setContact"
  BY <1>2 DEF ApplyAction, Awaits
<1>3. QED
  BY <1>1, <1>2

(* Without a fault no handler comes to throw, and none loses its lock.     *)
LEMMA CalmStep ==
    ASSUME FlowTypes, Calm, [Next]_vars, faults = 0, faults' = 0
    PROVE  Calm'
<1>1. worker \in [Worker -> WorkerState] /\ QueuesFit /\ ~ Fault
  BY DEF FlowTypes, HandsFit, Fault
<1>0. ASSUME NEW i \in DOMAIN jobs, NEW b \in OwnedJob, jobs' = [jobs EXCEPT ![i].bull = b]
      PROVE  jobs'[i].bull = b
  <2>1. QueuesFit
    BY <1>1
  <2>2. \A k \in DOMAIN jobs : jobs'[k].bull = IF k = i THEN b ELSE jobs[k].bull
    BY <1>0, <2>1, JobUpdated
  <2>3. QED
    BY <2>2
<1> DEFINE Quiet(v) == /\ worker[v].at \in WalkStep \cup SendStep => worker[v].error = "none"
                       /\ worker[v].at \notin {"rethrow", "throttled"}
           Locked(v) == worker[v].job # 0 => JobOf(v).bull.state = "active" /\ JobOf(v).bull.owner = v
<1>2. ASSUME NEW v \in Worker, worker'[v].at = worker[v].at, worker'[v].error = worker[v].error,
             worker'[v].job = worker[v].job, ~ Settle(v)
      PROVE  Quiet(v)' /\ Locked(v)'
  BY <1>2, LocksStay DEF Calm
<1>3. CASE Apart
  <2>1. worker' = worker
    BY <1>3, ApartKeeps
  <2>2. \A v \in Worker : ~ Settle(v)
    BY <2>1, <1>1, HandlerEnds DEF Settle, Settling, Free
  <2>3. QED
    BY <1>2, <2>1, <2>2 DEF Calm
<1>4. ASSUME NEW w \in Worker, Acts(w) PROVE Calm'
  <2>1. /\ \A v \in Worker \ {w} : Unmoved(v)
        /\ worker'[w].job = worker[w].job
    BY <1>4, ActsAside
  <2>2. \A v \in Worker : ~ Settle(v)
    <3>1. worker[w].at \notin Settling /\ worker'[w].at # "idle"
      <4>1. ASSUME NEW step \in Step, Onward(w, step)
            PROVE  worker[w].at \notin Settling /\ worker'[w].at # "idle"
        BY <4>1 DEF Onward, Moves, Follows, Landings, Returns
      <4>2. ASSUME SaveContactField(w) \/ ApplyAction(w)
            PROVE  worker[w].at \notin Settling /\ worker'[w].at # "idle"
        BY <1>1, <4>2, ContactSet, ContactStep DEF Settling
      <4>3. QED
        BY <1>4, <4>1, <4>2, ActsOnward
    <3>2. QED
      BY <2>1, <3>1, <1>1, HandlerEnds DEF Settle, Settling, Free, Unmoved
  <2>3. \A v \in Worker \ {w} : Quiet(v)' /\ Locked(v)'
    BY <1>2, <2>1, <2>2 DEF Unmoved
  <2>4. Locked(w)'
    BY <2>1, <2>2, LocksStay
  <2>5. Quiet(w)'
    <3>1. ASSUME NEW step \in Step, Onward(w, step) PROVE Quiet(w)'
      <4>1. worker'[w].at = step /\ step \in Follows(worker[w].at) /\ step # "rethrow"
        BY <1>1, <3>1 DEF Onward, Moves
      <4>2. step # "throttled"
        <5>1. ASSUME step = "throttled"
              PROVE  worker[w].at = "release" /\ worker[w].error = "limited"
          BY <3>1, <4>1, <5>1 DEF Onward, Follows, Landings, Returns
        <5>2. QED
          BY <5>1 DEF Calm, SendStep
      <4>3. CASE worker[w].at \in WalkStep \cup SendStep
        BY <1>1, <3>1, <4>1, <4>2, <4>3 DEF Onward, Calm
      <4>4. CASE worker[w].at \notin WalkStep \cup SendStep
        <5>1. worker[w].at \in DispatchStep
          BY <3>1, <4>4, HandKnown DEF Onward, WorkerState
        <5>2. step \notin WalkStep \cup SendStep
          BY <4>1, <5>1 DEF Follows, DispatchStep, WalkStep, SendStep
        <5>3. QED
          BY <4>1, <4>2, <5>2
      <4>5. QED
        BY <4>3, <4>4
    <3>2. ASSUME SaveContactField(w) \/ ApplyAction(w) PROVE Quiet(w)'
      <4>1. worker'[w].at = "advance" /\ worker'[w].error = worker[w].error
        BY <1>1, <3>2, ContactSet
      <4>2. worker[w].error = "none"
        BY <3>2, ContactStep DEF Calm, WalkStep
      <4>3. QED
        BY <4>1, <4>2
    <3>3. QED
      BY <1>4, <3>1, <3>2, ActsOnward
  <2>6. QED
    BY <2>3, <2>4, <2>5 DEF Calm
<1>5. ASSUME NEW w \in Worker, NEW e \in Event, TakeHook(w, e) PROVE Calm'
  <2>1. /\ \A v \in Worker \ {w} : worker'[v] = worker[v]
        /\ worker[w].at = "idle" /\ worker'[w].at = "dedup" /\ worker'[w].job = 0
    BY <1>1, <1>5, HookTaken DEF Aside
  <2>2. \A v \in Worker : ~ Settle(v)
    BY <1>1, <2>1, HandlerEnds DEF Aside, Settle, Settling, Free
  <2>3. \A v \in Worker \ {w} : Quiet(v)' /\ Locked(v)'
    BY <1>2, <2>1, <2>2
  <2>4. Quiet(w)' /\ Locked(w)'
    BY <2>1 DEF WalkStep, SendStep
  <2>5. QED
    BY <2>3, <2>4 DEF Calm
<1>6. ASSUME NEW w \in Worker, NEW i \in DOMAIN jobs, TakeJob(w, i) PROVE Calm'
  <2>1. i \in Nat /\ jobs[i].bull \in OwnedJob
    BY <1>1, LenProperties DEF QueuesFit
  <2>2. /\ \A v \in Worker \ {w} : worker'[v] = worker[v]
        /\ worker[w].at = "idle" /\ worker'[w].at = "load" /\ worker'[w].job = i
        /\ worker'[w].error = "none"
    BY <1>1, <1>6, <2>1, JobTaken DEF Aside
  <2>3. \A v \in Worker : ~ Settle(v)
    BY <1>1, <2>2, HandlerEnds DEF Aside, Settle, Settling, Free
  <2>4. \A v \in Worker \ {w} : Quiet(v)' /\ Locked(v)'
    BY <1>2, <2>2, <2>3
  <2>5. jobs'[i].bull.state = "active" /\ jobs'[i].bull.owner = w
    <3>1. PICK b \in OwnedJob : b = Bull!Taken(jobs[i].bull, w)
      BY <2>1, JobSteps
    <3>2. b.state = "active" /\ b.owner = w
      BY <2>1, <3>1 DEF Bull!Taken, OwnedJob, Bull!Job
    <3>3. jobs' = [jobs EXCEPT ![i].bull = b]
      BY <1>6, <3>1 DEF TakeJob
    <3>4. jobs'[i].bull = b
      BY <1>0, <3>3
    <3>5. QED
      BY <3>2, <3>4
  <2>6. Quiet(w)' /\ Locked(w)'
    BY <2>2, <2>5 DEF JobOf
  <2>7. QED
    BY <2>4, <2>6 DEF Calm
<1>7. ASSUME NEW w \in Worker, Settle(w) PROVE Calm'
  <2>1. /\ \A v \in Worker \ {w} : worker'[v] = worker[v]
        /\ worker'[w].at = "idle" /\ worker'[w].job = 0
    BY <1>1, <1>7, HandlerEnds DEF Aside, Free
  <2>2. \A v \in Worker \ {w} : ~ Settle(v)
    BY <1>1, <2>1, HandlerEnds DEF Aside, Settle, Settling, Free
  <2>3. \A v \in Worker \ {w} : Quiet(v)' /\ Locked(v)'
    BY <1>2, <2>1, <2>2
  <2>4. Quiet(w)' /\ Locked(w)'
    BY <2>1 DEF WalkStep, SendStep
  <2>5. QED
    BY <2>3, <2>4 DEF Calm
<1>8. ASSUME NEW w \in Worker, Crash(w) PROVE Calm'
  BY <1>1, <1>8 DEF Crash
<1>9. QED
  BY <1>3, <1>4, <1>5, <1>6, <1>7, <1>8, NextCases

(* A run stays in hands that do not move: but for those of handler w, and  *)
(* for job j.                                                              *)
LEMMA HandsOver ==
    ASSUME FlowTypes, [Next]_vars, NEW w, NEW j, NEW r \in DOMAIN runs, InHands(r),
           runs'[r].status = runs[r].status, r \in stops => r \in stops',
           \A v \in Worker \ {w} : /\ worker'[v].at = worker[v].at
                                   /\ worker'[v].run = worker[v].run
                                   /\ worker'[v].job = worker[v].job,
           \A i \in DOMAIN jobs \ {j} :
               jobs[i].bull.state = "waiting" => jobs'[i].bull.state = "waiting"
    PROVE  \/ InHands(r)'
           \/ j \in DOMAIN jobs /\ jobs[j].bull.state = "waiting" /\ Serves(j, r)
           \/ w \in Worker /\ Handled(w, r)
<1>1. \A i \in DOMAIN jobs : i \in DOMAIN jobs' /\ (Serves(i, r) => Serves(i, r)')
  BY JobsKept DEF Serves
<1>2. CASE r \in stops
  BY <1>2 DEF InHands
<1>3. ASSUME NEW i \in DOMAIN jobs \ {j}, jobs[i].bull.state = "waiting", Serves(i, r)
      PROVE  InHands(r)'
  BY <1>1, <1>3 DEF InHands, Queued
<1>4. ASSUME NEW v \in Worker \ {w}, Handled(v, r) PROVE InHands(r)'
  <2>1. worker[v].at = "load" => worker[v].job \in DOMAIN jobs
    BY HandKnown DEF InHand, WalkStep
  <2>2. Handled(v, r)'
    BY <1>1, <1>4, <2>1 DEF Handled, RunOf
  <2>3. QED
    BY <2>2 DEF InHands
<1>5. QED
  BY <1>2, <1>3, <1>4 DEF InHands, Queued

(* A handler that has a run keeps it, adds the job that takes it up again, *)
(* has it stopped, or leaves it in a state in which it needs nobody.       *)
LEMMA ActsCare ==
    ASSUME FlowTypes, Linked, CareInv, [Next]_vars, faults = 0, faults' = 0,
           NEW w \in Worker, Acts(w), NEW r \in DOMAIN runs', Needs(r)'
    PROVE  InHands(r)'
<1>1. /\ Calm /\ faults' = faults /\ ~ Fault
      /\ faults' # faults + 1
  BY DEF CareInv, Fault
<1>2. ASSUME Handled(w, r)' PROVE InHands(r)'
  BY <1>2 DEF InHands
<1>3. /\ r \in DOMAIN runs => \/ runs'[r].status = runs[r].status /\ runs'[r].wait = runs[r].wait
                              \/ r = RunOf(w) /\ worker[w].at \in {"awaken", "wake", "delay"}
      /\ r \notin DOMAIN runs => worker'[w].at = "enqueue" /\ worker'[w].run = r
                                 /\ runs'[r].status = "RUNNING"
  BY ActsRuns
<1>4. ASSUME NEW k \in DOMAIN jobs', jobs'[k].bull.state = "waiting", Serves(k, r)'
      PROVE  InHands(r)'
  BY <1>4 DEF InHands, Queued
<1>5. CASE r \notin DOMAIN runs
  BY <1>2, <1>3, <1>5 DEF Handled, RunOf
<1>6. CASE worker[w].at \in OnItsWay /\ r = RunOf(w)
  <2>1. CASE worker'[w].at \in OnItsWay
    BY <1>2, <1>6, <2>1, ActsStay DEF Handled, RunOf
  <2>2. CASE worker'[w].at \notin OnItsWay
    <3>1. worker[w].at = "schedule" \/ r \in stops'
      BY <1>1, <1>6, <2>2, WalkEnds
    <3>2. CASE r \in stops'
      BY <3>2 DEF InHands
    <3>3. CASE worker[w].at = "schedule"
      <4>1. PICK k \in DOMAIN jobs' :
              jobs'[k].bull.state = "waiting" /\ jobs'[k].run = RunOf(w) /\ jobs'[k].resume
        BY <1>1, <3>3, ActsJobs
      <4>2. QED
        BY <1>4, <1>6, <4>1 DEF Serves
    <3>4. QED
      BY <3>1, <3>2, <3>3
  <2>3. QED
    BY <2>1, <2>2
<1>7. CASE worker[w].at = "awaken" /\ r = RunOf(w)
  <2>1. worker'[w].run = worker[w].run
    BY <1>7, ActsStay
  <2>2. worker'[w].at = "feed"
    <3>1. ~ SaveContactField(w) /\ ~ ApplyAction(w)
      BY <1>7, ContactStep
    <3>2. PICK step \in Step : Onward(w, step)
      BY <3>1, ActsOnward
    <3>3. QED
      BY <1>1, <1>7, <3>2 DEF Onward, Moves, Follows
  <2>3. QED
    BY <1>2, <1>7, <2>1, <2>2 DEF Handled, RunOf
<1>8. CASE /\ r \in DOMAIN runs
           /\ runs'[r].status = runs[r].status /\ runs'[r].wait = runs[r].wait
           /\ ~ (worker[w].at \in OnItsWay /\ r = RunOf(w))
  <2>1. Needs(r) /\ InHands(r)
    BY <1>8 DEF Needs, CareInv
  <2>2. /\ \A v \in Worker \ {w} : /\ worker'[v].at = worker[v].at
                                   /\ worker'[v].run = worker[v].run
                                   /\ worker'[v].job = worker[v].job
        /\ stops \subseteq stops'
        /\ \A i \in DOMAIN jobs : jobs'[i] = jobs[i]
    BY ActsAside, ActsStops, ActsJobs DEF Unmoved
  <2>3. PICK j : j \notin DOMAIN jobs
    <3>1. 0 \notin DOMAIN jobs
      BY LenProperties DEF FlowTypes, QueuesFit
    <3>2. QED
      BY <3>1
  <2>4. InHands(r)' \/ Handled(w, r)
    BY <1>8, <2>1, <2>2, <2>3, HandsOver
  <2>5. CASE worker[w].at = "load" /\ Serves(worker[w].job, r)
    <3>1. ~ Throw(w)
      BY <1>1 DEF Throw
    <3>2. LoadRun(w)
      BY <2>5, <3>1, AtLoad
    <3>3. /\ worker \in [Worker -> WorkerState] /\ runs \in Seq(Run) /\ jobs \in Seq(FlowJob)
          /\ \A f \in Workflow : flow[f].graph \in Graph
          /\ worker[w].job \in DOMAIN jobs /\ JobOf(w).run \in DOMAIN runs
      <4>1. worker[w].job \in DOMAIN jobs
        BY <2>5, HandKnown DEF InHand, WalkStep
      <4>2. QED
        BY <4>1, HandKnown DEF FlowTypes, RunsFit, QueuesFit, JobOf
    <3>4. /\ JobOf(w).run = r
          /\ Proceeds(runs[r].status, JobOf(w).resume \/ JobOf(w).reply # NoEvent)
      BY <2>1, <2>5 DEF Serves, JobOf, Proceeds, Needs
    <3>5. worker'[w].at = "account" /\ worker'[w].run = r
      BY <3>2, <3>3, <3>4, RunLoaded DEF Moves
    <3>6. QED
      BY <1>2, <3>5 DEF Handled, RunOf, OnItsWay, WalkStep
  <2>6. CASE worker[w].at = "feed" /\ r = RunOf(w)
    <3>1. PICK k \in DOMAIN jobs' :
            jobs'[k].bull.state = "waiting" /\ jobs'[k].run = RunOf(w) /\ jobs'[k].reply # NoEvent
      BY <1>1, <2>6, ActsJobs
    <3>2. QED
      BY <1>4, <2>6, <3>1 DEF Serves
  <2>7. CASE worker[w].at = "enqueue" /\ r = RunOf(w) /\ runs[r].status = "RUNNING"
    <3>1. PICK k \in DOMAIN jobs' : jobs'[k].bull.state = "waiting" /\ jobs'[k].run = RunOf(w)
      BY <1>1, <2>7, ActsJobs
    <3>2. QED
      BY <1>4, <1>8, <2>7, <3>1 DEF Serves
  <2>8. QED
    BY <1>8, <2>4, <2>5, <2>6, <2>7 DEF Handled
<1>9. QED
  BY <1>3, <1>5, <1>6, <1>7, <1>8 DEF OnItsWay, WalkStep, SendStep

(* What moves no handler leaves every run in the hands it is in, or fails  *)
(* it.                                                                     *)
LEMMA ApartCare ==
    ASSUME FlowTypes, CareInv, [Next]_vars, faults = 0, faults' = 0, Apart,
           NEW r \in DOMAIN runs', Needs(r)'
    PROVE  InHands(r)'
<1> USE DEF queueVars, runVars
<1>1. /\ ~ Fault /\ worker' = worker /\ RunsFit /\ QueuesFit
      /\ \A q \in DOMAIN runs : runs[q] \in Run
  BY ApartKeeps, ElementOfSeq, LenProperties DEF Fault, FlowTypes, RunsFit
<1>2. /\ DOMAIN runs' = DOMAIN runs
      /\ \A q \in DOMAIN runs :
            \/ /\ runs'[q].status = runs[q].status /\ runs'[q].wait = runs[q].wait
               /\ q \in stops => q \in stops'
            \/ ~ Needs(q)'
  <2>1. CASE \E q \in DOMAIN runs : StopRun(q)
    <3>1. PICK q \in DOMAIN runs : StopRun(q)
      BY <2>1
    <3>2. PICK row : row = [runs[q] EXCEPT !.status = "FAILED"]
      OBVIOUS
    <3>3. runs' = [runs EXCEPT ![q] = row] /\ stops' = stops \ {q}
      BY <3>1, <3>2 DEF StopRun, UpdateRun
    <3>4. row.status = "FAILED"
      BY <1>1, <3>2 DEF Run
    <3>5. ~ Needs(q)'
      BY <3>3, <3>4 DEF Needs
    <3>6. QED
      BY <3>3, <3>5
  <2>2. CASE \E q \in DOMAIN runs : WaitLapses(q)
    <3>1. PICK q \in DOMAIN runs : WaitLapses(q)
      BY <2>2
    <3>2. PICK row : row = [runs[q] EXCEPT !.lapsed = TRUE]
      OBVIOUS
    <3>3. runs' = [runs EXCEPT ![q] = row] /\ stops' = stops
      BY <3>1, <3>2 DEF WaitLapses
    <3>4. row.status = runs[q].status /\ row.wait = runs[q].wait
      BY <1>1, <3>2 DEF Run
    <3>5. QED
      BY <3>3, <3>4
  <2>3. CASE ~ (\E q \in DOMAIN runs : StopRun(q) \/ WaitLapses(q))
    <3>1. runs' = runs /\ stops' = stops
      BY <1>1, <2>3 DEF Apart, Deliver, Evict, Recover, RecoverJob, LoseStop, ChangeWorkflow,
         ChangeTenant, vars
    <3>2. QED
      BY <3>1
  <2>4. QED
    BY <2>1, <2>2, <2>3
<1>3. \A i \in DOMAIN jobs : jobs[i].bull.state = "waiting" => jobs'[i].bull.state = "waiting"
  <2>1. CASE \E i \in DOMAIN jobs : RecoverJob(i)
    <3>1. PICK i \in DOMAIN jobs : RecoverJob(i)
      BY <2>1
    <3>2. jobs[i].bull.state = "active" /\ jobs[i].bull \in OwnedJob
      BY <1>1, <3>1 DEF RecoverJob, QueuesFit
    <3>3. PICK b \in OwnedJob : b = Bull!Stalled(jobs[i].bull)
      BY <3>2, JobSteps
    <3>4. jobs' = [jobs EXCEPT ![i].bull = b]
      BY <3>1, <3>3 DEF RecoverJob
    <3>5. \A k \in DOMAIN jobs : jobs'[k].bull = IF k = i THEN b ELSE jobs[k].bull
      BY <1>1, <3>4, JobUpdated
    <3>6. QED
      BY <3>2, <3>5
  <2>2. CASE ~ \E i \in DOMAIN jobs : RecoverJob(i)
    BY <2>2 DEF Apart, Deliver, Evict, Recover, StopRun, LoseStop, WaitLapses, ChangeWorkflow,
       ChangeTenant, vars
  <2>3. QED
    BY <2>1, <2>2
<1>4. Needs(r) /\ InHands(r) /\ runs'[r].status = runs[r].status /\ (r \in stops => r \in stops')
  BY <1>2 DEF Needs, CareInv
<1>5. 0 \notin DOMAIN jobs /\ NoWorker \notin Worker
  BY <1>1, LenProperties, WorkflowAssumption DEF QueuesFit
<1>6. QED
  BY <1>1, <1>2, <1>3, <1>4, <1>5, HandsOver

(* A handler that takes a job takes over its run; one that ends has none,  *)
(* and its job was no longer in the queue.                                 *)
LEMMA HandlerCare ==
    ASSUME FlowTypes, CareInv, [Next]_vars, faults = 0, faults' = 0, NEW w \in Worker,
           \/ \E e \in Event : TakeHook(w, e)
           \/ \E i \in DOMAIN jobs : TakeJob(w, i)
           \/ Settle(w) \/ Crash(w),
           NEW r \in DOMAIN runs', Needs(r)'
    PROVE  InHands(r)'
<1> USE DEF queueVars, runVars
<1>1. /\ ~ Fault /\ Calm /\ worker \in [Worker -> WorkerState] /\ QueuesFit /\ 0 \notin DOMAIN jobs
      /\ \A k \in DOMAIN jobs : k \in Nat /\ jobs[k].bull \in OwnedJob
  BY LenProperties DEF Fault, CareInv, FlowTypes, HandsFit, QueuesFit
<1>2. runs' = runs /\ stops' = stops
  BY DEF TakeHook, TakeJob, Settle, Crash
<1>3. r \in DOMAIN runs /\ InHands(r) /\ runs'[r].status = runs[r].status
  BY <1>2 DEF Needs, CareInv
<1>4. ASSUME NEW e \in Event, TakeHook(w, e) PROVE InHands(r)'
  <2>1. /\ \A v \in Worker \ {w} : worker'[v] = worker[v]
        /\ worker[w].at = "idle"
    BY <1>1, <1>4, HookTaken DEF Aside
  <2>2. ~ Handled(w, r)
    BY <2>1 DEF Handled, OnItsWay, WalkStep, SendStep
  <2>3. jobs' = jobs
    BY <1>4 DEF TakeHook
  <2>4. QED
    BY <1>1, <1>2, <1>3, <2>1, <2>2, <2>3, HandsOver
<1>5. ASSUME NEW i \in DOMAIN jobs, TakeJob(w, i) PROVE InHands(r)'
  <2>1. /\ \A v \in Worker \ {w} : worker'[v] = worker[v]
        /\ worker[w].at = "idle" /\ worker'[w].at = "load" /\ worker'[w].job = i
    BY <1>1, <1>5, JobTaken DEF Aside
  <2>2. ~ Handled(w, r)
    BY <2>1 DEF Handled, OnItsWay, WalkStep, SendStep
  <2>3. \A k \in DOMAIN jobs \ {i} : jobs'[k].bull = jobs[k].bull
    <3>1. PICK b \in OwnedJob : b = Bull!Taken(jobs[i].bull, w)
      BY <1>1, JobSteps
    <3>2. jobs' = [jobs EXCEPT ![i].bull = b]
      BY <1>5, <3>1 DEF TakeJob
    <3>3. QED
      BY <1>1, <3>2, JobUpdated
  <2>4. InHands(r)' \/ Serves(i, r)
    BY <1>2, <1>3, <2>1, <2>2, <2>3, HandsOver
  <2>5. CASE Serves(i, r)
    <3>1. Serves(i, r)'
      BY <1>2, <2>5, JobsKept DEF Serves
    <3>2. QED
      BY <2>1, <3>1 DEF InHands, Handled
  <2>6. QED
    BY <2>4, <2>5
<1>6. ASSUME Settle(w) PROVE InHands(r)'
  <2>1. /\ \A v \in Worker \ {w} : worker'[v] = worker[v]
        /\ worker[w].at \in Settling
    BY <1>1, <1>6, HandlerEnds DEF Aside, Settle
  <2>2. ~ Handled(w, r)
    BY <2>1 DEF Handled, OnItsWay, WalkStep, SendStep, Settling
  <2>3. CASE worker[w].job = 0
    <3>1. jobs' = jobs
      BY <1>6, <2>3 DEF Settle
    <3>2. QED
      BY <1>1, <1>2, <1>3, <2>1, <2>2, <3>1, HandsOver
  <2>4. CASE worker[w].job # 0
    <3>1. PICK i \in DOMAIN jobs : i = worker[w].job
      BY <1>6, <2>4, HandKnown DEF Settle, InHand
    <3>2. jobs[i].bull.state = "active"
      BY <1>1, <2>4, <3>1 DEF Calm, JobOf
    <3>3. \A k \in DOMAIN jobs \ {i} : jobs'[k].bull = jobs[k].bull
      <4>1. PICK b \in OwnedJob : b = Settled(w, jobs[i].bull, WorkflowAttempts)
        BY <1>1, <2>1, JobSteps DEF Settled, Settling, Awaits
      <4>2. jobs' = [jobs EXCEPT ![i].bull = b]
        BY <1>6, <2>4, <3>1, <4>1 DEF Settle
      <4>3. QED
        BY <1>1, <4>2, JobUpdated
    <3>4. QED
      BY <1>2, <1>3, <2>1, <2>2, <3>2, <3>3, HandsOver
  <2>5. QED
    BY <2>3, <2>4
<1>7. QED
  BY <1>1, <1>4, <1>5, <1>6 DEF Crash

LEMMA CareStep == FlowTypes /\ Linked /\ CareInv /\ [Next]_vars => CareInv'
<1> SUFFICES ASSUME FlowTypes, Linked, CareInv, [Next]_vars, faults' = 0
             PROVE  Calm' /\ \A r \in DOMAIN runs' : Needs(r)' => InHands(r)'
  BY DEF CareInv
<1>1. faults = 0
  BY FaultFree
<1>2. Calm'
  BY <1>1, CalmStep DEF CareInv
<1>3. ASSUME NEW r \in DOMAIN runs', Needs(r)' PROVE InHands(r)'
  BY <1>1, <1>3, ActsCare, ApartCare, HandlerCare, NextCases
<1>4. QED
  BY <1>2, <1>3

LEMMA CareInit == Init => Linked /\ CareInv
<1> SUFFICES ASSUME Init PROVE Linked /\ CareInv
  OBVIOUS
<1>1. /\ worker = [w \in Worker |-> Free] /\ runs = <<>>
  BY DEF Init, StateInit
<1>2. \A w \in Worker : worker[w].at = "idle" /\ worker[w].job = 0
  BY <1>1 DEF Free
<1>3. QED
  BY <1>1, <1>2 DEF Linked, CareInv, Calm, OnItsWay, WalkStep, SendStep

LEMMA CareInvariant == Spec => [](Linked /\ CareInv)
  BY CareInit, LinkedStep, CareStep, TypesInvariant, PTL DEF Spec

(* A run that is RUNNING, or waits for its delay, always has a job, a stop *)
(* under way or a handler about to add its job, as long as no call failed: *)
(* for any graphs, whatever replies, edits and other handlers cross its    *)
(* way.                                                                    *)
THEOREM NoRunAbandonedTheorem == Spec => []NoRunAbandoned
<1>1. FlowTypes /\ Linked /\ CareInv => NoRunAbandoned
  <2> SUFFICES ASSUME FlowTypes, Linked, CareInv PROVE NoRunAbandoned
    OBVIOUS
  <2> SUFFICES ASSUME NEW r \in DOMAIN runs, Needs(r), ~ (faults > 0) PROVE Attended(r)
    BY DEF NoRunAbandoned, Needs
  <2>0. faults = 0
    BY CountsKnown
  <2>1. Calm /\ InHands(r)
    BY <2>0 DEF CareInv
  <2>2. CASE r \in stops
    BY <2>2 DEF Attended
  <2>3. CASE Queued(r)
    BY <2>3 DEF Attended, Queued, Serves
  <2>4. ASSUME NEW w \in Worker, Handled(w, r) PROVE Attended(r)
    <3>1. worker[w].at \in WalkStep \cup SendStep => worker[w].job \in DOMAIN jobs
      BY HandKnown DEF InHand
    <3>2. 0 \notin DOMAIN jobs
      BY LenProperties DEF FlowTypes, QueuesFit
    <3>3. CASE worker[w].at \in {"feed", "enqueue"}
      BY <2>4, <3>3 DEF Attended, Handled, RunOf, OnItsWay, WalkStep, SendStep
    <3>4. CASE worker[w].at \in WalkStep \cup SendStep
      <4>1. jobs[worker[w].job].run = r
        BY <2>4, <3>4 DEF Handled, Serves, Linked, JobOf, OnItsWay, WalkStep, SendStep
      <4>2. jobs[worker[w].job].bull.state = "active"
        BY <2>1, <3>1, <3>2, <3>4 DEF Calm, JobOf
      <4>3. QED
        BY <3>1, <3>4, <4>1, <4>2 DEF Attended
    <3>5. QED
      BY <2>4, <3>3, <3>4 DEF Handled, OnItsWay, WalkStep
  <2>5. QED
    BY <2>1, <2>2, <2>3, <2>4 DEF InHands
<1>2. QED
  BY <1>1, TypesInvariant, CareInvariant, PTL

------------------------------------------------------------------------------
(* How often a message is sent                                             *)

Messages(g) == {n \in DOMAIN Shape[g].type : Shape[g].type[n] = "SEND_MESSAGE"}

(* Where a walk can be that has passed node n of graph g for good.         *)
Passed(g, n) ==
    {S \in SUBSET (Node \ {n}) : \A e \in Shape[g].edges : e.from \in S \cup {n} => e.to \in S}

(* The walk of w has sent the message of node n, but not moved on yet.     *)
Sent(w, r, n) == Walking(w, r) /\ worker[w].at \in {"dmRow", "advance"} /\ worker[w].node = n

(* The run may still come to node n, from where its row says that it is.   *)
Owed(r, n, S) == runs[r].node \in Node \ S /\ ~ \E w \in Worker : Sent(w, r, n)

OneOf(b) == IF b THEN 1 ELSE 0

GraphOf(r) == flow[runs[r].workflow].graph

SendsCounted(r) ==
    \A n \in Messages(GraphOf(r)) : \A S \in Passed(GraphOf(r), n) :
        delivered[r][n] + OneOf(Owed(r, n, S)) <= 1 + faults

Alone(r) == \A v, w \in Worker : Walking(v, r) /\ Walking(w, r) => v = w

(* A walk is where the row of its run says, but for a delay it has begun;  *)
(* and it knows what it is about to send.                                  *)
InPlace(w, r) ==
    /\ worker[w].graph = GraphOf(r)
    /\ worker[w].at # "schedule" => worker[w].node = runs[r].node
    /\ worker[w].at \in SendStep /\ worker[w].node \in Messages(GraphOf(r)) =>
         worker[w].doing = "message"

(* What a run that one handler at a time walks keeps to.                   *)
Orderly(r) ==
    /\ Alone(r)
    /\ \A w \in Worker : Walking(w, r) => InPlace(w, r)
    /\ SendsCounted(r)

(* Inductive: of a run that one handler at a time has walked, on a graph   *)
(* nobody changed, a message was sent no more than its row tells.          *)
SendsInv == \A r \in DOMAIN runs : r \notin raced /\ edits = 0 => Orderly(r)

(* A walk is at the node it arrives at, and sends a message only if that   *)
(* is what the node is for.                                                *)
LEMMA ArrivesThere ==
    ASSUME NEW s \in WorkerState, s.graph \in Graph, NEW n \in Node \cup {NoNode}
    PROVE  /\ Arrive(s, n).node = n
           /\ Arrive(s, n).at \in SendStep /\ n \in Messages(s.graph) =>
                Arrive(s, n).doing = "message"
<1> DEFINE type == Shape[s.graph].type
           Near(step) == Arriving(s, n, step)
<1> USE DEF Step, WalkStep, SendStep, Settling
<1>1. DOMAIN type \subseteq Node /\ NoNode \notin Node
  BY WorkflowAssumption
<1>2. CASE n = NoNode \/ s.steps >= MaxSteps \/ n \notin DOMAIN type
  <2>1. \E step \in {"complete", "finish"} : Arrive(s, n) = [s EXCEPT !.at = step, !.node = n]
    BY <1>2 DEF Arrive
  <2>2. QED
    BY <2>1 DEF WorkerState
<1>3. ASSUME NEW step \in Step
      PROVE  Near(step) \in WorkerState /\ Near(step).at = step /\ Near(step).node = n
  BY <1>3, Arrival
<1>4. CASE ~ (n = NoNode \/ s.steps >= MaxSteps) /\ n \in DOMAIN type
  <2>1. CASE type[n] = "SEND_MESSAGE"
    <3>1. Arrive(s, n) = [Near("consent") EXCEPT !.doing = "message"]
      BY <1>4, <2>1 DEF Arrive, Arriving
    <3>2. Near("consent") \in WorkerState /\ Near("consent").node = n
      BY <1>3
    <3> HIDE DEF Near
    <3>3. QED
      BY <3>1, <3>2 DEF WorkerState
  <2>2. CASE type[n] # "SEND_MESSAGE"
    <3>1. n \notin Messages(s.graph)
      BY <2>2 DEF Messages
    <3>2. CASE /\ type[n] \notin {"SEND_LINK", "COLLECT_INPUT"}
               /\ ~ (type[n] = "WAIT_REPLY" /\ s.reply # NoEvent)
      <4>1. \E step \in {"complete", "delay", "setContact", "handoff", "advance", "pause"} :
               Arrive(s, n) = Near(step)
        <5>1. \/ Arrive(s, n) = Near("complete") \/ Arrive(s, n) = Near("delay")
              \/ Arrive(s, n) = Near("setContact") \/ Arrive(s, n) = Near("handoff")
              \/ Arrive(s, n) = Near("advance") \/ Arrive(s, n) = Near("pause")
          BY <1>4, <2>2, <3>2 DEF Arrive, Arriving
        <5>2. QED
          BY <5>1
      <4> HIDE DEF Near
      <4>2. QED
        BY <1>3, <3>1, <4>1
    <3>3. CASE type[n] = "SEND_LINK" \/ (type[n] = "COLLECT_INPUT" /\ s.reply = NoEvent)
      <4>1. \E why \in {"link", "prompt"} : Arrive(s, n) = [Near("consent") EXCEPT !.doing = why]
        BY <1>4, <3>3 DEF Arrive, Arriving
      <4>2. Near("consent") \in WorkerState /\ Near("consent").node = n
        BY <1>3
      <4> HIDE DEF Near
      <4>3. QED
        BY <3>1, <4>1, <4>2 DEF WorkerState
    <3>4. CASE type[n] \in {"WAIT_REPLY", "COLLECT_INPUT"} /\ s.reply # NoEvent
      <4> DEFINE h == Heard(Near("advance"))
      <4>1. \/ Arrive(s, n) = h
            \/ Arrive(s, n) = [h EXCEPT !.at = "save"]
            \/ Arrive(s, n) = [h EXCEPT !.vars.asks = @ + 1]
            \/ Arrive(s, n) = [[h EXCEPT !.vars.asks = @ + 1] EXCEPT !.at = "consent", !.doing = "retry"]
        <5> HIDE DEF h
        <5>1. QED
          BY <1>4, <3>4 DEF Arrive, Arriving, h
      <4>2. Near("advance") \in WorkerState /\ Near("advance").node = n
        BY <1>3
      <4>3. h \in WorkerState /\ h.node = n
        <5> HIDE DEF Near
        <5>1. QED
          BY <4>2, Hearing
      <4> HIDE DEF h
      <4>4. QED
        BY <3>1, <4>1, <4>3 DEF WorkerState
    <3>5. QED
      BY <3>2, <3>3, <3>4
  <2>3. QED
    BY <2>1, <2>2
<1>5. QED
  BY <1>2, <1>4

(* A send that returns leaves the walk where it is.                        *)
LEMMA ReturnsThere ==
    ASSUME worker \in [Worker -> WorkerState], NEW w \in Worker, worker[w].doing # "none",
           NEW ok \in BOOLEAN, Return(w, ok)
    PROVE  /\ worker'[w].node = worker[w].node /\ worker'[w].graph = worker[w].graph
           /\ worker'[w].at \in Returns
           /\ ok /\ worker[w].doing = "message" => worker'[w].at = "advance"
<1>1. worker[w] \in WorkerState
  OBVIOUS
<1>2. worker'[w] = Returned(worker[w], ok)
  BY DEF Return
<1>3. Returned(worker[w], ok).node = worker[w].node
  BY <1>1 DEF Returned, WorkerState
<1>4. Moves(w, AfterSend(worker[w], ok)) /\ Stays(w)
      /\ AfterSend(worker[w], ok) \in {"advance", "pause", "finish"}
  BY SendReturns
<1>5. ok /\ worker[w].doing = "message" => AfterSend(worker[w], ok) = "advance"
  BY DEF AfterSend
<1>6. QED
  BY <1>2, <1>3, <1>4, <1>5 DEF Moves, Stays, Returns

(* At these steps a handler makes one call.                                *)
LEMMA AtSent ==
    ASSUME NEW w \in Worker, Acts(w), worker[w].at \in {"dmRow", "advance", "schedule"}
    PROVE  \/ worker[w].at = "advance" /\ Advance(w)
           \/ worker[w].at = "dmRow" /\ RecordDm(w)
           \/ worker[w].at = "schedule" /\ ScheduleResume(w)
           \/ Throw(w)
<1>1. ~ DispatchProgress(w) /\ ~ SendDmFails(w)
  BY DEF DispatchProgress, Dedup, Resolve, RecordProcessed, Unsubscribe, FindWaitingRun,
     ExpireRun, AwakenRun, FeedReply, MatchWorkflow, CreateRun, EnqueueRun, SendDmFails, Awaits
<1>2. WalkProgress(w) => \/ worker[w].at = "advance" /\ Advance(w)
                         \/ worker[w].at = "schedule" /\ ScheduleResume(w)
  BY DEF WalkProgress, LoadRun, LoadAccount, WakeRun, Advance, Pause, BeginDelay, ScheduleResume,
     SaveContactField, ApplyAction, NotifyHandoff, ParkRun, CompleteRun, Awaits
<1>3. SendProgress(w) => worker[w].at = "dmRow" /\ RecordDm(w)
  BY DEF SendProgress, CheckConsent, CheckContactCap, GetDmQuota, IncrementDmUsage,
     DecrementDmUsage, FindNotice, CreateNotice, SendDm, FlagAccount, RecordDm, Awaits
<1>4. QED
  BY <1>1, <1>2, <1>3 DEF Acts

(* The calls that leave a walk at its node.                                *)
LEMMA WalkerStays ==
    ASSUME FlowTypes, NEW w \in Worker, Acts(w), worker[w].at \in OnItsWay,
           ~ LoadAccount(w), ~ WakeRun(w), ~ Advance(w)
    PROVE  /\ worker'[w].node = worker[w].node /\ worker'[w].graph = worker[w].graph
           /\ worker'[w].at \in SendStep =>
                worker[w].at \in SendStep /\ worker'[w].doing = worker[w].doing
<1> USE DEF SendStep
<1>1. /\ worker \in [Worker -> WorkerState] /\ QuotaTypeOK
      /\ worker[w].at \in SendStep => worker[w].doing # "none"
  BY HandKnown DEF FlowTypes, InHand
<1> DEFINE Still == /\ worker'[w].node = worker[w].node /\ worker'[w].graph = worker[w].graph
                    /\ worker'[w].at \in SendStep =>
                         worker[w].at \in SendStep /\ worker'[w].doing = worker[w].doing
<1>2. ASSUME NEW step \in Step, Goto(w, step), step \in SendStep => worker[w].at \in SendStep
      PROVE  Still
  BY <1>1, <1>2, GotoMoves DEF Moves, Stays, Recalls
<1>3. ASSUME NEW ok \in BOOLEAN, Return(w, ok), worker[w].at \in SendStep
      PROVE  Still
  BY <1>1, <1>3, ReturnsThere DEF Returns
<1>4. {"finish", "wake", "schedule", "park", "cap", "quota", "reserve", "release", "send",
       "notice", "dmRow", "flag", "throttled", "rethrow"} \subseteq Step
  BY DEF Step, WalkStep, Settling
<1>5. CASE DispatchProgress(w)
  BY <1>5 DEF DispatchProgress, Dedup, Resolve, RecordProcessed, Unsubscribe,
     FindWaitingRun, ExpireRun, AwakenRun, FeedReply, MatchWorkflow, CreateRun, EnqueueRun,
     Awaits, OnItsWay, WalkStep
<1>6. CASE SaveContactField(w) \/ ApplyAction(w)
  BY <1>1, <1>6, ContactSet
<1>7. CASE WalkProgress(w) /\ ~ SaveContactField(w) /\ ~ ApplyAction(w)
  <2>1. ~ LoadRun(w)
    BY DEF LoadRun, Awaits, OnItsWay, WalkStep
  <2>2. \E step \in {"finish", "schedule", "park"} : Goto(w, step)
    BY <1>7, <2>1 DEF WalkProgress, Pause, BeginDelay, ScheduleResume, NotifyHandoff, ParkRun,
       CompleteRun
  <2>3. QED
    BY <1>2, <1>4, <2>2
<1>8. CASE SendProgress(w)
  <2>1. worker[w].at \in SendStep
    BY <1>8 DEF SendProgress, CheckConsent, CheckContactCap, GetDmQuota, IncrementDmUsage,
       DecrementDmUsage, FindNotice, CreateNotice, SendDm, FlagAccount, RecordDm, Awaits
  <2>2. CASE DecrementDmUsage(w)
    BY <1>1, <1>2, <1>3, <1>4, <2>1, <2>2, SlotReturned DEF Stays, Moves
  <2>3. CASE ~ DecrementDmUsage(w)
    <3>1. \/ \E step \in {"cap", "quota", "reserve", "release", "send", "notice", "dmRow"} :
               Goto(w, step)
          \/ Return(w, FALSE) \/ Return(w, TRUE)
      BY <1>8, <2>3 DEF SendProgress, CheckConsent, CheckContactCap, GetDmQuota,
         IncrementDmUsage, FindNotice, CreateNotice, SendDm, FlagAccount, RecordDm
    <3>2. QED
      BY <1>2, <1>3, <1>4, <2>1, <3>1
  <2>4. QED
    BY <2>2, <2>3
<1>9. CASE SendDmFails(w)
  BY <1>1, <1>9, ErrorCaught DEF SendDmFails, Stays, Moves, Awaits
<1>10. CASE Throw(w)
  BY <1>2, <1>3, <1>4, <1>10 DEF Throw, Awaits
<1>11. QED
  BY <1>5, <1>6, <1>7, <1>8, <1>9, <1>10 DEF Acts

(* The calls by which it comes to a node, and where the row then says it is. *)
LEMMA WalkerArrives ==
    ASSUME FlowTypes, NEW w \in Worker, LoadAccount(w) \/ WakeRun(w) \/ Advance(w)
    PROVE  /\ worker[w].at \in OnItsWay
           /\ worker'[w].graph = worker[w].graph
           /\ ~ Advance(w) => worker'[w].node = worker[w].node
           /\ worker'[w].at \in SendStep /\ worker'[w].node \in Messages(worker[w].graph) =>
                worker'[w].doing = "message"
<1>1. worker[w].at \in OnItsWay
  BY DEF LoadAccount, WakeRun, Advance, Awaits, OnItsWay, WalkStep
<1>2. /\ worker \in [Worker -> WorkerState] /\ worker[w] \in WorkerState
      /\ worker[w].graph \in Graph /\ worker[w].node \in Node \cup {NoNode}
      /\ Targets(w) \subseteq Node \cup {NoNode}
  BY <1>1, HandKnown, TargetsAreNodes DEF Targets, WorkerState
<1>3. ASSUME NEW n \in Node \cup {NoNode}, WalkOn(w, worker[w], n)
      PROVE  /\ worker'[w].graph = worker[w].graph /\ worker'[w].node = n
             /\ worker'[w].at \in SendStep /\ n \in Messages(worker[w].graph) =>
                  worker'[w].doing = "message"
  <2>1. worker'[w] = Arrive(worker[w], n)
    BY <1>2, <1>3 DEF WalkOn
  <2>2. QED
    BY <1>2, <1>3, <2>1, ArrivesThere, WalkLands
<1>4. ASSUME NEW step \in {"finish", "wake"}, Goto(w, step)
      PROVE  /\ worker'[w].graph = worker[w].graph /\ worker'[w].node = worker[w].node
             /\ worker'[w].at \notin SendStep
  <2>1. step \in Step /\ step \notin SendStep
    BY DEF Step, WalkStep, Settling, SendStep
  <2>2. QED
    BY <1>2, <1>4, <2>1, GotoMoves DEF Moves, Stays, Recalls
<1>5. \/ \E step \in {"finish", "wake"} : Goto(w, step) /\ ~ Advance(w)
      \/ WalkOn(w, worker[w], worker[w].node)
      \/ \E n \in Node \cup {NoNode} : WalkOn(w, worker[w], n) /\ Advance(w)
  BY <1>2 DEF LoadAccount, WakeRun, Advance, Awaits
<1>6. CASE \E step \in {"finish", "wake"} : Goto(w, step) /\ ~ Advance(w)
  BY <1>1, <1>4, <1>6
<1>7. CASE WalkOn(w, worker[w], worker[w].node)
  BY <1>1, <1>2, <1>3, <1>7
<1>8. CASE \E n \in Node \cup {NoNode} : WalkOn(w, worker[w], n) /\ Advance(w)
  BY <1>1, <1>3, <1>8
<1>9. QED
  BY <1>5, <1>6, <1>7, <1>8

(* Where an edge may lead a walk from node n.                              *)
Onto(g, n) == {NoNode} \cup {e.to : e \in {d \in Shape[g].edges : d.from = n}}

LEMMA TargetsOnto ==
    ASSUME NEW g, NEW n, NEW handle
    PROVE  FirstEdgeTargets(g, n) \subseteq Onto(g, n) /\ BranchTargets(g, n, handle) \subseteq Onto(g, n)
<1>1. FirstEdgeTargets(g, n) \subseteq Onto(g, n)
  BY DEF FirstEdgeTargets, Onto
<1>2. QED
  BY <1>1 DEF BranchTargets, Onto

(* A walk that has passed a node does not come back to it, and one that is *)
(* at the node passes it.                                                  *)
LEMMA PassedForGood ==
    ASSUME NEW g \in Graph, NEW n \in Node, NEW S \in Passed(g, n),
           NEW m \in Node \cup {NoNode}, NEW k \in Onto(g, m), k \in Node \ S
    PROVE  m \in Node \ S /\ m # n
<1>1. /\ NoNode \notin Node /\ Shape[g].edges \subseteq Edge
  BY WorkflowAssumption
<1>2. PICK e \in Shape[g].edges : e.from = m /\ e.to = k
  BY <1>1 DEF Onto
<1>3. e.from \in Node
  BY <1>1 DEF Edge
<1>4. QED
  BY <1>2, <1>3 DEF Passed

(* What the steps of a handler do to where the rows say that runs are.     *)
LEMMA RowMoves ==
    ASSUME FlowTypes, NEW w \in Worker, Acts(w), NEW r \in DOMAIN runs
    PROVE  /\ r \in DOMAIN runs' /\ runs'[r].workflow = runs[r].workflow
           /\ \/ runs'[r].node = runs[r].node /\ ~ (Advance(w) /\ r = RunOf(w))
              \/ /\ r = RunOf(w) /\ worker[w].at \in OnItsWay
                 /\ \/ runs'[r].node \in Onto(worker[w].graph, worker[w].node)
                       /\ Advance(w) /\ worker'[w].node = runs'[r].node
                    \/ runs'[r].node \in Onto(worker[w].graph, worker[w].node) /\ BeginDelay(w)
                       /\ worker'[w].at = "schedule"
                    \/ runs'[r].node = worker[w].node /\ worker'[w].at = "finish"
                       /\ worker[w].at \in {"pause", "park"}
                    \/ runs'[r].node = NoNode /\ worker'[w].at = "finish"
                       /\ worker[w].at = "complete"
<1>1. /\ worker \in [Worker -> WorkerState] /\ worker[w] \in WorkerState /\ runs[r] \in Run
      /\ worker[w].at \in OnItsWay => RunOf(w) \in DOMAIN runs /\ runs[RunOf(w)] \in Run
                                      /\ worker[w].graph \in Graph
      /\ worker[w].node \in Node \cup {NoNode}
  BY HandKnown DEF RunOf, WorkerState
<1> DEFINE Kept == r \in DOMAIN runs' /\ runs'[r].workflow = runs[r].workflow
                   /\ runs'[r].node = runs[r].node
<1>2. ASSUME NEW q, NEW row, runs' = [runs EXCEPT ![q] = row]
      PROVE  /\ r \in DOMAIN runs'
             /\ r # q => Kept
             /\ r = q => runs'[r] = row
  BY <1>2
<1>3. ASSUME NEW q, NEW status, runs' = [runs EXCEPT ![q] = [runs[q] EXCEPT !.status = status]]
      PROVE  Kept
  <2>1. PICK row : row = [runs[q] EXCEPT !.status = status]
    OBVIOUS
  <2>2. q = r => row.workflow = runs[r].workflow /\ row.node = runs[r].node
    BY <1>1, <2>1 DEF Run
  <2>3. QED
    BY <1>2, <1>3, <2>1, <2>2
<1>4. CASE AwakenRun(w) \/ ExpireRun(w) \/ WakeRun(w)
  <2>1. Kept
    BY <1>3, <1>4 DEF AwakenRun, ExpireRun, WakeRun, UpdateRun
  <2>2. ~ Advance(w)
    BY <1>4 DEF AwakenRun, ExpireRun, WakeRun, Advance, Awaits
  <2>3. QED
    BY <2>1, <2>2
<1>5. CASE CreateRun(w)
  <2>1. Kept
    BY <1>5, RunCreated
  <2>2. ~ Advance(w)
    BY <1>5 DEF CreateRun, Advance, Awaits
  <2>3. QED
    BY <2>1, <2>2
<1>6. CASE Advance(w)
  <2>1. worker[w].at \in OnItsWay /\ worker[w].run = RunOf(w)
    BY <1>6 DEF Advance, Awaits, OnItsWay, WalkStep, RunOf
  <2>2. PICK n \in Targets(w) :
          /\ runs' = [runs EXCEPT ![RunOf(w)] =
                        [runs[RunOf(w)] EXCEPT !.node = n, !.vars = worker[w].vars]]
          /\ WalkOn(w, worker[w], n)
    BY <1>6, <2>1 DEF Advance, UpdateRun
  <2>3. n \in Onto(worker[w].graph, worker[w].node) /\ n \in Node \cup {NoNode}
    BY <1>1, <2>1, TargetsOnto, TargetsAreNodes DEF Targets
  <2>4. worker'[w].node = n
    BY <1>1, <2>1, <2>2, <2>3, ArrivesThere DEF WalkOn
  <2>5. PICK row : row = [runs[RunOf(w)] EXCEPT !.node = n, !.vars = worker[w].vars]
    OBVIOUS
  <2>6. row.node = n /\ row.workflow = runs[RunOf(w)].workflow
    BY <1>1, <2>1, <2>5 DEF Run
  <2>7. QED
    BY <1>2, <1>6, <2>1, <2>2, <2>3, <2>4, <2>5, <2>6
<1>7. CASE Pause(w) \/ ParkRun(w) \/ CompleteRun(w) \/ BeginDelay(w)
  <2>1. /\ worker[w].at \in OnItsWay /\ worker[w].run = RunOf(w) /\ ~ Advance(w)
    BY <1>7 DEF Pause, ParkRun, CompleteRun, BeginDelay, Advance, Awaits, OnItsWay, WalkStep, RunOf
  <2>2. PICK row : runs' = [runs EXCEPT ![RunOf(w)] = row] /\
          \/ /\ row = [runs[RunOf(w)] EXCEPT !.status = "WAITING", !.node = worker[w].node,
                          !.wait = "reply", !.lapsed = FALSE, !.vars = worker[w].vars]
             /\ Pause(w)
          \/ /\ row = [runs[RunOf(w)] EXCEPT !.status = "HANDOFF", !.node = worker[w].node,
                          !.vars = worker[w].vars]
             /\ ParkRun(w)
          \/ /\ row = [runs[RunOf(w)] EXCEPT !.status = "COMPLETED", !.node = NoNode,
                          !.vars = worker[w].vars]
             /\ CompleteRun(w)
          \/ /\ \E n \in FirstEdgeTargets(worker[w].graph, worker[w].node) :
                  row = [runs[RunOf(w)] EXCEPT !.status = "WAITING", !.node = n, !.wait = "delay",
                            !.vars = worker[w].vars]
             /\ BeginDelay(w)
    BY <1>7, <2>1 DEF Pause, ParkRun, CompleteRun, BeginDelay, UpdateRun
  <2>3. /\ row.workflow = runs[RunOf(w)].workflow
        /\ \/ row.node = worker[w].node /\ (Pause(w) \/ ParkRun(w))
           \/ row.node = NoNode /\ CompleteRun(w)
           \/ row.node \in FirstEdgeTargets(worker[w].graph, worker[w].node) /\ BeginDelay(w)
    BY <1>1, <2>1, <2>2 DEF Run
  <2>4. row.node \in FirstEdgeTargets(worker[w].graph, worker[w].node) =>
          row.node \in Onto(worker[w].graph, worker[w].node)
    BY TargetsOnto
  <2>5. /\ Pause(w) => worker[w].at = "pause" /\ Goto(w, "finish")
        /\ ParkRun(w) => worker[w].at = "park" /\ Goto(w, "finish")
        /\ CompleteRun(w) => worker[w].at = "complete" /\ Goto(w, "finish")
        /\ BeginDelay(w) => Goto(w, "schedule")
    BY DEF Pause, ParkRun, CompleteRun, BeginDelay, Awaits
  <2>6. ASSUME NEW step \in {"finish", "schedule"}, Goto(w, step) PROVE worker'[w].at = step
    BY <1>1, <2>6, GotoMoves DEF Moves, Step, WalkStep, Settling
  <2>7. /\ Pause(w) => worker[w].at = "pause" /\ worker'[w].at = "finish"
        /\ ParkRun(w) => worker[w].at = "park" /\ worker'[w].at = "finish"
        /\ CompleteRun(w) => worker[w].at = "complete" /\ worker'[w].at = "finish"
        /\ BeginDelay(w) => worker'[w].at = "schedule"
    BY <2>5, <2>6
  <2>8. QED
    BY <1>2, <2>1, <2>2, <2>3, <2>4, <2>7
<1>8. CASE DispatchProgress(w) /\ ~ CreateRun(w) /\ ~ AwakenRun(w) /\ ~ ExpireRun(w)
  BY <1>8 DEF DispatchProgress, Dedup, Resolve, RecordProcessed, Unsubscribe, FindWaitingRun,
     FeedReply, MatchWorkflow, EnqueueRun, runVars, Advance, Awaits
<1>9. CASE /\ WalkProgress(w) /\ ~ WakeRun(w) /\ ~ Advance(w)
           /\ ~ (Pause(w) \/ ParkRun(w) \/ CompleteRun(w) \/ BeginDelay(w))
  BY <1>9 DEF WalkProgress, LoadRun, LoadAccount, ScheduleResume, SaveContactField,
     ApplyAction, NotifyHandoff, runVars
<1>10. CASE (SendProgress(w) \/ SendDmFails(w) \/ Throw(w)) /\ ~ Advance(w)
  BY <1>10, SendGrows DEF SendDmFails, Throw, runVars
<1>11. QED
  BY <1>4, <1>5, <1>6, <1>7, <1>8, <1>9, <1>10 DEF Acts, WalkProgress

(* Only a send delivers, a message of the walk's own run and node.         *)
LEMMA DmsDelivered ==
    ASSUME FlowTypes, NEW w \in Worker, Acts(w), NEW r \in DOMAIN runs, NEW n \in Node
    PROVE  \/ delivered'[r][n] = delivered[r][n]
           \/ /\ delivered'[r][n] = delivered[r][n] + 1
              /\ worker[w].at = "send" /\ RunOf(w) = r /\ worker[w].node = n
              /\ \/ worker'[w].at = "dmRow"
                 \/ faults' = faults + 1
<1>1. /\ delivered \in Seq([Node -> Nat]) /\ r \in 1..Len(delivered)
      /\ delivered[r] \in [Node -> Nat] /\ worker \in [Worker -> WorkerState]
  BY HandKnown, LenProperties, ElementOfSeq DEF FlowTypes, RunsFit
<1>2. CASE CreateRun(w)
  <2>1. delivered' = Append(delivered, [k \in Node |-> 0])
    BY <1>2 DEF CreateRun
  <2>2. delivered'[r] = delivered[r]
    BY <1>1, <2>1, AppendGrows, LenProperties
  <2>3. QED
    BY <2>2
<1>3. ASSUME delivered' = Delivered(w)
      PROVE  \/ delivered'[r][n] = delivered[r][n]
             \/ /\ delivered'[r][n] = delivered[r][n] + 1
                /\ RunOf(w) = r /\ worker[w].node = n
  BY <1>1, <1>3 DEF Delivered
<1>4. CASE SendDm(w)
  <2>1. worker'[w].at = "dmRow"
    BY <1>1, <1>4, GotoMoves DEF SendDm, Moves, Step, SendStep
  <2>2. QED
    BY <1>3, <1>4, <2>1 DEF SendDm, Awaits
<1>5. CASE SendDmFails(w)
  BY <1>3, <1>5 DEF SendDmFails, Awaits, Fault
<1>6. CASE DispatchProgress(w) /\ ~ CreateRun(w)
  BY <1>6 DEF DispatchProgress, Dedup, Resolve, RecordProcessed, Unsubscribe, FindWaitingRun,
     ExpireRun, AwakenRun, FeedReply, MatchWorkflow, EnqueueRun, historyVars
<1>7. CASE WalkProgress(w)
  BY <1>7 DEF WalkProgress, LoadRun, LoadAccount, WakeRun, Advance, Pause, BeginDelay,
     ScheduleResume, SaveContactField, ApplyAction, NotifyHandoff, ParkRun, CompleteRun,
     historyVars
<1>8. CASE SendProgress(w) /\ ~ SendDm(w)
  BY <1>8 DEF SendProgress, CheckConsent, CheckContactCap, GetDmQuota, IncrementDmUsage,
     DecrementDmUsage, FindNotice, CreateNotice, FlagAccount, RecordDm, historyVars
<1>9. CASE Throw(w)
  BY <1>9 DEF Throw, historyVars
<1>10. QED
  BY <1>2, <1>4, <1>5, <1>6, <1>7, <1>8, <1>9 DEF Acts

(* What a step of one handler leaves to the others.                        *)
LEMMA OthersStand ==
    ASSUME FlowTypes, NEW w \in Worker, Acts(w), NEW v \in Worker \ {w}
    PROVE  /\ worker'[v].at = worker[v].at /\ worker'[v].run = worker[v].run
           /\ worker'[v].graph = worker[v].graph /\ worker'[v].node = worker[v].node
           /\ worker'[v].doing = worker[v].doing
<1>1. worker \in [Worker -> WorkerState]
  BY HandKnown
<1>2. CASE SaveContactField(w) \/ ApplyAction(w)
  BY <1>1, <1>2, ContactSet
<1>3. ASSUME NEW step \in Step, Onward(w, step) PROVE worker'[v] = worker[v]
  BY <1>3 DEF Onward, Moves, Aside
<1>4. QED
  BY <1>2, <1>3, ActsOnward

(* Graphs change with an edit, and what was counted stays counted.         *)
LEMMA ActsHistory ==
    ASSUME NEW w \in Worker, Acts(w)
    PROVE  /\ flow' = flow /\ edits' = edits /\ faults' \in {faults, faults + 1}
           /\ raced \subseteq raced'
<1> USE DEF tenantVars, historyVars, budgetVars
<1>1. CASE DispatchProgress(w)
  BY <1>1 DEF DispatchProgress, Dedup, Resolve, RecordProcessed, Unsubscribe, FindWaitingRun,
     ExpireRun, AwakenRun, FeedReply, MatchWorkflow, CreateRun, EnqueueRun
<1>2. CASE WalkProgress(w)
  BY <1>2 DEF WalkProgress, LoadRun, LoadAccount, WakeRun, Advance, Pause, BeginDelay,
     ScheduleResume, SaveContactField, ApplyAction, NotifyHandoff, ParkRun, CompleteRun
<1>3. CASE SendProgress(w)
  BY <1>3 DEF SendProgress, CheckConsent, CheckContactCap, GetDmQuota, IncrementDmUsage,
     DecrementDmUsage, FindNotice, CreateNotice, SendDm, FlagAccount, RecordDm
<1>4. CASE SendDmFails(w) \/ Throw(w)
  BY <1>4 DEF SendDmFails, Throw, Fault
<1>5. QED
  BY <1>1, <1>2, <1>3, <1>4 DEF Acts

(* Who walks a run after a step did so before, or has just loaded it and   *)
(* found nobody else there.                                                *)
LEMMA WhoWalks ==
    ASSUME FlowTypes, NEW w \in Worker, Acts(w), NEW r \in DOMAIN runs, r \notin raced',
           NEW v \in Worker, Walking(v, r)'
    PROVE  \/ Walking(v, r)
           \/ /\ v = w /\ LoadRun(w) /\ \A x \in Worker : ~ Walking(x, r)
              /\ worker'[w].at = "account"
              /\ worker'[w].graph = GraphOf(r) /\ worker'[w].node = runs[r].node
<1> USE DEF Walking, RunOf
<1>1. CASE v # w
  BY <1>1, OthersStand
<1>2. CASE v = w /\ worker[w].at \in OnItsWay
  BY <1>2, ActsStay DEF OnItsWay
<1>3. CASE v = w /\ LoadRun(w)
  <2>1. /\ worker \in [Worker -> WorkerState] /\ runs \in Seq(Run) /\ jobs \in Seq(FlowJob)
        /\ \A f \in Workflow : flow[f].graph \in Graph
        /\ worker[w].job \in DOMAIN jobs /\ JobOf(w).run \in DOMAIN runs
    <3>1. worker[w].job \in DOMAIN jobs
      BY <1>3, HandKnown DEF LoadRun, Awaits, InHand, WalkStep
    <3>2. QED
      BY <3>1, HandKnown DEF FlowTypes, RunsFit, QueuesFit, JobOf
  <2>2. worker'[w].at = "finish" \/ (worker'[w].run = JobOf(w).run /\ worker'[w].at = "account")
    BY <1>3, <2>1, RunLoaded DEF Moves
  <2>3. worker'[w].at = "account" /\ JobOf(w).run = r
    BY <1>3, <2>2 DEF WalkStep, SendStep
  <2>4. Proceeds(runs[r].status, JobOf(w).resume \/ JobOf(w).reply # NoEvent)
    <3>1. ~ Moves(w, "finish")
      BY <2>3 DEF Moves
    <3>2. QED
      BY <1>3, <2>1, <2>3, <3>1, RunLoaded
  <2>5. worker'[w] = [worker[w] EXCEPT !.at = "account", !.run = r,
                        !.graph = flow[runs[r].workflow].graph,
                        !.node = runs[r].node, !.vars = runs[r].vars, !.reply = JobOf(w).reply,
                        !.loaded = runs[r].status]
    BY <1>3, <2>1, <2>3, <2>4 DEF LoadRun
  <2>6. worker'[w].graph = GraphOf(r) /\ worker'[w].node = runs[r].node
    <3>1. worker[w] \in WorkerState
      BY <2>1
    <3>2. QED
      BY <2>5, <3>1 DEF WorkerState, GraphOf
  <2>7. \A x \in Worker : ~ Walking(x, r)
    BY <1>3, <2>3 DEF LoadRun
  <2>8. QED
    BY <1>3, <2>3, <2>6, <2>7
<1>4. CASE v = w /\ worker[w].at \notin OnItsWay /\ ~ LoadRun(w)
  <2>1. ~ SaveContactField(w) /\ ~ ApplyAction(w)
    BY <1>4 DEF SaveContactField, ApplyAction, Awaits, OnItsWay, WalkStep
  <2>2. PICK step \in Step : Onward(w, step)
    BY <2>1, ActsOnward
  <2>3. worker'[w].at = step /\ step \in Follows(worker[w].at) \cup {"rethrow"}
        /\ worker[w].at \in DispatchStep \cup {"load"}
    BY <1>4, <2>2, HandKnown DEF Onward, Moves, WorkerState, OnItsWay
  <2>4. worker[w].at \notin DispatchStep
    <3>1. step \in OnItsWay
      BY <1>4, <2>3 DEF OnItsWay
    <3>2. QED
      BY <2>3, <3>1 DEF Follows, DispatchStep, OnItsWay, WalkStep, SendStep
  <2>5. Throw(w) /\ worker[w].at = "load"
    BY <1>4, <2>3, <2>4, AtLoad
  <2>6. Goto(w, "rethrow")
    BY <2>5 DEF Throw, Awaits
  <2>7. worker'[w].at = "rethrow"
    BY <2>6, GotoMoves, HandKnown DEF Moves, Step, Settling
  <2>8. QED
    BY <1>4, <2>7 DEF WalkStep, SendStep
<1>5. QED
  BY <1>1, <1>2, <1>3, <1>4

(* What is counted for a run, and the graph its workflow has.              *)
LEMMA SendsKnown ==
    ASSUME FlowTypes, NEW r \in DOMAIN runs
    PROVE  /\ faults \in Nat /\ edits \in Nat /\ delivered[r] \in [Node -> Nat]
           /\ GraphOf(r) \in Graph /\ Messages(GraphOf(r)) \subseteq Node
<1>1. delivered \in Seq([Node -> Nat]) /\ r \in 1..Len(delivered)
  BY LenProperties DEF FlowTypes, RunsFit
<1>2. delivered[r] \in [Node -> Nat]
  BY <1>1, ElementOfSeq
<1>3. faults \in Nat /\ edits \in Nat
  BY WorkflowAssumption DEF FlowTypes, RowsTyped
<1>4. GraphOf(r) \in Graph
  <2>1. runs[r] \in Run
    BY ElementOfSeq, LenProperties DEF FlowTypes, RunsFit
  <2>2. runs[r].workflow \in Workflow
    BY <2>1 DEF Run
  <2>3. QED
    BY <2>2 DEF GraphOf, FlowTypes, RowsTyped
<1>5. Messages(GraphOf(r)) \subseteq Node
  BY <1>4, WorkflowAssumption DEF Messages
<1>6. QED
  BY <1>2, <1>3, <1>4, <1>5

(* A run is counted right when nothing was sent that its row does not tell. *)
LEMMA CountKept ==
    ASSUME NEW a \in Nat, NEW b \in Nat, NEW o \in BOOLEAN, NEW p \in BOOLEAN, NEW f \in Nat,
           NEW g \in {f, f + 1}, a + OneOf(o) <= 1 + f,
           \/ b = a /\ (p => o)
           \/ b = a /\ g = f + 1
           \/ b = a + 1 /\ o /\ (g = f + 1 \/ ~ p)
    PROVE  b + OneOf(p) <= 1 + g
  BY DEF OneOf

(* A step of a handler finds a run walked by one handler, and leaves it so. *)
LEMMA AloneStep ==
    ASSUME FlowTypes, NEW w \in Worker, Acts(w), NEW r \in DOMAIN runs, r \notin raced', Alone(r)
    PROVE  Alone(r)'
<1> SUFFICES ASSUME NEW u \in Worker, NEW v \in Worker, Walking(u, r)', Walking(v, r)'
             PROVE  u = v
  BY DEF Alone
<1>1. QED
  BY WhoWalks DEF Alone

(* Where the step leaves a walk, the row of its run says.                  *)
LEMMA PlaceStep ==
    ASSUME FlowTypes, NEW w \in Worker, Acts(w), NEW r \in DOMAIN runs, r \notin raced', Orderly(r),
           NEW v \in Worker, Walking(v, r)'
    PROVE  InPlace(v, r)'
<1>1. /\ flow' = flow /\ runs'[r].workflow = runs[r].workflow
      /\ GraphOf(r)' = GraphOf(r)
  BY ActsHistory, RowMoves DEF GraphOf
<1>2. ASSUME worker'[v].graph = GraphOf(r),
             worker'[v].at # "schedule" => worker'[v].node = runs'[r].node,
             worker'[v].at \in SendStep /\ worker'[v].node \in Messages(GraphOf(r)) =>
               worker'[v].doing = "message"
      PROVE  InPlace(v, r)'
  <2>1. Messages(GraphOf(r))' = Messages(GraphOf(r))
    BY <1>1 DEF Messages
  <2>2. QED
    BY <1>1, <1>2, <2>1 DEF InPlace
<1>3. \A u \in Worker : Walking(u, r) => InPlace(u, r) /\ RunOf(u) = r /\ worker[u].at \in OnItsWay
  BY DEF Orderly, Walking, OnItsWay
<1>4. worker'[v].at \in OnItsWay
  BY DEF Walking, OnItsWay
<1>5. CASE ~ Walking(v, r)
  <2>1. /\ v = w /\ LoadRun(w) /\ worker'[w].at = "account"
        /\ worker'[w].graph = GraphOf(r) /\ worker'[w].node = runs[r].node
    BY <1>5, WhoWalks
  <2>2. runs'[r].node = runs[r].node
    BY <2>1, RowMoves DEF LoadRun, Awaits, OnItsWay
  <2>3. QED
    BY <1>2, <2>1, <2>2 DEF SendStep
<1>6. CASE Walking(v, r) /\ v # w
  <2>1. /\ worker'[v].at = worker[v].at /\ worker'[v].graph = worker[v].graph
        /\ worker'[v].node = worker[v].node /\ worker'[v].doing = worker[v].doing
    BY <1>6, OthersStand
  <2>2. ~ Walking(w, r)
    BY <1>6 DEF Orderly, Alone
  <2>3. runs'[r].node = runs[r].node
    BY <2>2, RowMoves DEF Walking, OnItsWay
  <2>4. QED
    BY <1>2, <1>3, <1>6, <2>1, <2>3 DEF InPlace
<1>7. CASE Walking(v, r) /\ v = w
  <2>1. /\ worker[w].at \in OnItsWay /\ RunOf(w) = r /\ worker[w].graph = GraphOf(r)
        /\ worker[w].at # "schedule" => worker[w].node = runs[r].node
        /\ worker[w].at \in SendStep /\ worker[w].node \in Messages(GraphOf(r)) =>
             worker[w].doing = "message"
    BY <1>3, <1>7 DEF InPlace
  <2>2. worker'[w].at \notin {"finish", "rethrow", "throttled"}
    BY <1>4, <1>7 DEF OnItsWay, WalkStep, SendStep
  <2>3. CASE LoadAccount(w) \/ WakeRun(w)
    <3>1. worker[w].at \in {"account", "wake"} /\ ~ Advance(w)
      BY <2>3 DEF LoadAccount, WakeRun, Advance, Awaits
    <3>2. runs'[r].node = runs[r].node
      BY <3>1, <2>2, RowMoves DEF BeginDelay, Awaits
    <3>3. QED
      BY <1>2, <1>7, <2>1, <2>3, <3>1, <3>2, WalkerArrives
  <2>4. CASE Advance(w)
    <3>1. worker[w].at = "advance" /\ ~ BeginDelay(w)
      BY <2>4 DEF Advance, BeginDelay, Awaits
    <3>2. worker'[w].node = runs'[r].node
      BY <2>1, <2>2, <2>4, <3>1, RowMoves
    <3>3. QED
      BY <1>2, <1>7, <2>1, <2>4, <3>2, WalkerArrives
  <2>5. CASE ~ LoadAccount(w) /\ ~ WakeRun(w) /\ ~ Advance(w)
    <3>1. /\ worker'[w].node = worker[w].node /\ worker'[w].graph = worker[w].graph
          /\ worker'[w].at \in SendStep =>
               worker[w].at \in SendStep /\ worker'[w].doing = worker[w].doing
      BY <2>1, <2>5, WalkerStays
    <3>2. worker[w].at # "schedule"
      <4>1. SUFFICES ASSUME worker[w].at = "schedule" PROVE FALSE
        OBVIOUS
      <4>2. ScheduleResume(w) \/ Throw(w)
        BY <4>1, AtSent
      <4>3. Goto(w, "finish") \/ Goto(w, "rethrow")
        BY <4>1, <4>2 DEF ScheduleResume, Throw, Awaits
      <4>4. worker'[w].at \in {"finish", "rethrow"}
        BY <4>3, HandKnown, GotoMoves DEF Moves, Step, Settling
      <4>5. QED
        BY <2>2, <4>4
    <3>3. worker'[w].at # "schedule" => runs'[r].node = runs[r].node
      BY <2>1, <2>2, <2>5, RowMoves
    <3>4. QED
      BY <1>2, <1>7, <2>1, <3>1, <3>2, <3>3
  <2>6. QED
    BY <2>3, <2>4, <2>5
<1>8. QED
  BY <1>5, <1>6, <1>7

(* Without a fault a run is not sent back before a message it has passed.  *)
LEMMA OwedStep ==
    ASSUME FlowTypes, NEW w \in Worker, Acts(w), NEW r \in DOMAIN runs, r \notin raced', Orderly(r),
           faults' # faults + 1, NEW n \in Messages(GraphOf(r)), NEW S \in Passed(GraphOf(r), n),
           Owed(r, n, S)'
    PROVE  Owed(r, n, S)
<1>1. runs'[r].node \in Node \ S /\ \A v \in Worker : ~ Sent(v, r, n)'
  BY DEF Owed
<1>2. /\ \A v \in Worker : Walking(v, r) => InPlace(v, r)
      /\ \A u, v \in Worker : Walking(u, r) /\ Walking(v, r) => u = v
      /\ n \in Node /\ GraphOf(r) \in Graph /\ NoNode \notin Node
  BY SendsKnown, WorkflowAssumption DEF Orderly, Alone
<1>3. ~ Throw(w)
  BY DEF Throw, Fault
<1>4. CASE runs'[r].node = runs[r].node /\ ~ (Advance(w) /\ r = RunOf(w))
  <2>1. SUFFICES ASSUME NEW v \in Worker, Sent(v, r, n) PROVE Sent(v, r, n)'
    BY <1>1, <1>4, <2>1 DEF Owed
  <2>2. CASE v # w
    BY <2>1, <2>2, OthersStand DEF Sent, Walking, RunOf
  <2>3. CASE v = w
    <3>1. Walking(w, r) /\ RunOf(w) = r /\ worker[w].at \in {"dmRow", "advance"}
          /\ worker[w].node = n
      BY <2>1, <2>3 DEF Sent, Walking
    <3>2. worker[w].at = "dmRow" /\ RecordDm(w)
      BY <1>3, <1>4, <3>1, AtSent
    <3>3. Return(w, TRUE) /\ worker[w].doing = "message"
      BY <1>2, <3>1, <3>2 DEF RecordDm, InPlace, SendStep
    <3>4. worker'[w].at = "advance" /\ worker'[w].node = n
      BY <3>1, <3>3, HandKnown, ReturnsThere
    <3>5. worker'[w].run = worker[w].run
      BY <3>1, ActsStay DEF Walking, OnItsWay
    <3>6. QED
      BY <2>3, <3>1, <3>4, <3>5 DEF Sent, Walking, RunOf, WalkStep, SendStep
  <2>4. QED
    BY <2>2, <2>3
<1>5. CASE ~ (runs'[r].node = runs[r].node /\ ~ (Advance(w) /\ r = RunOf(w)))
  <2>1. Walking(w, r) /\ worker[w].at \in OnItsWay
    BY <1>5, RowMoves DEF Walking, OnItsWay
  <2>2. ASSUME worker[w].node \in Node \ S, worker[w].node = n => worker[w].at \notin {"dmRow", "advance"},
               worker[w].at # "schedule"
        PROVE  Owed(r, n, S)
    <3>1. runs[r].node = worker[w].node
      BY <1>2, <2>1, <2>2 DEF InPlace
    <3>2. \A v \in Worker : ~ Sent(v, r, n)
      BY <1>2, <2>1, <2>2 DEF Sent
    <3>3. QED
      BY <2>2, <3>1, <3>2 DEF Owed
  <2>3. CASE /\ runs'[r].node \in Onto(worker[w].graph, worker[w].node)
             /\ Advance(w) \/ BeginDelay(w)
    <3>1. worker[w].graph = GraphOf(r) /\ worker[w].node \in Node \cup {NoNode}
      BY <1>2, <2>1, HandKnown DEF InPlace, WorkerState
    <3>2. worker[w].node \in Node \ S /\ worker[w].node # n
      BY <1>1, <1>2, <2>3, <3>1, PassedForGood
    <3>3. QED
      BY <2>2, <2>3, <3>2 DEF Advance, BeginDelay, Awaits
  <2>4. CASE runs'[r].node = worker[w].node /\ worker[w].at \in {"pause", "park"}
    BY <1>1, <2>2, <2>4
  <2>5. CASE runs'[r].node = NoNode
    BY <1>1, <1>2, <2>5
  <2>6. QED
    BY <1>5, <2>3, <2>4, <2>5, RowMoves
<1>6. QED
  BY <1>4, <1>5

(* A send is counted for once: its message was owed, and is not any more.  *)
LEMMA CountStep ==
    ASSUME FlowTypes, NEW w \in Worker, Acts(w), NEW r \in DOMAIN runs, r \notin raced', Orderly(r)
    PROVE  SendsCounted(r)'
<1>1. /\ flow' = flow /\ runs'[r].workflow = runs[r].workflow
      /\ GraphOf(r)' = GraphOf(r) /\ faults' \in {faults, faults + 1}
  BY ActsHistory, RowMoves DEF GraphOf
<1>2. SUFFICES ASSUME NEW n \in Messages(GraphOf(r)), NEW S \in Passed(GraphOf(r), n)
               PROVE  delivered'[r][n] + OneOf(Owed(r, n, S)') <= 1 + faults'
  BY <1>1 DEF SendsCounted, Messages, Passed
<1>3. /\ faults \in Nat /\ delivered[r][n] \in Nat /\ n \in Node
      /\ delivered[r][n] + OneOf(Owed(r, n, S)) <= 1 + faults
      /\ Owed(r, n, S) \in BOOLEAN /\ Owed(r, n, S)' \in BOOLEAN
  BY SendsKnown DEF Orderly, SendsCounted, Owed
<1>4. CASE delivered'[r][n] = delivered[r][n]
  <2>1. faults' = faults + 1 \/ (Owed(r, n, S)' => Owed(r, n, S))
    BY OwedStep
  <2>2. QED
    BY <1>1, <1>3, <1>4, <2>1, CountKept
<1>5. CASE /\ delivered'[r][n] = delivered[r][n] + 1
           /\ worker[w].at = "send" /\ RunOf(w) = r /\ worker[w].node = n
           /\ worker'[w].at = "dmRow" \/ faults' = faults + 1
  <2>1. Walking(w, r)
    BY <1>5 DEF Walking, WalkStep, SendStep
  <2>2. runs[r].node = n
    BY <1>5, <2>1 DEF Orderly, InPlace
  <2>3. Owed(r, n, S)
    <3>1. \A v \in Worker : ~ Sent(v, r, n)
      BY <1>5, <2>1 DEF Sent, Orderly, Alone
    <3>2. n \notin S
      BY DEF Passed
    <3>3. QED
      BY <1>3, <2>2, <3>1, <3>2 DEF Owed
  <2>4. worker'[w].at = "dmRow" => ~ Owed(r, n, S)'
    <3>1. SUFFICES ASSUME worker'[w].at = "dmRow" PROVE Sent(w, r, n)'
      BY DEF Owed
    <3>2. worker[w].at \in OnItsWay /\ ~ LoadAccount(w) /\ ~ WakeRun(w) /\ ~ Advance(w)
      BY <1>5 DEF OnItsWay, SendStep, LoadAccount, WakeRun, Advance, Awaits
    <3>3. worker'[w].run = worker[w].run /\ worker'[w].node = n
      BY <1>5, <3>2, ActsStay, WalkerStays
    <3>4. QED
      BY <1>5, <3>1, <3>3 DEF Sent, Walking, RunOf, SendStep
  <2>5. OneOf(Owed(r, n, S)) = 1
    BY <2>3 DEF OneOf
  <2>6. PICK owed \in {0, 1} : owed = OneOf(Owed(r, n, S)') /\ (worker'[w].at = "dmRow" => owed = 0)
    BY <2>4 DEF OneOf
  <2>7. QED
    BY <1>1, <1>3, <1>5, <2>5, <2>6
<1>6. QED
  BY <1>3, <1>4, <1>5, DmsDelivered

(* A run that was just created has sent nothing, and nobody walks it yet.  *)
LEMMA NewRunOrderly ==
    ASSUME FlowTypes, FlowTypes', NEW w \in Worker, Acts(w), NEW r \in DOMAIN runs' \ DOMAIN runs
    PROVE  Orderly(r)'
<1>1. CreateRun(w)
  <2>1. CASE runs' = runs
    BY <2>1
  <2>2. CASE \E q, row : runs' = [runs EXCEPT ![q] = row]
    BY <2>2
  <2>3. SUFFICES ASSUME ~ CreateRun(w) PROVE runs' = runs \/ \E q, row : runs' = [runs EXCEPT ![q] = row]
    BY <2>1, <2>2
  <2>4. CASE DispatchProgress(w)
    BY <2>3, <2>4 DEF DispatchProgress, Dedup, Resolve, RecordProcessed, Unsubscribe,
       FindWaitingRun, ExpireRun, AwakenRun, FeedReply, MatchWorkflow, EnqueueRun, runVars, UpdateRun
  <2>5. CASE WalkProgress(w)
    BY <2>5 DEF WalkProgress, LoadRun, LoadAccount, WakeRun, Advance, Pause, BeginDelay,
       ScheduleResume, SaveContactField, ApplyAction, NotifyHandoff, ParkRun, CompleteRun,
       runVars, UpdateRun
  <2>6. CASE SendProgress(w) \/ SendDmFails(w) \/ Throw(w)
    BY <2>6, SendGrows DEF SendDmFails, Throw, runVars
  <2>7. QED
    BY <2>4, <2>5, <2>6 DEF Acts
<1>2. \A v \in Worker : ~ Walking(v, r)'
  <2>1. worker'[w].at = "enqueue"
    BY ActsRuns
  <2>2. ASSUME NEW v \in Worker \ {w} PROVE ~ Walking(v, r)'
    <3>1. Walking(v, r)' <=> Walking(v, r)
      BY OthersStand DEF Walking, RunOf
    <3>2. Walking(v, r) => r \in DOMAIN runs
      BY HandKnown DEF Walking, RunOf, OnItsWay
    <3>3. QED
      BY <3>1, <3>2
  <2>3. QED
    BY <2>1, <2>2 DEF Walking, WalkStep, SendStep
<1>3. \A n \in Node : delivered'[r][n] = 0
  <2>1. /\ r = Len(delivered) + 1 /\ delivered \in Seq([Node -> Nat])
    BY <1>1, RunCreated DEF FlowTypes, RunsFit
  <2>2. delivered' = Append(delivered, [n \in Node |-> 0])
    BY <1>1 DEF CreateRun
  <2>3. delivered'[r] = [n \in Node |-> 0]
    BY <2>1, <2>2, AppendGrows
  <2>4. QED
    BY <2>3
<1>4. faults' \in Nat /\ (\A n \in Messages(GraphOf(r))' : n \in Node)
  <2>1. runs'[r] \in Run
    BY ElementOfSeq, LenProperties DEF FlowTypes, RunsFit
  <2>2. GraphOf(r)' \in Graph
    BY <2>1 DEF GraphOf, Run, FlowTypes, RowsTyped
  <2>3. QED
    BY <2>2, WorkflowAssumption DEF Messages, FlowTypes, RowsTyped
<1>5. SendsCounted(r)'
  BY <1>3, <1>4 DEF SendsCounted, OneOf
<1>6. QED
  BY <1>2, <1>5 DEF Orderly, Alone

(* A step that sends nothing and moves no walk of a run.                   *)
LEMMA OrderKept ==
    ASSUME FlowTypes, NEW r \in DOMAIN runs, Orderly(r),
           UNCHANGED <<delivered, flow>>, faults' \in {faults, faults + 1},
           runs'[r].workflow = runs[r].workflow, runs'[r].node = runs[r].node,
           \A v \in Worker : \/ worker'[v] = worker[v]
                             \/ ~ Walking(v, r)' /\ (faults' = faults => ~ Walking(v, r))
    PROVE  Orderly(r)'
<1>1. GraphOf(r)' = GraphOf(r)
  BY DEF GraphOf
<1>2. ASSUME NEW v \in Worker, Walking(v, r)'
      PROVE  Walking(v, r) /\ worker'[v] = worker[v]
  BY <1>2 DEF Walking, RunOf
<1>3. Alone(r)'
  BY <1>2 DEF Alone, Orderly
<1>4. ASSUME NEW v \in Worker, Walking(v, r)' PROVE InPlace(v, r)'
  BY <1>1, <1>2, <1>4 DEF InPlace, Orderly, Messages
<1>5. SendsCounted(r)'
  <2>1. SUFFICES ASSUME NEW n \in Messages(GraphOf(r)), NEW S \in Passed(GraphOf(r), n)
                 PROVE  delivered'[r][n] + OneOf(Owed(r, n, S)') <= 1 + faults'
    BY <1>1 DEF SendsCounted, Messages, Passed
  <2>2. /\ faults \in Nat /\ delivered[r][n] \in Nat
        /\ delivered[r][n] + OneOf(Owed(r, n, S)) <= 1 + faults
        /\ Owed(r, n, S) \in BOOLEAN /\ Owed(r, n, S)' \in BOOLEAN
    BY SendsKnown DEF Orderly, SendsCounted, Owed
  <2>3. faults' = faults /\ Owed(r, n, S)' => Owed(r, n, S)
    BY DEF Owed, Sent, Walking, RunOf
  <2>4. QED
    BY <2>2, <2>3, CountKept
<1>6. QED
  BY <1>3, <1>4, <1>5 DEF Orderly

(* What moves no handler leaves a run where it is, unless it is an edit.   *)
LEMMA ApartOrder ==
    ASSUME FlowTypes, Apart, edits' = 0
    PROVE  /\ DOMAIN runs' = DOMAIN runs /\ edits = 0
           /\ UNCHANGED <<delivered, flow, raced, worker>> /\ faults' \in {faults, faults + 1}
           /\ \A r \in DOMAIN runs :
                runs'[r].workflow = runs[r].workflow /\ runs'[r].node = runs[r].node
<1>1. UNCHANGED <<delivered, raced, worker>>
  BY ApartKeeps DEF historyVars
<1>2. edits \in Nat /\ \A q \in DOMAIN runs : runs[q] \in Run
  BY WorkflowAssumption, ElementOfSeq, LenProperties DEF FlowTypes, RunsFit, RowsTyped
<1>3. ~ Edit
  BY <1>2 DEF Edit
<1>4. flow' = flow /\ edits' = edits /\ faults' \in {faults, faults + 1}
  BY <1>3 DEF Apart, Deliver, Evict, Recover, RecoverJob, StopRun, LoseStop, WaitLapses,
     ChangeWorkflow, ChangeTenant, vars, tenantVars, budgetVars, Fault
<1>5. CASE \E q \in DOMAIN runs : StopRun(q)
  <2>1. PICK q \in DOMAIN runs : StopRun(q)
    BY <1>5
  <2>2. PICK row : row = [runs[q] EXCEPT !.status = "FAILED"]
    OBVIOUS
  <2>3. runs' = [runs EXCEPT ![q] = row]
    BY <2>1, <2>2 DEF StopRun, UpdateRun
  <2>4. row.workflow = runs[q].workflow /\ row.node = runs[q].node
    BY <1>2, <2>2 DEF Run
  <2>5. QED
    BY <1>1, <1>4, <2>3, <2>4
<1>6. CASE ~ \E q \in DOMAIN runs : StopRun(q)
  <2>1. runs' = runs
    BY <1>3, <1>6 DEF Apart, Deliver, Evict, Recover, RecoverJob, LoseStop, WaitLapses,
       ChangeWorkflow, ChangeTenant, vars, runVars
  <2>2. QED
    BY <1>1, <1>4, <2>1
<1>7. QED
  BY <1>5, <1>6

LEMMA SendsStep == FlowTypes /\ FlowTypes' /\ SendsInv /\ [Next]_vars => SendsInv'
<1> SUFFICES ASSUME FlowTypes, FlowTypes', SendsInv, [Next]_vars,
                    NEW r \in DOMAIN runs', r \notin raced', edits' = 0
             PROVE  Orderly(r)'
  BY DEF SendsInv
<1>1. CASE Apart
  <2>1. /\ r \in DOMAIN runs /\ edits = 0
        /\ UNCHANGED <<delivered, flow, raced, worker>> /\ faults' \in {faults, faults + 1}
        /\ runs'[r].workflow = runs[r].workflow /\ runs'[r].node = runs[r].node
    BY <1>1, ApartOrder
  <2>2. Orderly(r)
    BY <2>1 DEF SendsInv
  <2>3. QED
    BY <2>1, <2>2, OrderKept
<1>2. ASSUME NEW w \in Worker, Acts(w) PROVE Orderly(r)'
  <2>1. CASE r \in DOMAIN runs
    <3>1. Orderly(r)
      BY <1>2, <2>1, ActsHistory DEF SendsInv
    <3>2. QED
      BY <1>2, <2>1, <3>1, AloneStep, PlaceStep, CountStep DEF Orderly
  <2>2. CASE r \notin DOMAIN runs
    BY <1>2, <2>2, NewRunOrderly
  <2>3. QED
    BY <2>1, <2>2
<1>3. ASSUME NEW w \in Worker, \/ \E e \in Event : TakeHook(w, e)
                               \/ \E i \in DOMAIN jobs : TakeJob(w, i)
                               \/ Settle(w) \/ Crash(w)
      PROVE  Orderly(r)'
  <2>1. /\ UNCHANGED <<runs, flow, delivered, raced, edits>> /\ faults' \in {faults, faults + 1}
    BY <1>3 DEF TakeHook, TakeJob, Settle, Crash, runVars, tenantVars, historyVars, budgetVars,
       Fault
  <2>2. r \in DOMAIN runs /\ Orderly(r)
    BY <2>1 DEF SendsInv
  <2>3. Aside(w) /\ worker'[w].at \in {"idle", "dedup", "load"}
        /\ (worker[w].at \in Settling \cup {"idle"} \/ faults' = faults + 1)
    <3>1. worker \in [Worker -> WorkerState] /\ \A i \in DOMAIN jobs : i \in Nat
      BY HandKnown, LenProperties DEF FlowTypes, QueuesFit
    <3>2. Free.at = "idle"
      BY DEF Free
    <3>3. CASE Settle(w) \/ Crash(w)
      BY <3>1, <3>2, <3>3, HandlerEnds DEF Settle, Crash, Fault
    <3>4. CASE ~ (Settle(w) \/ Crash(w))
      BY <1>3, <3>1, <3>4, HookTaken, JobTaken
    <3>5. QED
      BY <3>3, <3>4
  <2>4. ~ Walking(w, r)' /\ (faults' = faults => ~ Walking(w, r))
    <3>1. faults \in Nat
      BY CountsKnown
    <3>2. QED
      BY <2>3, <3>1 DEF Walking, WalkStep, SendStep, Settling
  <2>5. \A v \in Worker : worker'[v] = worker[v] \/ v = w
    BY <2>3 DEF Aside
  <2>6. QED
    BY <2>1, <2>2, <2>4, <2>5, OrderKept
<1>4. QED
  BY <1>1, <1>2, <1>3, NextCases

LEMMA SendsInit == Init => SendsInv
  BY DEF Init, StateInit, SendsInv

LEMMA SendsInvariant == Spec => []SendsInv
  BY SendsInit, SendsStep, TypesInvariant, PTL DEF Spec

(* A run sends a message that no cycle leads back to at most once, and     *)
(* once more per fault, unless two handlers walked it at once or a graph   *)
(* was changed: for any graphs, whatever replies, redeliveries, retries    *)
(* and crashes come between the send and the update of the run's cursor.   *)
THEOREM FlowDmsTheorem == Spec => []FlowDmsCostFaults
<1>1. FlowTypes /\ SendsInv => FlowDmsCostFaults
  <2> SUFFICES ASSUME FlowTypes, SendsInv, NEW r \in DOMAIN runs, r \notin raced, ~ (edits > 0),
                      NEW n \in Messages(GraphOf(r)), <<GraphOf(r), n>> \in OnNoCycle
               PROVE  delivered[r][n] <= 1 + faults
    BY DEF FlowDmsCostFaults, Messages, GraphOf
  <2>1. /\ faults \in Nat /\ edits = 0 /\ n \in Node /\ delivered[r][n] \in Nat
    BY SendsKnown
  <2>2. PICK S : S \in Passed(GraphOf(r), n)
    BY DEF OnNoCycle, Passed
  <2>3. delivered[r][n] + OneOf(Owed(r, n, S)) <= 1 + faults
    BY <2>1, <2>2 DEF SendsInv, Orderly, SendsCounted
  <2>4. OneOf(Owed(r, n, S)) \in {0, 1}
    BY DEF OneOf
  <2>5. PICK o \in {0, 1} : o = OneOf(Owed(r, n, S))
    BY <2>4
  <2>6. QED
    BY <2>1, <2>3, <2>5
<1>2. QED
  BY <1>1, TypesInvariant, SendsInvariant, PTL
==============================================================================
