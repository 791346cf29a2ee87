----------------------------- MODULE EventClaim ------------------------------
(***************************************************************************)
(* What the pipeline promises of an event, however often Meta delivers it  *)
(* and however many workers see it: one delivery decides what becomes of   *)
(* it, once; and if that is a rule, one execution job for that rule may    *)
(* follow, once.                                                           *)
(***************************************************************************)
CONSTANTS Event, Rule, NoRule

VARIABLES
    decided,    \* the events whose fate is settled
    owner,      \* the rule an event was matched to, NoRule if to none
    jobs        \* the rules execution jobs were created for

claimVars == <<decided, owner, jobs>>

ClaimInit ==
    /\ decided = {}
    /\ owner = [e \in Event |-> NoRule]
    /\ jobs = [e \in Event |-> <<>>]

Decide(e) ==
    /\ e \notin decided
    /\ decided' = decided \cup {e}
    /\ \E r \in Rule \cup {NoRule} : owner' = [owner EXCEPT ![e] = r]
    /\ UNCHANGED jobs

HandOver(e) ==
    /\ e \in decided
    /\ owner[e] # NoRule
    /\ jobs[e] = <<>>
    /\ jobs' = [jobs EXCEPT ![e] = <<owner[e]>>]
    /\ UNCHANGED <<decided, owner>>

ClaimNext == \E e \in Event : Decide(e) \/ HandOver(e)

ClaimSpec == ClaimInit /\ [][ClaimNext]_claimVars
==============================================================================
