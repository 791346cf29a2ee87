------------------------------ MODULE MCBilling ------------------------------
(***************************************************************************)
(* Instances of Billing.  A month of two days and a year of three let      *)
(* periods be reminded of, end, lapse and roll within a short behaviour.   *)
(***************************************************************************)
EXTENDS Billing, TLC

CONSTANTS h1, h2, o1, o2

MCHandlers == {h1, h2}
Symmetry == Permutations(MCHandlers)
MCOrder == {o1}
MCOrders == {o1, o2}
MCDays == [monthly |-> 2, yearly |-> 3]
MCMonths == [monthly |-> 2]
==============================================================================
