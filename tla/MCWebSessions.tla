---------------------------- MODULE MCWebSessions ----------------------------
(* Instances of WebSessions: two requests at once, two tabs. *)
EXTENDS WebSessions, TLC

CONSTANTS h1, h2, t1, t2

MCHandlers == {h1, h2}
MCTabs == {t1, t2}
Symmetry == Permutations(MCHandlers) \cup Permutations(MCTabs)
==============================================================================
