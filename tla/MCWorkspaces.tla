----------------------------- MODULE MCWorkspaces -----------------------------
(***************************************************************************)
(* An instance of Workspaces: two workspaces that may each have one        *)
(* account contend for one Instagram identity.                             *)
(***************************************************************************)
EXTENDS Workspaces, TLC

CONSTANTS h1, h2, a1, a2, i1

MCHandlers == {h1, h2}
MCOrgs == {a1, a2}
MCIdentities == {i1}
Symmetry == Permutations(MCHandlers) \cup Permutations(MCOrgs)
==============================================================================
