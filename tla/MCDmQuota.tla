------------------------------ MODULE MCDmQuota ------------------------------
(***************************************************************************)
(* DmQuota with three concurrent attempts, two billing periods and plans   *)
(* that go from one DM to two to unlimited and back.                       *)
(***************************************************************************)
EXTENDS DmQuota, TLC

CONSTANTS s1, s2, s3, p1, p2

MCSender == {s1, s2, s3}
MCPeriod == {p1, p2}
MCLimit == {1, 2, Unlimited}
Symmetry == Permutations(MCSender) \cup Permutations(MCPeriod)

==============================================================================
