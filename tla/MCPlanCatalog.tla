---------------------------- MODULE MCPlanCatalog ----------------------------
(* Three versions, two editors and windows over three instants, reversed    *)
(* and open ones among them.                                                *)
EXTENDS PlanCatalog, TLC

CONSTANTS v1, v2, v3, e1, e2

MCVersions == {v1, v2, v3}
MCEditors == {e1, e2}
MCInstants == 0..1
Symmetry == Permutations(MCVersions) \cup Permutations(MCEditors)
=============================================================================
