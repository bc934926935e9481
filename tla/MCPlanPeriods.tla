---------------------------- MODULE MCPlanPeriods ----------------------------
(* An instance of PlanPeriods for TLC: months of two, one and one days. *)
EXTENDS PlanPeriods
Calendar == <<1, 3, 4, 5>>
EarlierTerm == {<<1, 4>>}
=============================================================================
