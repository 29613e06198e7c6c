--------------------------- MODULE MC_PlanConfig ---------------------------
(***************************************************************************)
(* PlanConfig on a small instance: two plans and two concurrent request  *)
(* goroutines.                                                             *)
(***************************************************************************)
EXTENDS PlanConfig, TLC

CONSTANTS p1, p2, planA, planB

=============================================================================
