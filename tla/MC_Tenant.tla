------------------------------ MODULE MC_Tenant ------------------------------
(***************************************************************************)
(* Model values for checking the tenant DAO with TLC.                     *)
(***************************************************************************)
EXTENDS Tenant, TLC

CONSTANTS p1, p2, alpha

MCProcs == {p1, p2}
MCNames == {alpha}
MCSymmetry == Permutations(MCProcs)

=============================================================================
