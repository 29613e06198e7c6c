--------------------------- MODULE MC_KubeConfigs ---------------------------
(***************************************************************************)
(* KubeConfigs on a small instance: three request goroutines and one or two *)
(* account names, which is what it takes for two requests to race on the  *)
(* same account and for a stale row to share its name with a fresh one.   *)
(***************************************************************************)
EXTENDS KubeConfigs, TLC

CONSTANTS p1, p2, p3, alice, bob

MCProcs == {p1, p2, p3}
MCSymmetry == Permutations({p1, p2, p3})

=============================================================================
