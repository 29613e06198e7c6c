---------------------------- MODULE MC_UserRoles ----------------------------
(***************************************************************************)
(* UserRoles on a small instance: two request goroutines, two roles, and a *)
(* menu tree of one left-hand menu m1 with one button b1 under it that     *)
(* only role r1 grants.                                                     *)
(***************************************************************************)
EXTENDS UserRoles, TLC

CONSTANTS p1, p2, r1, r2, m1, b1

MCProcs == {p1, p2}
MCRoles == {r1, r2}
MCMenus == {m1, b1}
MCMenuParent == (m1 :> 0) @@ (b1 :> m1)
MCMenuType == (m1 :> 1) @@ (b1 :> 2)
MCRoleMenu == {<<r1, m1>>, <<r1, b1>>}
MCSymmetry == Permutations({p1, p2})

=============================================================================
