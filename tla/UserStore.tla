----------------------------- MODULE UserStore -----------------------------
(***************************************************************************)
(* What the user DAO of src/pkg/db/model/plan.go promises its callers, as *)
(* an atomic store: each call takes effect in one step.                   *)
(*                                                                         *)
(*  - Create adds a user under an id no user has;                         *)
(*  - Update of an existing user bumps its resource_version by one and    *)
(*    stores the new value;                                               *)
(*  - Delete removes a user, if there is one;                             *)
(*  - SetUserRoles replaces the user's role set by the one given, as a    *)
(*    whole; DeleteRolesByUserID empties it.                              *)
(*                                                                         *)
(* Reads (Get, List, GetByName, GetRoleIDByUser and the menu queries)    *)
(* change nothing and are not actions.                                     *)
(***************************************************************************)
EXTENDS Naturals

CONSTANTS Roles, MaxUsers, MaxRequests

UserIds == 1..MaxUsers
Vals == 0..MaxRequests

VARIABLES users, userRole

vars == <<users, userRole>>

Init ==
    /\ users = [i \in {} |-> [rv |-> 0, val |-> 0]]
    /\ userRole = {}

Create ==
    \E id \in UserIds \ DOMAIN users, v \in Vals :
        /\ users' = [i \in DOMAIN users \cup {id} |->
                       IF i = id THEN [rv |-> 0, val |-> v] ELSE users[i]]
        /\ UNCHANGED userRole

Update ==
    \E u \in DOMAIN users, v \in Vals :
        /\ users' = [users EXCEPT ![u] = [rv |-> users[u].rv + 1, val |-> v]]
        /\ UNCHANGED userRole

Delete ==
    \E u \in UserIds :
        /\ users' = [i \in DOMAIN users \ {u} |-> users[i]]
        /\ UNCHANGED userRole

\* The role rows of the users other than u.
Others(u) == {x \in userRole : x[1] # u}

SetUserRoles ==
    \E u \in UserIds, R \in SUBSET Roles :
        /\ userRole' = Others(u) \cup {<<u, r>> : r \in R}
        /\ UNCHANGED users

DeleteRolesByUserID ==
    \E u \in UserIds :
        /\ userRole' = Others(u)
        /\ UNCHANGED users

Next == Create \/ Update \/ Delete \/ SetUserRoles \/ DeleteRolesByUserID

Spec == Init /\ [][Next]_vars

=============================================================================
