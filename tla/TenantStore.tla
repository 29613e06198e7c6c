---------------------------- MODULE TenantStore ----------------------------
(***************************************************************************)
(* What the tenant DAO of src/pkg/db/model/plan.go promises its callers,  *)
(* as an atomic store: each call takes effect, and returns, in one step.  *)
(*                                                                         *)
(*  - Create adds a tenant under an id and a name no tenant has;          *)
(*  - Update of a tenant at the caller's version bumps its version by one *)
(*    and stores the new value;                                           *)
(*  - Delete of a tenant removes it and returns the row it removed; of an *)
(*    id with no tenant it returns nil, nil;                              *)
(*  - any call may instead fail with an error and change nothing.        *)
(*                                                                         *)
(* ret[p] is what the last Delete of caller p returned.                  *)
(***************************************************************************)
EXTENDS Naturals

CONSTANTS Procs, Names, MaxTenants, MaxRequests, NoTenant, DeleteError

TenantIds == 1..MaxTenants
Vals == 0..MaxRequests

VARIABLES tenants, ret

vars == <<tenants, ret>>

Init ==
    /\ tenants = [i \in {} |-> [name |-> CHOOSE n \in Names : TRUE, rv |-> 0, val |-> 0]]
    /\ ret = [p \in Procs |-> NoTenant]

Create ==
    \E id \in TenantIds \ DOMAIN tenants, n \in Names, v \in Vals :
        /\ \A i \in DOMAIN tenants : tenants[i].name # n
        /\ tenants' = [i \in DOMAIN tenants \cup {id} |->
                         IF i = id THEN [name |-> n, rv |-> 0, val |-> v] ELSE tenants[i]]
        /\ UNCHANGED ret

Update ==
    \E t \in DOMAIN tenants, v \in Vals :
        /\ tenants' = [tenants EXCEPT ![t].rv = @ + 1, ![t].val = v]
        /\ UNCHANGED ret

Delete(p) ==
    \E t \in TenantIds :
        IF t \in DOMAIN tenants
        THEN /\ tenants' = [i \in DOMAIN tenants \ {t} |-> tenants[i]]
             /\ ret' = [ret EXCEPT ![p] = tenants[t]]
        ELSE /\ ret' = [ret EXCEPT ![p] = NoTenant]
             /\ UNCHANGED tenants

DeleteFails(p) ==
    /\ ret' = [ret EXCEPT ![p] = DeleteError]
    /\ UNCHANGED tenants

Next == Create \/ Update \/ \E p \in Procs : Delete(p) \/ DeleteFails(p)

Spec == Init /\ [][Next]_vars

=============================================================================
