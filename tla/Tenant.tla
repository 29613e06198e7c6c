------------------------------- MODULE Tenant -------------------------------
(***************************************************************************)
(* The tenant DAO of src/pkg/db/model/plan.go (tenant, lines 67-149),     *)
(* called by concurrent request goroutines over the tenants table.       *)
(*                                                                         *)
(* Create and Update are one statement each.  Delete is two: Get (a       *)
(* SELECT ... First) and a DELETE ... WHERE id, with no transaction, and  *)
(* it returns the object its Get read.  Every statement may fail with a   *)
(* database error when Failures is TRUE.  A row is its name, its          *)
(* resource_version and a value standing for the other columns.  The      *)
(* model.Tenant declaration is not in the repository; its name is taken  *)
(* to be unique, as the repository's Plan and Node declare theirs.        *)
(***************************************************************************)
EXTENDS Naturals

CONSTANTS
    Procs,          \* request goroutines
    Names,          \* tenant names
    MaxTenants,     \* ids the auto-increment may hand out
    MaxRequests,    \* bound on the requests served
    NoTenant,       \* Delete's (nil, nil)
    DeleteError,    \* Delete's (nil, err)
    Failures        \* whether a statement may fail

TenantIds == 1..MaxTenants
Tags == 0..MaxRequests
Row == [name : Names, rv : Nat, val : Tags]

VARIABLES
    tenants,    \* tenants table: id -> row
    nextId,     \* the table's next auto-increment id
    pc,         \* goroutine -> "idle", or "d_exec" after Delete's Get
    tid,        \* goroutine -> the tid of its Delete
    obj,        \* goroutine -> the object Delete's Get returned
    ret,        \* goroutine -> what its last Delete returned
    requests    \* requests served

vars == <<tenants, nextId, pc, tid, obj, ret, requests>>

TypeOK ==
    /\ DOMAIN tenants \subseteq TenantIds /\ tenants \in [DOMAIN tenants -> Row]
    /\ nextId \in 1..(MaxTenants + 1)
    /\ pc \in [Procs -> {"idle", "d_exec"}]
    /\ tid \in [Procs -> TenantIds]
    /\ obj \in [Procs -> Row]
    /\ ret \in [Procs -> Row \cup {NoTenant, DeleteError}]
    /\ requests \in 0..MaxRequests

Init ==
    /\ tenants = [i \in {} |-> [name |-> CHOOSE n \in Names : TRUE, rv |-> 0, val |-> 0]]
    /\ nextId = 1
    /\ pc = [p \in Procs |-> "idle"]
    /\ tid = [p \in Procs |-> 1]
    /\ obj = [p \in Procs |-> [name |-> CHOOSE n \in Names : TRUE, rv |-> 0, val |-> 0]]
    /\ ret = [p \in Procs |-> NoTenant]
    /\ requests = 0

Arrive(p) ==
    /\ pc[p] = "idle"
    /\ requests < MaxRequests
    /\ requests' = requests + 1

\* tenant.Get / GetTenantByName: WHERE id (name) = ? ... First; a missing
\* row is (nil, nil).
Get(t) == IF t \in DOMAIN tenants THEN tenants[t] ELSE NoTenant
NameTaken(n) == \E i \in DOMAIN tenants : tenants[i].name = n
GetTenantByName(n) ==
    IF NameTaken(n) THEN tenants[CHOOSE i \in DOMAIN tenants : tenants[i].name = n]
                    ELSE NoTenant

\* tenant.List: every row.
List == {tenants[i] : i \in DOMAIN tenants}

\* tenant.Create: INSERT with the next auto-increment id; a taken name
\* violates the unique index and is an error.
Create(p) ==
    /\ Arrive(p)
    /\ \E n \in Names :
        \/ /\ ~NameTaken(n)
           /\ nextId \in TenantIds
           /\ tenants' = [i \in DOMAIN tenants \cup {nextId} |->
                            IF i = nextId THEN [name |-> n, rv |-> 0, val |-> requests + 1]
                                          ELSE tenants[i]]
           /\ nextId' = nextId + 1
        \/ /\ NameTaken(n) \/ Failures
           /\ UNCHANGED <<tenants, nextId>>
    /\ UNCHANGED <<pc, tid, obj, ret>>

\* tenant.Update(tid, resourceVersion, updates): UPDATE ... SET
\* resource_version = resourceVersion + 1 WHERE id = tid AND
\* resource_version = resourceVersion; no row affected is
\* ErrRecordNotFound.
UpdateMatches(t, version) == t \in DOMAIN tenants /\ tenants[t].rv = version

Update(p) ==
    /\ Arrive(p)
    /\ \E t \in TenantIds, version \in 0..MaxRequests :
        \/ /\ UpdateMatches(t, version)
           /\ tenants' = [tenants EXCEPT ![t] = [@ EXCEPT !.rv = version + 1,
                                                           !.val = requests + 1]]
        \/ /\ ~UpdateMatches(t, version) \/ Failures
           /\ UNCHANGED tenants
    /\ UNCHANGED <<nextId, pc, tid, obj, ret>>

\* tenant.Delete, first statement: object, err := t.Get(ctx, tid).  An
\* error returns (nil, err); no row returns (nil, nil).
DeleteGet(p) ==
    /\ Arrive(p)
    /\ \E t \in TenantIds :
        /\ tid' = [tid EXCEPT ![p] = t]
        /\ \/ /\ t \in DOMAIN tenants
              /\ obj' = [obj EXCEPT ![p] = tenants[t]]
              /\ pc' = [pc EXCEPT ![p] = "d_exec"]
              /\ UNCHANGED ret
           \/ /\ t \notin DOMAIN tenants
              /\ ret' = [ret EXCEPT ![p] = NoTenant]
              /\ UNCHANGED <<obj, pc>>
           \/ /\ Failures
              /\ ret' = [ret EXCEPT ![p] = DeleteError]
              /\ UNCHANGED <<obj, pc>>
    /\ UNCHANGED <<tenants, nextId>>

\* tenant.Delete, second statement: DELETE FROM tenants WHERE id = tid,
\* whatever it removes, and return the object of the Get.
DeleteExec(p) ==
    /\ pc[p] = "d_exec"
    /\ \/ /\ tenants' = [i \in DOMAIN tenants \ {tid[p]} |-> tenants[i]]
          /\ ret' = [ret EXCEPT ![p] = obj[p]]
       \/ /\ Failures
          /\ ret' = [ret EXCEPT ![p] = DeleteError]
          /\ UNCHANGED tenants
    /\ pc' = [pc EXCEPT ![p] = "idle"]
    /\ UNCHANGED <<nextId, tid, obj, requests>>

Next == \E p \in Procs : Create(p) \/ Update(p) \/ DeleteGet(p) \/ DeleteExec(p)

Spec == Init /\ [][Next]_vars

-----------------------------------------------------------------------------
\* The tenant DAO implements TenantStore, its atomic specification: every
\* Delete that returns a tenant removed that very row, so two Deletes of one
\* tenant never both report it deleted, and a Delete never reports a
\* version that a concurrent Update already replaced.
AbstractStore == INSTANCE TenantStore
ImplementsTenantStore == AbstractStore!Spec

=============================================================================
