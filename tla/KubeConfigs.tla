---------------------------- MODULE KubeConfigs ----------------------------
(***************************************************************************)
(* The kubeConfigs service of package core (src/unnamed/part_000): Create, *)
(* Update and Delete of the kubeconfig credentials pixiu issues for a      *)
(* cloud.  Each credential is a ServiceAccount and a ClusterRoleBinding in *)
(* kube-system, both named after the account, a TokenRequest token for the *)
(* account, and a row of the kube_config table that holds the encrypted    *)
(* kubeconfig document.                                                    *)
(*                                                                         *)
(* Requests are served concurrently (one goroutine per HTTP request), and  *)
(* every call to the API server or the database is a step of its own: a    *)
(* request's steps interleave with those of the others, and each call may *)
(* fail, after which the handler returns at once without undoing what it   *)
(* already did.                                                            *)
(*                                                                         *)
(* Data is abstracted to what the properties tell apart: an account is     *)
(* known by its name and its generation (the API server gives a re-created *)
(* account a new UID, and a token is bound to the UID it was issued for),  *)
(* a token by the generation it is bound to, a row by its id, account name, *)
(* token and resource_version.  The kubeconfig document, the CA data and    *)
(* the encryption are left out: they are fixed for a cloud and no property *)
(* depends on their text.                                                  *)
(***************************************************************************)
EXTENDS Naturals, FiniteSets

CONSTANTS
    Procs,          \* the request goroutines
    Names,          \* kubeConfig.ServiceAccount values clients send
    MaxRequests,    \* bound on the requests served in a behaviour
    Failures        \* whether a call may fail for a transient reason

ASSUME KubeConfigsAssumption ==
    /\ IsFiniteSet(Procs) /\ Names # {}
    /\ MaxRequests \in Nat \ {0}
    /\ Failures \in BOOLEAN

\* Ids the kube_config table may hand out (auto increment from 1): at most
\* one per request.
Ids == 1..MaxRequests

\* Account generations: 0 means "no such ServiceAccount"; an account that
\* exists at the start has generation 1, and each request creates at most
\* one more.
Gens == 0..(MaxRequests + 1)

\* A kube_config row: the account it names, the generation of the account
\* its token was issued for, and its resource_version.
Rows == [sa : Names, gen : Gens, rv : 0..(2 * MaxRequests)]

\* Where a request goroutine is: idle, or about to make the named call.
PCs == {"idle",
        "c_crb", "c_token", "c_db",
        "u_token", "u_db",
        "d_crb", "d_sa", "d_db"}

VARIABLES
    sa,         \* ServiceAccounts in kube-system: name -> generation (0: absent)
    lastGen,    \* the last generation the API server gave each name
    crb,        \* names of the ClusterRoleBindings
    rows,       \* the kube_config table: id -> row
    nextId,     \* the next auto-increment id
    pc,         \* request goroutine -> next call
    name,       \* request goroutine -> account name it works on
    kid,        \* request goroutine -> row id it works on
    snap,       \* request goroutine -> obj.ResourceVersion it read
    tok,        \* request goroutine -> generation of the token it minted
    requests    \* requests served so far

vars == <<sa, lastGen, crb, rows, nextId, pc, name, kid, snap, tok, requests>>
local == <<name, kid, snap, tok>>

TypeOK ==
    /\ sa \in [Names -> Gens]
    /\ lastGen \in [Names -> Gens]
    /\ crb \subseteq Names
    /\ \E ids \in SUBSET Ids : rows \in [ids -> Rows]
    /\ nextId \in 1..(MaxRequests + 1)
    /\ pc \in [Procs -> PCs]
    /\ name \in [Procs -> Names]
    /\ kid \in [Procs -> Ids]
    /\ snap \in [Procs -> 0..(2 * MaxRequests)]
    /\ tok \in [Procs -> Gens]
    /\ requests \in 0..MaxRequests

\* kube-system may already hold accounts and bindings pixiu did not create.
Init ==
    /\ sa \in [Names -> {0, 1}]
    /\ lastGen = sa
    /\ crb \in SUBSET Names
    /\ rows = [i \in {} |-> CHOOSE r \in Rows : TRUE]
    /\ nextId = 1
    /\ pc = [p \in Procs |-> "idle"]
    /\ name = [p \in Procs |-> CHOOSE n \in Names : TRUE]
    /\ kid = [p \in Procs |-> 1]
    /\ snap = [p \in Procs |-> 0]
    /\ tok = [p \in Procs |-> 0]
    /\ requests = 0

\* A handler returns (with an error or not): the goroutine is free again.
Return(p) == pc' = [pc EXCEPT ![p] = "idle"]
Goto(p, l) == pc' = [pc EXCEPT ![p] = l]

\* A call returns an error, the one the API server or the database gives
\* when refused is true, or a transient one (timeout, connection reset) when
\* Failures allows it: the handler logs it and returns.
Error(p, refused) == (refused \/ Failures) /\ Return(p)

\* A request arrives at an idle goroutine.
Arrive(p) ==
    /\ pc[p] = "idle"
    /\ requests < MaxRequests
    /\ requests' = requests + 1

-----------------------------------------------------------------------------
(***************************************************************************)
(* Create: ServiceAccounts().Create, ClusterRoleBindings().Create, newCA   *)
(* and createToken, then KubeConfig().Create.  Every error returns at once *)
(* and nothing made before it is removed.                                  *)
(***************************************************************************)

\* ServiceAccounts(namespace).Create: AlreadyExists when the name is taken.
CreateSA(p) ==
    /\ Arrive(p)
    /\ \E n \in Names :
        /\ name' = [name EXCEPT ![p] = n]
        /\ \/ /\ sa[n] = 0
              /\ lastGen' = [lastGen EXCEPT ![n] = @ + 1]
              /\ sa' = [sa EXCEPT ![n] = lastGen[n] + 1]
              /\ Goto(p, "c_crb")
           \/ /\ Error(p, sa[n] # 0)
              /\ UNCHANGED <<sa, lastGen>>
    /\ UNCHANGED <<crb, rows, nextId, kid, snap, tok>>

\* ClusterRoleBindings().Create: AlreadyExists when the name is taken.
CreateCRB(p) ==
    /\ pc[p] = "c_crb"
    /\ \/ /\ name[p] \notin crb
          /\ crb' = crb \cup {name[p]}
          /\ Goto(p, "c_token")
       \/ /\ Error(p, name[p] \in crb)
          /\ UNCHANGED crb
    /\ UNCHANGED <<sa, lastGen, rows, nextId, local, requests>>

\* newCA reads the kube-root-ca.crt ConfigMap, createToken asks for a token
\* of the account, which the API server refuses when the account is gone;
\* the kubeconfig is then marshalled and encrypted.
CreateToken(p) ==
    /\ pc[p] = "c_token"
    /\ \/ /\ sa[name[p]] # 0
          /\ tok' = [tok EXCEPT ![p] = sa[name[p]]]
          /\ Goto(p, "c_db")
       \/ /\ Error(p, sa[name[p]] = 0)
          /\ UNCHANGED tok
    /\ UNCHANGED <<sa, lastGen, crb, rows, nextId, name, kid, snap, requests>>

\* The id the database gives the next inserted row.
NewRowIdFromZero == nextId - 1
NewRowId == nextId

\* KubeConfig().Create inserts the row with resource_version 0.
CreateRow(p) ==
    /\ pc[p] = "c_db"
    /\ \/ /\ rows' = [i \in DOMAIN rows \cup {NewRowId} |->
                        IF i = NewRowId THEN [sa |-> name[p], gen |-> tok[p], rv |-> 0]
                                        ELSE rows[i]]
          /\ nextId' = nextId + 1
       \/ /\ Failures
          /\ UNCHANGED <<rows, nextId>>
    /\ Return(p)
    /\ UNCHANGED <<sa, lastGen, crb, local, requests>>

-----------------------------------------------------------------------------
(***************************************************************************)
(* Update: KubeConfig().Get, createToken for the row's account, then       *)
(* KubeConfig().Update(ctx, kid, obj.ResourceVersion+1, config).           *)
(***************************************************************************)

\* KubeConfig().Get: an error (or no row) returns; decrypting and
\* unmarshalling what Create wrote succeeds.
UpdateGet(p) ==
    /\ Arrive(p)
    /\ \E k \in Ids :
        /\ kid' = [kid EXCEPT ![p] = k]
        /\ \/ /\ k \in DOMAIN rows
              /\ name' = [name EXCEPT ![p] = rows[k].sa]
              /\ snap' = [snap EXCEPT ![p] = rows[k].rv]
              /\ Goto(p, "u_token")
           \/ /\ Error(p, k \notin DOMAIN rows)
              /\ UNCHANGED <<name, snap>>
    /\ UNCHANGED <<sa, lastGen, crb, rows, nextId, tok>>

UpdateToken(p) ==
    /\ pc[p] = "u_token"
    /\ \/ /\ sa[name[p]] # 0
          /\ tok' = [tok EXCEPT ![p] = sa[name[p]]]
          /\ Goto(p, "u_db")
       \/ /\ Error(p, sa[name[p]] = 0)
          /\ UNCHANGED tok
    /\ UNCHANGED <<sa, lastGen, crb, rows, nextId, name, kid, snap, requests>>

\* The resource version Update passes to the DAO.
UpdateVersionOfRead(p) == snap[p]
UpdateVersion(p) == snap[p] + 1

\* The table after the DAO's optimistic update: UPDATE ... SET config,
\* resource_version = version + 1 WHERE id = k AND resource_version =
\* version.  No row affected is ErrRecordNotFound and changes nothing.
DaoUpdate(k, version, g) ==
    IF k \in DOMAIN rows /\ rows[k].rv = version
    THEN [rows EXCEPT ![k] = [sa |-> rows[k].sa, gen |-> g, rv |-> version + 1]]
    ELSE rows

UpdateRow(p) ==
    /\ pc[p] = "u_db"
    /\ \/ rows' = DaoUpdate(kid[p], UpdateVersion(p), tok[p])
       \/ /\ Failures
          /\ UNCHANGED rows
    /\ Return(p)
    /\ UNCHANGED <<sa, lastGen, crb, nextId, local, requests>>

-----------------------------------------------------------------------------
(***************************************************************************)
(* Delete: KubeConfig().Get, then ClusterRoleBindings().Delete and          *)
(* ServiceAccounts().Delete of the row's account name, then                 *)
(* KubeConfig().Delete(kid).                                                *)
(***************************************************************************)

DeleteGet(p) ==
    /\ Arrive(p)
    /\ \E k \in Ids :
        /\ kid' = [kid EXCEPT ![p] = k]
        /\ \/ /\ k \in DOMAIN rows
              /\ name' = [name EXCEPT ![p] = rows[k].sa]
              /\ Goto(p, "d_crb")
           \/ /\ Error(p, k \notin DOMAIN rows)
              /\ UNCHANGED name
    /\ UNCHANGED <<sa, lastGen, crb, rows, nextId, snap, tok>>

\* ClusterRoleBindings().Delete by name: NotFound when there is none.
DeleteCRB(p) ==
    /\ pc[p] = "d_crb"
    /\ \/ /\ name[p] \in crb
          /\ crb' = crb \ {name[p]}
          /\ Goto(p, "d_sa")
       \/ /\ Error(p, name[p] \notin crb)
          /\ UNCHANGED crb
    /\ UNCHANGED <<sa, lastGen, rows, nextId, local, requests>>

\* ServiceAccounts(namespace).Delete by name: NotFound when there is none.
DeleteSA(p) ==
    /\ pc[p] = "d_sa"
    /\ \/ /\ sa[name[p]] # 0
          /\ sa' = [sa EXCEPT ![name[p]] = 0]
          /\ Goto(p, "d_db")
       \/ /\ Error(p, sa[name[p]] = 0)
          /\ UNCHANGED sa
    /\ UNCHANGED <<lastGen, crb, rows, nextId, local, requests>>

\* KubeConfig().Delete(kid): DELETE ... WHERE id = kid.
DeleteRow(p) ==
    /\ pc[p] = "d_db"
    /\ \/ rows' = [i \in DOMAIN rows \ {kid[p]} |-> rows[i]]
       \/ /\ Failures
          /\ UNCHANGED rows
    /\ Return(p)
    /\ UNCHANGED <<sa, lastGen, crb, nextId, local, requests>>

-----------------------------------------------------------------------------
Next ==
    \E p \in Procs :
        \/ CreateSA(p) \/ CreateCRB(p) \/ CreateToken(p) \/ CreateRow(p)
        \/ UpdateGet(p) \/ UpdateToken(p) \/ UpdateRow(p)
        \/ DeleteGet(p) \/ DeleteCRB(p) \/ DeleteSA(p) \/ DeleteRow(p)

Spec == Init /\ [][Next]_vars

-----------------------------------------------------------------------------
(***************************************************************************)
(* Properties.                                                             *)
(***************************************************************************)

\* The credential of a row works: its account exists with the generation
\* its token was issued for, and the account is bound to its ClusterRole.
Works(r) == sa[r.sa] = r.gen /\ r.sa \in crb

(***************************************************************************)
(* At most one row holds a working credential for an account name: Create *)
(* of a name that exists stops at AlreadyExists, and an account re-created *)
(* after a Delete that stopped half-way has a new UID, so the stale row's  *)
(* token no longer works.                                                  *)
(***************************************************************************)
WorkingCredentialUnique ==
    \A i, j \in DOMAIN rows :
        (Works(rows[i]) /\ Works(rows[j]) /\ rows[i].sa = rows[j].sa) => i = j

(***************************************************************************)
(* Delete revokes before it forgets: KubeConfig().Delete(kid) removes a    *)
(* row only once the row's credential has stopped working, so no Delete,  *)
(* however it interleaves with other requests, leaves a working           *)
(* credential that no row records.                                        *)
(***************************************************************************)
DeleteForgetsOnlyRevoked ==
    [][\A k \in DOMAIN rows \ DOMAIN rows' : ~Works(rows[k])]_vars

=============================================================================
