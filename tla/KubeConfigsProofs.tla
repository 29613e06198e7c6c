------------------------- MODULE KubeConfigsProofs -------------------------
(***************************************************************************)
(* Proofs about the kubeConfigs service model KubeConfigs, for every value *)
(* of the constants that satisfies KubeConfigsAssumption: the model is    *)
(* well typed, and a Delete removes a kube_config row only once the row's *)
(* credential no longer works.                                             *)
(***************************************************************************)
EXTENDS KubeConfigs, FiniteSetTheorems, TLAPS

USE KubeConfigsAssumption

\* The goroutines inside a Create, each about to insert at most one row.
CreatePCs == {"c_crb", "c_token", "c_db"}
CreatingOf(f) == {p \in Procs : f[p] \in CreatePCs}
Creating == CreatingOf(pc)

\* Ids handed out and inserts still to come number at most the requests.
IdsCounted == nextId - 1 + Cardinality(Creating) <= requests

\* Every row id is below the auto-increment counter.
IdsBelowNext == \A k \in DOMAIN rows : k < nextId

\* The API server's generations: an account's is at most the last one
\* given for its name, and each request gives at most one.
GenBound == \A n \in Names : sa[n] <= lastGen[n] /\ lastGen[n] <= requests + 1

TypeInv == TypeOK /\ IdsCounted /\ IdsBelowNext /\ GenBound

\* Update never changes a row: every row keeps resource_version 0, every
\* read sees 0, and the DAO is asked for version 1.
NoUpdateApplies ==
    /\ \A k \in DOMAIN rows : rows[k].rv = 0
    /\ \A p \in Procs : snap[p] = 0

\* A row's token was issued for a generation its account name has had.
RowsIssued ==
    /\ \A k \in DOMAIN rows : 1 <= rows[k].gen /\ rows[k].gen <= lastGen[rows[k].sa]
    /\ \A p \in Procs : pc[p] = "c_db" => 1 <= tok[p] /\ tok[p] <= lastGen[name[p]]

\* A Delete works on the account its row names, and that row's id is one
\* the table will not hand out again.
DeleteTarget ==
    \A p \in Procs : pc[p] \in {"d_crb", "d_sa", "d_db"} =>
        /\ kid[p] < nextId
        /\ kid[p] \in DOMAIN rows => rows[kid[p]].sa = name[p]

\* After its ServiceAccounts().Delete, a Delete's row is revoked: the
\* account is gone, or re-created with a newer generation than the token's.
DeleteRevoked ==
    \A p \in Procs : pc[p] = "d_db" /\ kid[p] \in DOMAIN rows =>
        sa[name[p]] = 0 \/ sa[name[p]] > rows[kid[p]].gen

RevokeInv == TypeInv /\ NoUpdateApplies /\ RowsIssued /\ DeleteTarget /\ DeleteRevoked

-----------------------------------------------------------------------------
(***************************************************************************)
(* Lemmas on the model's operators.                                        *)
(***************************************************************************)

\* The kube_config table as TypeOK states it: a function from some ids.
LEMMA RowsTyped ==
    ASSUME NEW S \in SUBSET Ids, NEW f \in [S -> Rows]
    PROVE  \E ids \in SUBSET Ids : f \in [ids -> Rows]
BY Zenon

LEMMA RowsDomain ==
    ASSUME TypeOK
    PROVE  DOMAIN rows \subseteq Ids /\ rows \in [DOMAIN rows -> Rows]
BY DEF TypeOK

\* One goroutine's pc changes: the number of goroutines inside a Create
\* changes by at most one, as that goroutine enters or leaves.
LEMMA CreatingStep ==
    ASSUME NEW p \in Procs, NEW v, pc \in [Procs -> PCs],
           pc' = [pc EXCEPT ![p] = v]
    PROVE  /\ Cardinality(Creating) \in Nat
           /\ Cardinality(Creating') \in Nat
           /\ p \notin Creating /\ v \notin CreatePCs =>
                  Cardinality(Creating') = Cardinality(Creating)
           /\ p \notin Creating /\ v \in CreatePCs =>
                  Cardinality(Creating') = Cardinality(Creating) + 1
           /\ p \in Creating /\ v \notin CreatePCs =>
                  Cardinality(Creating') = Cardinality(Creating) - 1
           /\ p \in Creating /\ v \in CreatePCs =>
                  Cardinality(Creating') = Cardinality(Creating)
<1>1. /\ IsFiniteSet(Creating) /\ Cardinality(Creating) \in Nat
    <2>1. Creating \subseteq Procs
        BY DEF Creating, CreatingOf
    <2>2. QED
        BY <2>1, FS_Subset, FS_CardinalityType
<1>2. CASE v \in CreatePCs
    <2>1. Creating' = Creating \cup {p}
        <3>1. \A x : x \in Creating' <=> x \in Creating \cup {p}
            BY <1>2 DEF Creating, CreatingOf
        <3>2. QED
            BY <3>1
    <2>2. QED
        BY <1>1, <1>2, <2>1, FS_AddElement, FS_CardinalityType
<1>3. CASE v \notin CreatePCs
    <2>1. Creating' = Creating \ {p}
        <3>1. \A x : x \in Creating' <=> x \in Creating \ {p}
            BY <1>3 DEF Creating, CreatingOf
        <3>2. QED
            BY <3>1
    <2>2. QED
        BY <1>1, <1>3, <2>1, FS_RemoveElement, FS_CardinalityType
<1>4. QED
    BY <1>2, <1>3

\* One goroutine moves to v and the others stay where they are.
LEMMA PcStep ==
    ASSUME TypeOK, NEW p \in Procs, NEW v \in PCs, pc' = [pc EXCEPT ![p] = v]
    PROVE  /\ pc' \in [Procs -> PCs]
           /\ pc'[p] = v
           /\ \A q \in Procs \ {p} : pc'[q] = pc[q]
BY DEF TypeOK

\* pc unchanged: so is the set of goroutines inside a Create.
LEMMA CreatingUnchanged ==
    ASSUME pc' = pc
    PROVE  Creating' = Creating
BY DEF Creating, CreatingOf

\* KubeConfig().Update as the service calls it changes nothing: it asks
\* for resource_version obj.ResourceVersion + 1, and no row has it.
LEMMA DaoUpdateNoop ==
    ASSUME TypeOK, NoUpdateApplies, NEW p \in Procs
    PROVE  DaoUpdate(kid[p], UpdateVersion(p), tok[p]) = rows
<1>1. UpdateVersion(p) = 1
    BY DEF NoUpdateApplies, UpdateVersion
<1>2. ~(kid[p] \in DOMAIN rows /\ rows[kid[p]].rv = 1)
    BY DEF NoUpdateApplies
<1>3. QED
    BY <1>1, <1>2 DEF DaoUpdate

-----------------------------------------------------------------------------
(***************************************************************************)
(* The initial state.                                                      *)
(***************************************************************************)
LEMMA RevokeInvInit == Init => RevokeInv
<1> SUFFICES ASSUME Init PROVE RevokeInv
    OBVIOUS
<1>1. Creating = {} /\ DOMAIN rows = {}
    BY DEF Init, Creating, CreatingOf, CreatePCs
<1>2. \E ids \in SUBSET Ids : rows \in [ids -> Rows]
    <2>1. rows \in [{} -> Rows] /\ {} \in SUBSET Ids
        BY DEF Init
    <2>2. QED
        BY <2>1
<1>3. /\ sa \in [Names -> Gens] /\ lastGen \in [Names -> Gens]
      /\ \A n \in Names : sa[n] <= lastGen[n] /\ lastGen[n] <= requests + 1
    BY DEF Init, Gens
<1>4. (CHOOSE n \in Names : TRUE) \in Names
    OBVIOUS
<1>5. name \in [Procs -> Names]
    BY <1>4 DEF Init
<1>6. TypeOK
    <2>1. /\ crb \subseteq Names /\ nextId \in 1..(MaxRequests + 1)
          /\ pc \in [Procs -> PCs]
          /\ snap \in [Procs -> 0..(2 * MaxRequests)] /\ tok \in [Procs -> Gens]
          /\ requests \in 0..MaxRequests
        BY DEF Init, PCs, Ids, Gens
    <2>3. kid \in [Procs -> Ids]
        BY DEF Init, Ids
    <2>4. QED
        BY <1>2, <1>3, <1>5, <2>1, <2>3 DEF TypeOK
<1>7. QED
    BY <1>1, <1>3, <1>6, FS_EmptySet
       DEF Init, RevokeInv, TypeInv, IdsCounted, IdsBelowNext, GenBound,
           NoUpdateApplies, RowsIssued, DeleteTarget, DeleteRevoked

-----------------------------------------------------------------------------
(***************************************************************************)
(* Each action preserves RevokeInv.                                        *)
(***************************************************************************)

\* ServiceAccounts().Create: a re-created account gets a generation above
\* every token issued for the name, so no stale row starts working again.
LEMMA CreateSAInv ==
    ASSUME RevokeInv, NEW p \in Procs, CreateSA(p)
    PROVE  RevokeInv'
<1> USE DEF RevokeInv, TypeInv, TypeOK
<1>1. /\ pc[p] = "idle" /\ requests < MaxRequests /\ requests' = requests + 1
      /\ UNCHANGED <<crb, rows, nextId, kid, snap, tok>>
    BY DEF CreateSA, Arrive
<1>2. PICK n \in Names :
          /\ name' = [name EXCEPT ![p] = n]
          /\ \/ /\ sa[n] = 0
                /\ lastGen' = [lastGen EXCEPT ![n] = @ + 1]
                /\ sa' = [sa EXCEPT ![n] = lastGen[n] + 1]
                /\ Goto(p, "c_crb")
             \/ /\ Error(p, sa[n] # 0)
                /\ UNCHANGED <<sa, lastGen>>
    BY DEF CreateSA
<1>3. p \notin Creating /\ p \notin {q \in Procs : pc[q] = "c_db"}
    BY <1>1 DEF Creating, CreatingOf, CreatePCs
<1>4. /\ \A m \in Names : lastGen[m] <= lastGen'[m]
      /\ \A m \in Names : m # n => sa'[m] = sa[m] /\ lastGen'[m] = lastGen[m]
      /\ sa'[n] = sa[n] \/ sa'[n] = lastGen[n] + 1
      /\ lastGen'[n] <= requests' + 1 /\ sa'[n] <= lastGen'[n]
      /\ sa' \in [Names -> Gens] /\ lastGen' \in [Names -> Gens]
    BY <1>1, <1>2 DEF GenBound, Gens
<1>5. /\ pc' \in [Procs -> PCs]
      /\ \A q \in Procs \ {p} : pc'[q] = pc[q]
      /\ pc'[p] \in {"c_crb", "idle"}
      /\ Cardinality(Creating) \in Nat
      /\ Cardinality(Creating') \in Nat
      /\ Cardinality(Creating') <= Cardinality(Creating) + 1
    <2>1. CASE pc' = [pc EXCEPT ![p] = "c_crb"]
        <3>1. /\ Cardinality(Creating) \in Nat /\ Cardinality(Creating') \in Nat
              /\ Cardinality(Creating') = Cardinality(Creating) + 1
            <4>1. "c_crb" \in CreatePCs
                BY DEF CreatePCs
            <4>2. QED
                BY <2>1, <1>3, <4>1, CreatingStep
        <3>2. QED
            BY <2>1, <3>1 DEF PCs
    <2>2. CASE pc' = [pc EXCEPT ![p] = "idle"]
        <3>1. /\ Cardinality(Creating) \in Nat /\ Cardinality(Creating') \in Nat
              /\ Cardinality(Creating') = Cardinality(Creating)
            <4>1. "idle" \notin CreatePCs
                BY DEF CreatePCs
            <4>2. QED
                BY <2>2, <1>3, <4>1, CreatingStep
        <3>2. QED
            BY <2>2, <3>1 DEF PCs
    <2>3. QED
        BY <1>2, <2>1, <2>2 DEF Goto, Error, Return
<1>6. TypeOK'
    <2>1. name' \in [Procs -> Names] /\ requests' \in 0..MaxRequests
        BY <1>1, <1>2
    <2>2. (\E ids \in SUBSET Ids : rows \in [ids -> Rows])'
        BY <1>1
    <2>3. QED
        BY <1>1, <1>4, <1>5, <2>1, <2>2
<1>7. IdsCounted' /\ IdsBelowNext' /\ GenBound'
    <2>1. IdsCounted'
        BY <1>1, <1>5 DEF IdsCounted
    <2>2. IdsBelowNext'
        BY <1>1 DEF IdsBelowNext
    <2>3. GenBound'
        <3> SUFFICES ASSUME NEW m \in Names
                     PROVE  sa'[m] <= lastGen'[m] /\ lastGen'[m] <= requests' + 1
            BY DEF GenBound
        <3>1. CASE m = n
            BY <1>4, <3>1
        <3>2. CASE m # n
            BY <1>1, <1>4, <3>2 DEF GenBound, Gens
        <3>3. QED
            BY <3>1, <3>2
    <2>4. QED
        BY <2>1, <2>2, <2>3
<1>8. NoUpdateApplies' /\ RowsIssued'
    <2>1. NoUpdateApplies'
        BY <1>1 DEF NoUpdateApplies
    <2>2. \A k \in DOMAIN rows' : 1 <= rows'[k].gen /\ rows'[k].gen <= lastGen'[rows'[k].sa]
        <3> SUFFICES ASSUME NEW k \in DOMAIN rows
                     PROVE  1 <= rows[k].gen /\ rows[k].gen <= lastGen'[rows[k].sa]
            BY <1>1
        <3>1. rows[k] \in Rows
            BY RowsDomain
        <3>2. rows[k].sa \in Names /\ rows[k].gen \in Nat
            BY <3>1 DEF Rows, Gens
        <3>3. QED
            BY <3>2, <1>4 DEF RowsIssued, Gens
    <2>3. \A q \in Procs : pc'[q] = "c_db" => 1 <= tok'[q] /\ tok'[q] <= lastGen'[name'[q]]
        <3> SUFFICES ASSUME NEW q \in Procs, pc'[q] = "c_db"
                     PROVE  1 <= tok[q] /\ tok[q] <= lastGen'[name[q]]
            BY <1>1, <1>2, <1>5
        <3>1. q # p /\ pc[q] = "c_db"
            BY <1>5
        <3>2. QED
            BY <3>1, <1>4 DEF RowsIssued, Gens
    <2>4. QED
        BY <2>1, <2>2, <2>3 DEF RowsIssued
<1>9. DeleteTarget'
    BY <1>1, <1>2, <1>5 DEF DeleteTarget
<1>10. DeleteRevoked'
    <2> SUFFICES ASSUME NEW q \in Procs, pc'[q] = "d_db", kid'[q] \in DOMAIN rows'
                 PROVE  sa'[name'[q]] = 0 \/ sa'[name'[q]] > rows'[kid'[q]].gen
        BY DEF DeleteRevoked
    <2>1. q # p /\ pc[q] = "d_db" /\ name'[q] = name[q]
        BY <1>2, <1>5
    <2>2. name[q] = rows[kid[q]].sa /\ (sa[name[q]] = 0 \/ sa[name[q]] > rows[kid[q]].gen)
        BY <1>1, <2>1 DEF DeleteTarget, DeleteRevoked
    <2>3. rows[kid[q]].gen <= lastGen[name[q]] /\ rows[kid[q]].gen \in Nat
        BY <1>1, <2>2, RowsDomain DEF RowsIssued, Rows, Gens
    <2>4. QED
        BY <1>1, <1>4, <2>1, <2>2, <2>3 DEF Gens
<1>11. QED
    BY <1>6, <1>7, <1>8, <1>9, <1>10

\* ClusterRoleBindings().Create: only the binding set changes.
LEMMA CreateCRBInv ==
    ASSUME RevokeInv, NEW p \in Procs, CreateCRB(p)
    PROVE  RevokeInv'
<1> USE DEF RevokeInv, TypeInv
<1>1. /\ pc[p] = "c_crb" /\ p \in Creating
      /\ UNCHANGED <<sa, lastGen, rows, nextId, name, kid, snap, tok, requests>>
      /\ crb' \subseteq Names
    BY DEF CreateCRB, local, Creating, CreatingOf, CreatePCs, TypeOK
<1>2. /\ pc' \in [Procs -> PCs]
      /\ pc'[p] \in {"c_token", "idle"}
      /\ \A q \in Procs \ {p} : pc'[q] = pc[q]
      /\ Cardinality(Creating) \in Nat
      /\ Cardinality(Creating') \in Nat
      /\ Cardinality(Creating') <= Cardinality(Creating)
    <2>0. TypeOK /\ pc \in [Procs -> PCs]
        BY DEF TypeOK
    <2>1. CASE pc' = [pc EXCEPT ![p] = "c_token"]
        <3>1. "c_token" \in CreatePCs /\ "c_token" \in PCs
            BY DEF CreatePCs, PCs
        <3>2. /\ pc' \in [Procs -> PCs] /\ pc'[p] = "c_token"
              /\ \A q \in Procs \ {p} : pc'[q] = pc[q]
            BY <2>0, <2>1, <3>1, PcStep
        <3>3. /\ Cardinality(Creating) \in Nat /\ Cardinality(Creating') \in Nat
              /\ Cardinality(Creating') = Cardinality(Creating)
            BY <2>0, <2>1, <1>1, <3>1, CreatingStep
        <3>4. QED
            BY <3>2, <3>3
    <2>2. CASE pc' = [pc EXCEPT ![p] = "idle"]
        <3>1. "idle" \notin CreatePCs /\ "idle" \in PCs
            BY DEF CreatePCs, PCs
        <3>2. /\ pc' \in [Procs -> PCs] /\ pc'[p] = "idle"
              /\ \A q \in Procs \ {p} : pc'[q] = pc[q]
            BY <2>0, <2>2, <3>1, PcStep
        <3>3. /\ Cardinality(Creating) \in Nat /\ Cardinality(Creating') \in Nat
              /\ Cardinality(Creating') = Cardinality(Creating) - 1
            BY <2>0, <2>2, <1>1, <3>1, CreatingStep
        <3>4. QED
            BY <3>2, <3>3
    <2>3. QED
        BY <2>1, <2>2 DEF CreateCRB, Goto, Error, Return
<1>3. TypeOK'
    BY <1>1, <1>2 DEF TypeOK
<1>4. IdsCounted' /\ IdsBelowNext' /\ GenBound' /\ NoUpdateApplies'
    <2>1. IdsCounted'
        BY <1>1, <1>2 DEF IdsCounted, TypeOK
    <2>2. QED
        BY <1>1, <2>1 DEF IdsBelowNext, GenBound, NoUpdateApplies
<1>5. RowsIssued' /\ DeleteTarget' /\ DeleteRevoked'
    BY <1>1, <1>2 DEF RowsIssued, DeleteTarget, DeleteRevoked
<1>6. QED
    BY <1>3, <1>4, <1>5

\* createToken: the token is issued for the account's current generation.
LEMMA CreateTokenInv ==
    ASSUME RevokeInv, NEW p \in Procs, CreateToken(p)
    PROVE  RevokeInv'
<1> USE DEF RevokeInv, TypeInv
<1>1. /\ pc[p] = "c_token" /\ p \in Creating
      /\ UNCHANGED <<sa, lastGen, crb, rows, nextId, name, kid, snap, requests>>
    BY DEF CreateToken, Creating, CreatingOf, CreatePCs
<1>2. CASE /\ sa[name[p]] # 0
           /\ tok' = [tok EXCEPT ![p] = sa[name[p]]]
           /\ pc' = [pc EXCEPT ![p] = "c_db"]
    <2>1. "c_db" \in CreatePCs /\ "c_db" \in PCs
        BY DEF CreatePCs, PCs
    <2>2. /\ pc' \in [Procs -> PCs] /\ pc'[p] = "c_db"
          /\ \A q \in Procs \ {p} : pc'[q] = pc[q]
          /\ Cardinality(Creating') = Cardinality(Creating)
        BY <1>1, <1>2, <2>1, CreatingStep, PcStep DEF TypeOK
    <2>3. /\ name[p] \in Names /\ sa[name[p]] \in Gens
          /\ 1 <= sa[name[p]] /\ sa[name[p]] <= lastGen[name[p]]
        BY <1>2 DEF TypeOK, GenBound, Gens
    <2>4. TypeOK'
        BY <1>1, <1>2, <2>2, <2>3 DEF TypeOK
    <2>5. RowsIssued'
        <3>1. \A q \in Procs : pc'[q] = "c_db" => 1 <= tok'[q] /\ tok'[q] <= lastGen'[name'[q]]
            BY <1>1, <1>2, <2>2, <2>3 DEF RowsIssued, TypeOK
        <3>2. QED
            BY <1>1, <3>1 DEF RowsIssued
    <2>6. QED
        BY <1>1, <2>2, <2>4, <2>5
           DEF IdsCounted, IdsBelowNext, GenBound, NoUpdateApplies, DeleteTarget, DeleteRevoked
<1>3. CASE /\ tok' = tok
           /\ pc' = [pc EXCEPT ![p] = "idle"]
    <2>1. "idle" \notin CreatePCs /\ "idle" \in PCs
        BY DEF CreatePCs, PCs
    <2>2. /\ pc' \in [Procs -> PCs] /\ pc'[p] = "idle"
          /\ \A q \in Procs \ {p} : pc'[q] = pc[q]
          /\ Cardinality(Creating') = Cardinality(Creating) - 1
          /\ Cardinality(Creating') \in Nat /\ Cardinality(Creating) \in Nat
        BY <1>1, <1>3, <2>1, CreatingStep, PcStep DEF TypeOK
    <2>3. TypeOK'
        BY <1>1, <1>3, <2>2 DEF TypeOK
    <2>4. IdsCounted'
        BY <1>1, <2>2 DEF IdsCounted, TypeOK
    <2>5. RowsIssued'
        BY <1>1, <1>3, <2>2 DEF RowsIssued
    <2>6. QED
        BY <1>1, <1>3, <2>2, <2>3, <2>4, <2>5
           DEF IdsBelowNext, GenBound, NoUpdateApplies, DeleteTarget, DeleteRevoked
<1>4. QED
    BY <1>2, <1>3 DEF CreateToken, Goto, Error, Return

\* KubeConfig().Create: the insert takes an id no pending Delete holds,
\* and the row's token is one issued for its account.
LEMMA CreateRowInv ==
    ASSUME RevokeInv, NEW p \in Procs, CreateRow(p)
    PROVE  RevokeInv'
<1> USE DEF RevokeInv, TypeInv
<1>1. /\ pc[p] = "c_db" /\ p \in Creating
      /\ UNCHANGED <<sa, lastGen, crb, name, kid, snap, tok, requests>>
      /\ pc' = [pc EXCEPT ![p] = "idle"]
    BY DEF CreateRow, local, Return, Creating, CreatingOf, CreatePCs
<1>2. /\ pc' \in [Procs -> PCs] /\ pc'[p] = "idle"
      /\ \A q \in Procs \ {p} : pc'[q] = pc[q]
      /\ Cardinality(Creating') = Cardinality(Creating) - 1
      /\ Cardinality(Creating') \in Nat /\ Cardinality(Creating) \in Nat
    <2>1. "idle" \notin CreatePCs /\ "idle" \in PCs
        BY DEF CreatePCs, PCs
    <2>2. QED
        BY <1>1, <2>1, CreatingStep, PcStep DEF TypeOK
<1>3. /\ DOMAIN rows \subseteq Ids /\ rows \in [DOMAIN rows -> Rows]
      /\ nextId \in Ids /\ nextId \notin DOMAIN rows
    BY <1>2, RowsDomain DEF IdsCounted, IdsBelowNext, TypeOK, Ids
<1>4. CASE /\ rows' = [i \in DOMAIN rows \cup {NewRowId} |->
                         IF i = NewRowId THEN [sa |-> name[p], gen |-> tok[p], rv |-> 0]
                                         ELSE rows[i]]
           /\ nextId' = nextId + 1
    <2>1. /\ DOMAIN rows' = DOMAIN rows \cup {nextId}
          /\ rows'[nextId] = [sa |-> name[p], gen |-> tok[p], rv |-> 0]
          /\ \A k \in DOMAIN rows : rows'[k] = rows[k]
        BY <1>3, <1>4 DEF NewRowId
    <2>2. /\ name[p] \in Names /\ tok[p] \in Gens
          /\ 1 <= tok[p] /\ tok[p] <= lastGen[name[p]]
        BY <1>1 DEF TypeOK, RowsIssued
    <2>3. TypeOK'
        <3>1. rows' \in [DOMAIN rows \cup {nextId} -> Rows]
            <4>1. [sa |-> name[p], gen |-> tok[p], rv |-> 0] \in Rows
                BY <2>2 DEF Rows
            <4>2. \A k \in DOMAIN rows \cup {nextId} :
                      (IF k = NewRowId THEN [sa |-> name[p], gen |-> tok[p], rv |-> 0]
                                       ELSE rows[k]) \in Rows
                BY <1>3, <4>1 DEF NewRowId
            <4>3. QED
                BY <1>4, <4>2 DEF NewRowId
        <3>2. (\E ids \in SUBSET Ids : rows \in [ids -> Rows])'
            BY <1>3, <3>1, RowsTyped
        <3>3. nextId' \in 1..(MaxRequests + 1)
            BY <1>3, <1>4 DEF Ids
        <3>4. QED
            BY <1>1, <1>2, <3>2, <3>3 DEF TypeOK
    <2>4. IdsCounted' /\ IdsBelowNext' /\ GenBound'
        BY <1>1, <1>2, <1>3, <1>4, <2>1 DEF IdsCounted, IdsBelowNext, GenBound, TypeOK, Ids
    <2>5. NoUpdateApplies' /\ RowsIssued'
        BY <1>1, <1>2, <2>1, <2>2 DEF NoUpdateApplies, RowsIssued
    <2>6. DeleteTarget' /\ DeleteRevoked'
        <3>1. \A q \in Procs : pc'[q] \in {"d_crb", "d_sa", "d_db"} =>
                  pc[q] = pc'[q] /\ kid[q] < nextId /\ kid[q] # nextId
            BY <1>2 DEF DeleteTarget, TypeOK, Ids
        <3>2. QED
            BY <1>1, <1>4, <2>1, <3>1 DEF DeleteTarget, DeleteRevoked, TypeOK, Ids
    <2>7. QED
        BY <2>3, <2>4, <2>5, <2>6
<1>5. CASE UNCHANGED <<rows, nextId>>
    <2>1. TypeOK'
        BY <1>1, <1>2, <1>5 DEF TypeOK
    <2>2. QED
        BY <1>1, <1>2, <1>5, <2>1
           DEF IdsCounted, IdsBelowNext, GenBound, NoUpdateApplies, RowsIssued,
               DeleteTarget, DeleteRevoked, TypeOK
<1>6. QED
    BY <1>4, <1>5 DEF CreateRow

\* KubeConfig().Get for an Update: the version read is 0, as every row's.
LEMMA UpdateGetInv ==
    ASSUME RevokeInv, NEW p \in Procs, UpdateGet(p)
    PROVE  RevokeInv'
<1> USE DEF RevokeInv, TypeInv
<1>1. /\ pc[p] = "idle" /\ p \notin Creating
      /\ requests < MaxRequests /\ requests' = requests + 1
      /\ UNCHANGED <<sa, lastGen, crb, rows, nextId, tok>>
    BY DEF UpdateGet, Arrive, Creating, CreatingOf, CreatePCs
<1>2. PICK k \in Ids :
          /\ kid' = [kid EXCEPT ![p] = k]
          /\ \/ /\ k \in DOMAIN rows
                /\ name' = [name EXCEPT ![p] = rows[k].sa]
                /\ snap' = [snap EXCEPT ![p] = rows[k].rv]
                /\ pc' = [pc EXCEPT ![p] = "u_token"]
             \/ /\ pc' = [pc EXCEPT ![p] = "idle"]
                /\ UNCHANGED <<name, snap>>
    BY DEF UpdateGet, Goto, Error, Return
<1>3. /\ pc' \in [Procs -> PCs] /\ pc'[p] \in {"u_token", "idle"}
      /\ \A q \in Procs \ {p} : pc'[q] = pc[q]
      /\ Cardinality(Creating') = Cardinality(Creating)
      /\ Cardinality(Creating) \in Nat
    <2>1. "u_token" \notin CreatePCs /\ "u_token" \in PCs
          /\ "idle" \notin CreatePCs /\ "idle" \in PCs
        BY DEF CreatePCs, PCs
    <2>2. QED
        BY <1>1, <1>2, <2>1, CreatingStep, PcStep DEF TypeOK
<1>4. /\ name' \in [Procs -> Names] /\ snap' \in [Procs -> {0}]
      /\ \A q \in Procs \ {p} : name'[q] = name[q] /\ kid'[q] = kid[q]
    <2>1. k \in DOMAIN rows => rows[k].sa \in Names /\ rows[k].rv = 0
        BY RowsDomain DEF NoUpdateApplies, Rows, TypeOK
    <2>2. QED
        BY <1>2, <2>1 DEF NoUpdateApplies, TypeOK
<1>5. TypeOK'
    BY <1>1, <1>2, <1>3, <1>4 DEF TypeOK
<1>6. IdsCounted' /\ IdsBelowNext' /\ GenBound' /\ NoUpdateApplies'
    <2>1. IdsCounted'
        BY <1>1, <1>3 DEF IdsCounted, TypeOK
    <2>2. GenBound'
        BY <1>1 DEF GenBound, TypeOK, Gens
    <2>3. NoUpdateApplies'
        BY <1>1, <1>4 DEF NoUpdateApplies
    <2>4. QED
        BY <1>1, <2>1, <2>2, <2>3 DEF IdsBelowNext
<1>7. RowsIssued' /\ DeleteTarget' /\ DeleteRevoked'
    BY <1>1, <1>3, <1>4 DEF RowsIssued, DeleteTarget, DeleteRevoked
<1>8. QED
    BY <1>5, <1>6, <1>7

\* createToken for an Update: only the goroutine's own token changes.
LEMMA UpdateTokenInv ==
    ASSUME RevokeInv, NEW p \in Procs, UpdateToken(p)
    PROVE  RevokeInv'
<1> USE DEF RevokeInv, TypeInv
<1>1. /\ pc[p] = "u_token" /\ p \notin Creating
      /\ UNCHANGED <<sa, lastGen, crb, rows, nextId, name, kid, snap, requests>>
    BY DEF UpdateToken, Creating, CreatingOf, CreatePCs
<1>2. \/ /\ tok' = [tok EXCEPT ![p] = sa[name[p]]]
         /\ pc' = [pc EXCEPT ![p] = "u_db"]
      \/ /\ tok' = tok
         /\ pc' = [pc EXCEPT ![p] = "idle"]
    BY DEF UpdateToken, Goto, Error, Return
<1>3. /\ pc' \in [Procs -> PCs] /\ pc'[p] \in {"u_db", "idle"}
      /\ \A q \in Procs \ {p} : pc'[q] = pc[q]
      /\ Cardinality(Creating') = Cardinality(Creating)
      /\ Cardinality(Creating) \in Nat
    <2>1. "u_db" \notin CreatePCs /\ "u_db" \in PCs
          /\ "idle" \notin CreatePCs /\ "idle" \in PCs
        BY DEF CreatePCs, PCs
    <2>2. QED
        BY <1>1, <1>2, <2>1, CreatingStep, PcStep DEF TypeOK
<1>4. tok' \in [Procs -> Gens] /\ \A q \in Procs \ {p} : tok'[q] = tok[q]
    BY <1>2 DEF TypeOK
<1>5. TypeOK'
    BY <1>1, <1>3, <1>4 DEF TypeOK
<1>6. QED
    BY <1>1, <1>3, <1>4, <1>5
       DEF IdsCounted, IdsBelowNext, GenBound, NoUpdateApplies, RowsIssued,
           DeleteTarget, DeleteRevoked, TypeOK

\* KubeConfig().Update: the DAO is asked for a version no row has, so the
\* table does not change.
LEMMA UpdateRowInv ==
    ASSUME RevokeInv, NEW p \in Procs, UpdateRow(p)
    PROVE  RevokeInv'
<1> USE DEF RevokeInv, TypeInv
<1>1. /\ pc[p] = "u_db" /\ p \notin Creating
      /\ UNCHANGED <<sa, lastGen, crb, nextId, name, kid, snap, tok, requests>>
      /\ pc' = [pc EXCEPT ![p] = "idle"]
    BY DEF UpdateRow, local, Return, Creating, CreatingOf, CreatePCs
<1>2. rows' = rows
    <2>1. DaoUpdate(kid[p], UpdateVersion(p), tok[p]) = rows
        BY DaoUpdateNoop DEF TypeOK
    <2>2. QED
        BY <2>1 DEF UpdateRow
<1>3. /\ pc' \in [Procs -> PCs] /\ pc'[p] = "idle"
      /\ \A q \in Procs \ {p} : pc'[q] = pc[q]
      /\ Cardinality(Creating') = Cardinality(Creating)
      /\ Cardinality(Creating) \in Nat
    <2>1. "idle" \notin CreatePCs /\ "idle" \in PCs
        BY DEF CreatePCs, PCs
    <2>2. QED
        BY <1>1, <2>1, CreatingStep, PcStep DEF TypeOK
<1>4. TypeOK'
    BY <1>1, <1>2, <1>3 DEF TypeOK
<1>5. QED
    BY <1>1, <1>2, <1>3, <1>4
       DEF IdsCounted, IdsBelowNext, GenBound, NoUpdateApplies, RowsIssued,
           DeleteTarget, DeleteRevoked, TypeOK

\* KubeConfig().Get for a Delete: the goroutine takes the row's account
\* name and an id below the counter.
LEMMA DeleteGetInv ==
    ASSUME RevokeInv, NEW p \in Procs, DeleteGet(p)
    PROVE  RevokeInv'
<1> USE DEF RevokeInv, TypeInv
<1>1. /\ pc[p] = "idle" /\ p \notin Creating
      /\ requests < MaxRequests /\ requests' = requests + 1
      /\ UNCHANGED <<sa, lastGen, crb, rows, nextId, snap, tok>>
    BY DEF DeleteGet, Arrive, Creating, CreatingOf, CreatePCs
<1>2. PICK k \in Ids :
          /\ kid' = [kid EXCEPT ![p] = k]
          /\ \/ /\ k \in DOMAIN rows
                /\ name' = [name EXCEPT ![p] = rows[k].sa]
                /\ pc' = [pc EXCEPT ![p] = "d_crb"]
             \/ /\ pc' = [pc EXCEPT ![p] = "idle"]
                /\ UNCHANGED name
    BY DEF DeleteGet, Goto, Error, Return
<1>3. /\ pc' \in [Procs -> PCs] /\ pc'[p] \in {"d_crb", "idle"}
      /\ \A q \in Procs \ {p} : pc'[q] = pc[q]
      /\ Cardinality(Creating') = Cardinality(Creating)
      /\ Cardinality(Creating) \in Nat
    <2>1. "d_crb" \notin CreatePCs /\ "d_crb" \in PCs
          /\ "idle" \notin CreatePCs /\ "idle" \in PCs
        BY DEF CreatePCs, PCs
    <2>2. QED
        BY <1>1, <1>2, <2>1, CreatingStep, PcStep DEF TypeOK
<1>4. /\ name' \in [Procs -> Names] /\ kid' \in [Procs -> Ids]
      /\ \A q \in Procs \ {p} : name'[q] = name[q] /\ kid'[q] = kid[q]
      /\ pc'[p] = "d_crb" => /\ kid'[p] \in DOMAIN rows /\ kid'[p] < nextId
                             /\ rows[kid'[p]].sa = name'[p]
    <2>1. k \in DOMAIN rows => rows[k].sa \in Names /\ k < nextId
        BY RowsDomain DEF Rows, TypeOK, IdsBelowNext
    <2>2. QED
        BY <1>2, <2>1 DEF TypeOK
<1>5. TypeOK'
    BY <1>1, <1>3, <1>4 DEF TypeOK
<1>6. IdsCounted' /\ IdsBelowNext' /\ GenBound' /\ NoUpdateApplies'
    <2>1. IdsCounted'
        BY <1>1, <1>3 DEF IdsCounted, TypeOK
    <2>2. GenBound'
        BY <1>1 DEF GenBound, TypeOK, Gens
    <2>3. QED
        BY <1>1, <2>1, <2>2 DEF IdsBelowNext, NoUpdateApplies
<1>7. RowsIssued'
    BY <1>1, <1>3, <1>4 DEF RowsIssued
<1>8. DeleteTarget' /\ DeleteRevoked'
    BY <1>1, <1>3, <1>4 DEF DeleteTarget, DeleteRevoked
<1>9. QED
    BY <1>5, <1>6, <1>7, <1>8

\* ClusterRoleBindings().Delete: only the binding set changes.
LEMMA DeleteCRBInv ==
    ASSUME RevokeInv, NEW p \in Procs, DeleteCRB(p)
    PROVE  RevokeInv'
<1> USE DEF RevokeInv, TypeInv
<1>1. /\ pc[p] = "d_crb" /\ p \notin Creating
      /\ UNCHANGED <<sa, lastGen, rows, nextId, name, kid, snap, tok, requests>>
      /\ crb' \subseteq Names
    BY DEF DeleteCRB, local, Creating, CreatingOf, CreatePCs, TypeOK
<1>2. \/ pc' = [pc EXCEPT ![p] = "d_sa"]
      \/ pc' = [pc EXCEPT ![p] = "idle"]
    BY DEF DeleteCRB, Goto, Error, Return
<1>3. /\ pc' \in [Procs -> PCs] /\ pc'[p] \in {"d_sa", "idle"}
      /\ \A q \in Procs \ {p} : pc'[q] = pc[q]
      /\ Cardinality(Creating') = Cardinality(Creating)
      /\ Cardinality(Creating) \in Nat
    <2>1. "d_sa" \notin CreatePCs /\ "d_sa" \in PCs
          /\ "idle" \notin CreatePCs /\ "idle" \in PCs
        BY DEF CreatePCs, PCs
    <2>2. QED
        BY <1>1, <1>2, <2>1, CreatingStep, PcStep DEF TypeOK
<1>4. TypeOK'
    BY <1>1, <1>3 DEF TypeOK
<1>5. QED
    BY <1>1, <1>3, <1>4
       DEF IdsCounted, IdsBelowNext, GenBound, NoUpdateApplies, RowsIssued,
           DeleteTarget, DeleteRevoked, TypeOK

\* ServiceAccounts().Delete: the row's account, which DeleteTarget says is
\* the goroutine's, is gone, so its token stops working.
LEMMA DeleteSAInv ==
    ASSUME RevokeInv, NEW p \in Procs, DeleteSA(p)
    PROVE  RevokeInv'
<1> USE DEF RevokeInv, TypeInv
<1>1. /\ pc[p] = "d_sa" /\ p \notin Creating
      /\ UNCHANGED <<lastGen, crb, rows, nextId, name, kid, snap, tok, requests>>
    BY DEF DeleteSA, local, Creating, CreatingOf, CreatePCs
<1>2. \/ /\ sa' = [sa EXCEPT ![name[p]] = 0]
         /\ pc' = [pc EXCEPT ![p] = "d_db"]
      \/ /\ sa' = sa
         /\ pc' = [pc EXCEPT ![p] = "idle"]
    BY DEF DeleteSA, Goto, Error, Return
<1>3. /\ pc' \in [Procs -> PCs] /\ pc'[p] \in {"d_db", "idle"}
      /\ \A q \in Procs \ {p} : pc'[q] = pc[q]
      /\ Cardinality(Creating') = Cardinality(Creating)
      /\ Cardinality(Creating) \in Nat
    <2>1. "d_db" \notin CreatePCs /\ "d_db" \in PCs
          /\ "idle" \notin CreatePCs /\ "idle" \in PCs
        BY DEF CreatePCs, PCs
    <2>2. QED
        BY <1>1, <1>2, <2>1, CreatingStep, PcStep DEF TypeOK
<1>4. /\ sa' \in [Names -> Gens]
      /\ \A n \in Names : sa'[n] = sa[n] \/ sa'[n] = 0
      /\ pc'[p] = "d_db" => sa'[name[p]] = 0
    BY <1>2, <1>3 DEF TypeOK, Gens
<1>5. TypeOK'
    BY <1>1, <1>3, <1>4 DEF TypeOK
<1>6. GenBound'
    BY <1>1, <1>4 DEF GenBound, TypeOK, Gens
<1>7. DeleteRevoked'
    <2> SUFFICES ASSUME NEW q \in Procs, pc'[q] = "d_db", kid[q] \in DOMAIN rows
                 PROVE  sa'[name[q]] = 0 \/ sa'[name[q]] > rows[kid[q]].gen
        BY <1>1 DEF DeleteRevoked
    <2>1. CASE q = p
        BY <1>4, <2>1
    <2>2. CASE q # p
        BY <1>3, <1>4, <2>2 DEF DeleteRevoked, TypeOK
    <2>3. QED
        BY <2>1, <2>2
<1>8. QED
    BY <1>1, <1>3, <1>5, <1>6, <1>7
       DEF IdsCounted, IdsBelowNext, NoUpdateApplies, RowsIssued, DeleteTarget, TypeOK

\* KubeConfig().Delete: removing a row leaves the others as they were.
LEMMA DeleteRowInv ==
    ASSUME RevokeInv, NEW p \in Procs, DeleteRow(p)
    PROVE  RevokeInv'
<1> USE DEF RevokeInv, TypeInv
<1>1. /\ pc[p] = "d_db" /\ p \notin Creating
      /\ UNCHANGED <<sa, lastGen, crb, nextId, name, kid, snap, tok, requests>>
      /\ pc' = [pc EXCEPT ![p] = "idle"]
    BY DEF DeleteRow, local, Return, Creating, CreatingOf, CreatePCs
<1>2. /\ DOMAIN rows' \subseteq DOMAIN rows
      /\ \A k \in DOMAIN rows' : rows'[k] = rows[k]
      /\ rows' \in [DOMAIN rows' -> Rows]
    BY RowsDomain DEF DeleteRow, TypeOK
<1>3. /\ pc' \in [Procs -> PCs] /\ pc'[p] = "idle"
      /\ \A q \in Procs \ {p} : pc'[q] = pc[q]
      /\ Cardinality(Creating') = Cardinality(Creating)
      /\ Cardinality(Creating) \in Nat
    <2>1. "idle" \notin CreatePCs /\ "idle" \in PCs
        BY DEF CreatePCs, PCs
    <2>2. QED
        BY <1>1, <2>1, CreatingStep, PcStep DEF TypeOK
<1>4. TypeOK'
    <2>1. DOMAIN rows' \in SUBSET Ids
        BY <1>2, RowsDomain DEF TypeOK
    <2>2. (\E ids \in SUBSET Ids : rows \in [ids -> Rows])'
        BY <1>2, <2>1, RowsTyped
    <2>3. QED
        BY <1>1, <1>3, <2>2 DEF TypeOK
<1>5. QED
    BY <1>1, <1>2, <1>3, <1>4
       DEF IdsCounted, IdsBelowNext, GenBound, NoUpdateApplies, RowsIssued,
           DeleteTarget, DeleteRevoked, TypeOK

-----------------------------------------------------------------------------
(***************************************************************************)
(* The theorems.                                                           *)
(***************************************************************************)
LEMMA RevokeInvNext == RevokeInv /\ [Next]_vars => RevokeInv'
<1> SUFFICES ASSUME RevokeInv, [Next]_vars PROVE RevokeInv'
    OBVIOUS
<1>1. CASE UNCHANGED vars
    <2>1. Creating' = Creating
        BY <1>1, CreatingUnchanged DEF vars
    <2>2. QED
        BY <1>1, <2>1
           DEF vars, RevokeInv, TypeInv, TypeOK, IdsCounted, IdsBelowNext, GenBound,
               NoUpdateApplies, RowsIssued, DeleteTarget, DeleteRevoked
<1>2. QED
    BY <1>1, CreateSAInv, CreateCRBInv, CreateTokenInv, CreateRowInv,
       UpdateGetInv, UpdateTokenInv, UpdateRowInv,
       DeleteGetInv, DeleteCRBInv, DeleteSAInv, DeleteRowInv
       DEF Next

\* The kubeConfigs model is well typed: every row id the insert hands out
\* is in Ids, and every account generation in Gens, whatever the number of
\* goroutines and the interleaving of their calls.
THEOREM TypeCorrect == Spec => []TypeOK
<1>1. Spec => []RevokeInv
    BY RevokeInvInit, RevokeInvNext, PTL DEF Spec
<1>2. QED
    BY <1>1, PTL DEF RevokeInv, TypeInv

\* A step that is not KubeConfig().Delete keeps every row id.
LEMMA RowsKept ==
    ASSUME RevokeInv, NEW p \in Procs,
           \/ CreateSA(p) \/ CreateCRB(p) \/ CreateToken(p) \/ CreateRow(p)
           \/ UpdateGet(p) \/ UpdateToken(p) \/ UpdateRow(p)
           \/ DeleteGet(p) \/ DeleteCRB(p) \/ DeleteSA(p)
    PROVE  DOMAIN rows \subseteq DOMAIN rows'
<1>1. CASE CreateRow(p)
    BY <1>1 DEF CreateRow
<1>2. CASE UpdateRow(p)
    <2>1. DaoUpdate(kid[p], UpdateVersion(p), tok[p]) = rows
        BY DaoUpdateNoop DEF RevokeInv, TypeInv
    <2>2. QED
        BY <1>2, <2>1 DEF UpdateRow
<1>3. CASE \/ CreateSA(p) \/ CreateCRB(p) \/ CreateToken(p)
           \/ UpdateGet(p) \/ UpdateToken(p)
           \/ DeleteGet(p) \/ DeleteCRB(p) \/ DeleteSA(p)
    BY <1>3 DEF CreateSA, CreateCRB, CreateToken, UpdateGet, UpdateToken,
                DeleteGet, DeleteCRB, DeleteSA
<1>4. QED
    BY <1>1, <1>2, <1>3

LEMMA ForgetStep ==
    RevokeInv /\ [Next]_vars =>
        [\A k \in DOMAIN rows \ DOMAIN rows' : ~Works(rows[k])]_vars
<1> SUFFICES ASSUME RevokeInv, [Next]_vars, NEW k \in DOMAIN rows \ DOMAIN rows'
             PROVE  ~Works(rows[k])
    OBVIOUS
<1>1. CASE UNCHANGED vars
    BY <1>1 DEF vars
<1>2. ASSUME NEW p \in Procs, DeleteRow(p) PROVE ~Works(rows[k])
    <2>1. k = kid[p] /\ pc[p] = "d_db"
        BY <1>2 DEF DeleteRow
    <2>2. /\ rows[k].sa = name[p]
          /\ sa[name[p]] = 0 \/ sa[name[p]] > rows[k].gen
          /\ 1 <= rows[k].gen
        BY <2>1 DEF RevokeInv, DeleteTarget, DeleteRevoked, RowsIssued
    <2>3. rows[k].gen \in Nat /\ sa[name[p]] \in Nat
        BY RowsDomain DEF RevokeInv, TypeInv, TypeOK, Rows, Gens
    <2>4. QED
        BY <2>2, <2>3 DEF Works
<1>3. QED
    BY <1>1, <1>2, RowsKept DEF Next

\* Delete revokes before it forgets: whatever the interleaving of Creates,
\* Updates and Deletes and whichever calls fail, KubeConfig().Delete(kid)
\* removes a row only when the row's credential no longer works, so no
\* working credential is left without a row that records it.
THEOREM ForgetsOnlyRevoked == Spec => DeleteForgetsOnlyRevoked
<1>1. Spec => []RevokeInv
    BY RevokeInvInit, RevokeInvNext, PTL DEF Spec
<1>2. QED
    BY <1>1, ForgetStep, PTL DEF Spec, DeleteForgetsOnlyRevoked

=============================================================================
