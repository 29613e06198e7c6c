-------------------------- MODULE UserRolesProofs --------------------------
(***************************************************************************)
(* Proofs about the user DAO model UserRoles, for every value of the      *)
(* constants that satisfies UserRolesAssumption: the model is well typed, *)
(* a user's roles are always one committed assignment, and the model      *)
(* implements the atomic store UserStore.                                  *)
(***************************************************************************)
EXTENDS UserRoles, WellFoundedInduction, TLAPS

USE UserRolesAssumption

-----------------------------------------------------------------------------
(***************************************************************************)
(* After a restart that resets the counter, the next id is the least id   *)
(* above every id in the table: it exists, since MaxUsers + 1 is above    *)
(* them all, and the naturals are well-ordered.                            *)
(***************************************************************************)
LEMMA MaxIdPlusOneAbove ==
    ASSUME TypeOK
    PROVE  MaxIdPlusOne \in AboveIds
<1>1. MaxUsers + 1 \in AboveIds
    BY DEF TypeOK, AboveIds, UserIds
<1>2. AboveIds \subseteq Nat
    BY DEF AboveIds
<1>3. IsWellFoundedOn({ss \in Nat \X Nat : ss[1] < ss[2]}, Nat)
    BY NatLessThanWellFounded DEF OpToRel
<1>4. PICK x \in AboveIds :
          \A y \in AboveIds : ~(<<y, x>> \in {ss \in Nat \X Nat : ss[1] < ss[2]})
    BY <1>1, <1>2, <1>3, WFMin
<1>5. \A y \in AboveIds : ~(y < x)
    <2> TAKE y \in AboveIds
    <2>1. <<y, x>> \in Nat \X Nat
        BY <1>2
    <2>2. QED
        BY <1>4, <2>1
<1>6. \A y \in AboveIds : x <= y
    BY <1>2, <1>5
<1>7. QED
    BY <1>6 DEF MaxIdPlusOne

-----------------------------------------------------------------------------
(***************************************************************************)
(* Type correctness.                                                       *)
(***************************************************************************)
LEMMA TypeInit == Init => TypeOK
<1> SUFFICES ASSUME Init PROVE TypeOK
    OBVIOUS
<1>1. DOMAIN users = {} /\ users \in [DOMAIN users -> UserRow]
    BY DEF Init
<1>2. nextId \in 1..(MaxUsers + 1) /\ requests \in 0..MaxRequests
      /\ restarts \in 0..MaxRestarts
    BY DEF Init
<1>3. /\ pc \in [Procs -> PCs] /\ uid \in [Procs -> UserIds]
      /\ snap \in [Procs -> UserRow] /\ tag \in [Procs -> Tags]
    BY DEF Init, PCs, UserIds, UserRow, Tags
<1>4. QED
    BY <1>1, <1>2, <1>3 DEF Init, TypeOK

LEMMA TypeNext == TypeOK /\ [Next]_vars => TypeOK'
<1> SUFFICES ASSUME TypeOK, [Next]_vars PROVE TypeOK'
    OBVIOUS
<1>1. ASSUME NEW p \in Procs, CreateUser(p) PROVE TypeOK'
    BY <1>1 DEF CreateUser, Arrive, NewUserId, TypeOK, UserRow, UserIds, Tags, local
<1>2. ASSUME NEW p \in Procs, UpdateGet(p) PROVE TypeOK'
    <2>1. PICK u \in UserIds :
              /\ uid' = [uid EXCEPT ![p] = u]
              /\ \/ /\ u \in DOMAIN users
                    /\ snap' = [snap EXCEPT ![p] = users[u]]
                    /\ pc' = [pc EXCEPT ![p] = "u_write"]
                 \/ /\ Error(p, u \notin DOMAIN users)
                    /\ UNCHANGED snap
        BY <1>2 DEF UpdateGet
    <2>2. uid' \in [Procs -> UserIds] /\ tag' \in [Procs -> Tags]
          /\ requests' \in 0..MaxRequests
        BY <1>2, <2>1 DEF UpdateGet, Arrive, TypeOK, Tags
    <2>3. snap' \in [Procs -> UserRow] /\ pc' \in [Procs -> PCs]
        BY <2>1 DEF Error, Return, TypeOK, PCs
    <2>4. QED
        BY <1>2, <2>2, <2>3 DEF UpdateGet, TypeOK
<1>3. ASSUME NEW p \in Procs, UpdateWrite(p) PROVE TypeOK'
    <2>1. CASE UpdateMatches(uid[p], snap[p].rv)
              /\ users' = [users EXCEPT ![uid[p]] = [rv |-> UpdatedVersion(p), val |-> tag[p]]]
              /\ Return(p)
        <3>1. [rv |-> UpdatedVersion(p), val |-> tag[p]] \in UserRow
            BY DEF TypeOK, UpdatedVersion, UserRow
        <3>2. users' \in [DOMAIN users' -> UserRow] /\ DOMAIN users' \subseteq UserIds
            BY <2>1, <3>1 DEF TypeOK
        <3>3. QED
            BY <1>3, <2>1, <3>2 DEF UpdateWrite, Return, TypeOK, PCs, local
    <2>2. CASE Error(p, ~UpdateMatches(uid[p], snap[p].rv)) /\ UNCHANGED users
        BY <1>3, <2>2 DEF UpdateWrite, Return, Error, TypeOK, PCs, local
    <2>3. QED
        BY <1>3, <2>1, <2>2 DEF UpdateWrite
<1>4. ASSUME NEW p \in Procs, DeleteUser(p) PROVE TypeOK'
    BY <1>4 DEF DeleteUser, Arrive, TypeOK, UserRow, Tags, local
<1>5. ASSUME NEW p \in Procs, DeleteRolesByUserID(p) PROVE TypeOK'
    BY <1>5 DEF DeleteRolesByUserID, Kept, Arrive, TypeOK, Tags, local
<1>6. ASSUME NEW p \in Procs, SetBegin(p) PROVE TypeOK'
    BY <1>6 DEF SetBegin, Arrive, Return, Error, TypeOK, Tags, PCs
<1>7. ASSUME NEW p \in Procs, SetDelete(p) PROVE TypeOK'
    BY <1>7 DEF SetDelete, Return, Error, TypeOK, PCs, local
<1>8. ASSUME NEW p \in Procs, SetInsert(p) PROVE TypeOK'
    BY <1>8 DEF SetInsert, Return, Error, TypeOK, PCs
<1>9. ASSUME NEW p \in Procs, SetCommit(p) PROVE TypeOK'
    BY <1>9 DEF SetCommit, Kept, Return, Error, TypeOK, PCs, local
<1>10. CASE Restart
    <2>1. nextId' \in 1..(MaxUsers + 1)
        <3>1. MaxIdPlusOne \in 1..(MaxUsers + 1)
            BY MaxIdPlusOneAbove DEF AboveIds
        <3>2. QED
            BY <1>10, <3>1 DEF Restart, TypeOK
    <2>2. QED
        BY <1>10, <2>1 DEF Restart, TypeOK, PCs, local
<1>11. CASE UNCHANGED vars
    BY <1>11 DEF vars, TypeOK
<1>12. QED
    BY <1>1, <1>2, <1>3, <1>4, <1>5, <1>6, <1>7, <1>8, <1>9, <1>10, <1>11 DEF Next

\* Every state the user DAO reaches is well typed.
THEOREM TypeCorrect == Spec => []TypeOK
BY TypeInit, TypeNext, PTL DEF Spec

-----------------------------------------------------------------------------
(***************************************************************************)
(* A user's roles are one committed assignment.  The invariant is         *)
(* inductive by itself: only SetCommit and DeleteRolesByUserID change     *)
(* user_role, and each changes the rows of one user only, to a committed  *)
(* set or to none.                                                         *)
(***************************************************************************)
\* Replacing the rows of user u by the roles R changes the roles of u alone.
LEMMA RolesOfKept ==
    ASSUME NEW u, NEW v, NEW R,
           userRole' = {x \in userRole : x[1] # u} \cup {<<u, r>> : r \in R}
    PROVE  RolesOf(v)' = IF v = u THEN R ELSE RolesOf(v)
<1>1. CASE v = u
    <2>1. {y \in userRole' : y[1] = v} = {<<u, r>> : r \in R}
        <3>1. \A y \in userRole' : y[1] = v => y \in {<<u, r>> : r \in R}
            BY <1>1
        <3>2. \A r \in R : <<u, r>> \in userRole' /\ <<u, r>>[1] = v
            BY <1>1
        <3>3. QED
            BY <3>1, <3>2
    <2>2. {x[2] : x \in {<<u, r>> : r \in R}} = R
        <3>1. \A x \in {<<u, r>> : r \in R} : x[2] \in R
            OBVIOUS
        <3>2. \A r \in R : <<u, r>> \in {<<u, q>> : q \in R} /\ <<u, r>>[2] = r
            OBVIOUS
        <3>3. \A z : z \in {x[2] : x \in {<<u, r>> : r \in R}} <=> z \in R
            BY <3>1, <3>2
        <3>4. QED
            BY <3>3
    <2>3. QED
        BY <1>1, <2>1, <2>2 DEF RolesOf
<1>2. CASE v # u
    <2>1. {y \in userRole' : y[1] = v} = {y \in userRole : y[1] = v}
        BY <1>2
    <2>2. QED
        BY <1>2, <2>1 DEF RolesOf
<1>3. QED
    BY <1>1, <1>2

LEMMA AssignmentNext ==
    TypeOK /\ RolesAreOneAssignment /\ [Next]_vars => RolesAreOneAssignment'
<1> SUFFICES ASSUME TypeOK, RolesAreOneAssignment, [Next]_vars
             PROVE  RolesAreOneAssignment'
    OBVIOUS
<1>1. ASSUME NEW p \in Procs, SetCommit(p) PROVE RolesAreOneAssignment'
    <2>1. CASE /\ userRole' = Kept(uid[p]) \cup {<<uid[p], r>> : r \in rids[p]}
               /\ committed' = committed \cup {<<uid[p], rids[p]>>}
        <3> SUFFICES ASSUME NEW u \in UserIds
                     PROVE  RolesOf(u)' = {} \/ <<u, RolesOf(u)'>> \in committed'
            BY DEF RolesAreOneAssignment
        <3>1. RolesOf(u)' = IF u = uid[p] THEN rids[p] ELSE RolesOf(u)
            BY <2>1, RolesOfKept DEF Kept
        <3>2. QED
            BY <2>1, <3>1 DEF RolesAreOneAssignment
    <2>2. CASE UNCHANGED <<userRole, committed>>
        BY <2>2 DEF RolesAreOneAssignment, RolesOf
    <2>3. QED
        BY <1>1, <2>1, <2>2 DEF SetCommit
<1>2. ASSUME NEW p \in Procs, DeleteRolesByUserID(p) PROVE RolesAreOneAssignment'
    <2>1. ASSUME NEW u \in UserIds, userRole' = Kept(u)
          PROVE  RolesAreOneAssignment'
        <3> SUFFICES ASSUME NEW v \in UserIds
                     PROVE  RolesOf(v)' = {} \/ <<v, RolesOf(v)'>> \in committed'
            BY DEF RolesAreOneAssignment
        <3>1. userRole' = {x \in userRole : x[1] # u} \cup {<<u, r>> : r \in {}}
            BY <2>1 DEF Kept
        <3>2. RolesOf(v)' = IF v = u THEN {} ELSE RolesOf(v)
            BY <3>1, RolesOfKept
        <3>3. QED
            BY <1>2, <3>2 DEF DeleteRolesByUserID, RolesAreOneAssignment
    <2>2. CASE UNCHANGED userRole
        BY <1>2, <2>2 DEF DeleteRolesByUserID, RolesAreOneAssignment, RolesOf
    <2>3. QED
        BY <1>2, <2>1, <2>2 DEF DeleteRolesByUserID
<1>3. CASE UNCHANGED <<userRole, committed>>
    BY <1>3 DEF RolesAreOneAssignment, RolesOf
<1>4. QED
    BY <1>1, <1>2, <1>3 DEF Next, CreateUser, UpdateGet, UpdateWrite, DeleteUser,
                            SetBegin, SetDelete, SetInsert, Restart, vars

\* Whatever the interleaving of SetUserRoles transactions, their failures,
\* DeleteRolesByUserID and restarts, every user's role set is empty or the
\* rids of one committed SetUserRoles for that user.
THEOREM OneAssignment == Spec => []RolesAreOneAssignment
<1>1. Init => RolesAreOneAssignment
    BY DEF Init, RolesAreOneAssignment, RolesOf
<1>2. QED
    BY <1>1, TypeCorrect, AssignmentNext, PTL DEF Spec


-----------------------------------------------------------------------------
(***************************************************************************)
(* Refinement.  The mapping is the identity on the two tables.  The       *)
(* invariant it needs beyond TypeOK is that every id in the users table   *)
(* is below the auto-increment counter, so that CreateUser inserts under  *)
(* an id no user has, also after a restart that resets the counter to     *)
(* max(id) + 1.                                                            *)
(***************************************************************************)
IdsBelowNext == \A i \in DOMAIN users : i < nextId

Inv == TypeOK /\ IdsBelowNext

LEMMA IdsBelowNextNext == Inv /\ [Next]_vars => IdsBelowNext'
<1> SUFFICES ASSUME Inv, [Next]_vars PROVE IdsBelowNext'
    OBVIOUS
<1>1. ASSUME NEW p \in Procs, CreateUser(p) PROVE IdsBelowNext'
    BY <1>1 DEF CreateUser, Arrive, NewUserId, Inv, TypeOK, IdsBelowNext, UserIds
<1>2. ASSUME NEW p \in Procs, DeleteUser(p) PROVE IdsBelowNext'
    BY <1>2 DEF DeleteUser, Inv, IdsBelowNext
<1>3. CASE Restart
    <2>1. MaxIdPlusOne \in AboveIds
        BY MaxIdPlusOneAbove DEF Inv
    <2>2. QED
        BY <1>3, <2>1 DEF Restart, AboveIds, Inv, IdsBelowNext
<1>4. ASSUME NEW p \in Procs, UpdateWrite(p) PROVE IdsBelowNext'
    <2>1. DOMAIN users' = DOMAIN users /\ nextId' = nextId
        BY <1>4 DEF UpdateWrite
    <2>2. QED
        BY <2>1 DEF Inv, IdsBelowNext
<1>5. CASE UNCHANGED <<users, nextId>>
    BY <1>5 DEF Inv, IdsBelowNext
<1>6. QED
    BY <1>1, <1>2, <1>3, <1>4, <1>5
       DEF Next, UpdateGet, DeleteRolesByUserID, SetBegin, SetDelete,
           SetInsert, SetCommit, vars

LEMMA RefineNext ==
    Inv /\ [Next]_vars => [AbstractStore!Next]_AbstractStore!vars
<1> SUFFICES ASSUME Inv, [Next]_vars
             PROVE  [AbstractStore!Next]_AbstractStore!vars
    OBVIOUS
<1> USE DEF Inv, TypeOK
<1>1. ASSUME NEW p \in Procs, CreateUser(p) PROVE [AbstractStore!Next]_AbstractStore!vars
    <2>1. CASE nextId \in UserIds
              /\ users' = [i \in DOMAIN users \cup {NewUserId} |->
                             IF i = NewUserId THEN [rv |-> 0, val |-> requests + 1]
                                              ELSE users[i]]
        <3>1. nextId \in AbstractStore!UserIds \ DOMAIN users
            BY <2>1 DEF IdsBelowNext, UserIds, AbstractStore!UserIds
        <3>2. requests + 1 \in AbstractStore!Vals
            BY <1>1 DEF CreateUser, Arrive, AbstractStore!Vals
        <3>3. QED
            BY <1>1, <2>1, <3>1, <3>2 DEF CreateUser, NewUserId, AbstractStore!Next,
                                          AbstractStore!Create
    <2>2. CASE UNCHANGED users
        BY <1>1, <2>2 DEF CreateUser, AbstractStore!vars
    <2>3. QED
        BY <1>1, <2>1, <2>2 DEF CreateUser
<1>2. ASSUME NEW p \in Procs, UpdateWrite(p) PROVE [AbstractStore!Next]_AbstractStore!vars
    <2>1. CASE /\ UpdateMatches(uid[p], snap[p].rv)
               /\ users' = [users EXCEPT ![uid[p]] = [rv |-> UpdatedVersion(p), val |-> tag[p]]]
        <3>1. uid[p] \in DOMAIN users /\ UpdatedVersion(p) = users[uid[p]].rv + 1
            BY <2>1 DEF UpdateMatches, UpdatedVersion
        <3>2. tag[p] \in AbstractStore!Vals
            BY DEF Tags, AbstractStore!Vals
        <3>3. QED
            BY <1>2, <2>1, <3>1, <3>2 DEF UpdateWrite, AbstractStore!Next, AbstractStore!Update
    <2>2. CASE UNCHANGED users
        BY <1>2, <2>2 DEF UpdateWrite, AbstractStore!vars
    <2>3. QED
        BY <1>2, <2>1, <2>2 DEF UpdateWrite
<1>3. ASSUME NEW p \in Procs, DeleteUser(p) PROVE [AbstractStore!Next]_AbstractStore!vars
    BY <1>3 DEF DeleteUser, UserIds, AbstractStore!UserIds, AbstractStore!Next,
                AbstractStore!Delete, AbstractStore!vars
<1>4. ASSUME NEW p \in Procs, DeleteRolesByUserID(p) PROVE [AbstractStore!Next]_AbstractStore!vars
    BY <1>4 DEF DeleteRolesByUserID, Kept, UserIds, AbstractStore!UserIds, AbstractStore!Next,
                AbstractStore!DeleteRolesByUserID, AbstractStore!Others, AbstractStore!vars
<1>5. ASSUME NEW p \in Procs, SetCommit(p) PROVE [AbstractStore!Next]_AbstractStore!vars
    <2>1. uid[p] \in AbstractStore!UserIds /\ rids[p] \in SUBSET Roles
        BY DEF UserIds, AbstractStore!UserIds
    <2>2. QED
        BY <1>5, <2>1 DEF SetCommit, Kept, AbstractStore!Next, AbstractStore!SetUserRoles,
                          AbstractStore!Others, AbstractStore!vars
<1>6. CASE UNCHANGED <<users, userRole>>
    BY <1>6 DEF AbstractStore!vars
<1>7. QED
    BY <1>1, <1>2, <1>3, <1>4, <1>5, <1>6
       DEF Next, UpdateGet, SetBegin, SetDelete, SetInsert, Restart, vars

\* The user DAO implements its atomic specification UserStore: every step
\* of any interleaving of requests, failures and restarts changes the users
\* and user_role tables as one atomic UserStore operation, or not at all.
THEOREM Refinement == Spec => ImplementsUserStore
<1>1. Init => Inv
    BY TypeInit DEF Init, Inv, IdsBelowNext
<1>2. Inv /\ [Next]_vars => Inv'
    BY TypeNext, IdsBelowNextNext DEF Inv
<1>3. Init => AbstractStore!Init
    BY DEF Init, AbstractStore!Init
<1>4. QED
    BY <1>1, <1>2, <1>3, RefineNext, PTL DEF Spec, ImplementsUserStore, AbstractStore!Spec


-----------------------------------------------------------------------------
(***************************************************************************)
(* No lost update, when the id counter is never reset (IdReuse FALSE, as  *)
(* InnoDB's since MySQL 8.0).  A goroutine between its Get and its Update *)
(* holds a user id below the counter, so no Create can reuse it; and the  *)
(* row under that id is either still the row its Get returned or has a   *)
(* larger resource_version, since every Update in between bumped it.  So *)
(* the WHERE resource_version = version of its Update matches only the   *)
(* row it read.                                                            *)
(***************************************************************************)
SnapCurrent ==
    \A p \in Procs : pc[p] = "u_write" =>
        /\ uid[p] < nextId
        /\ uid[p] \in DOMAIN users =>
               \/ users[uid[p]] = snap[p]
               \/ users[uid[p]].rv > snap[p].rv

UpdateInv == TypeOK /\ IdsBelowNext /\ SnapCurrent

LEMMA SnapCurrentInit == Init => SnapCurrent
BY DEF Init, SnapCurrent

LEMMA SnapCurrentNext ==
    ASSUME ~IdReuse
    PROVE  UpdateInv /\ [Next]_vars => SnapCurrent'
<1> SUFFICES ASSUME UpdateInv, [Next]_vars PROVE SnapCurrent'
    OBVIOUS
<1> USE DEF UpdateInv, TypeOK
<1>1. ASSUME NEW q \in Procs, CreateUser(q) PROVE SnapCurrent'
    <2> SUFFICES ASSUME NEW p \in Procs, pc'[p] = "u_write" PROVE
                     /\ uid'[p] < nextId'
                     /\ uid'[p] \in DOMAIN users' =>
                            \/ users'[uid'[p]] = snap'[p]
                            \/ users'[uid'[p]].rv > snap'[p].rv
        BY DEF SnapCurrent
    <2>1. pc[p] = "u_write" /\ uid' = uid /\ snap' = snap
        BY <1>1 DEF CreateUser, Arrive, local
    <2>5. nextId' \in Nat /\ nextId <= nextId'
        BY <1>1 DEF CreateUser
    <2>2. uid[p] < nextId
        BY <2>1 DEF SnapCurrent
    <2>3. uid[p] \in DOMAIN users' => uid[p] \in DOMAIN users /\ users'[uid[p]] = users[uid[p]]
        BY <1>1, <2>2 DEF CreateUser, NewUserId
    <2>6. uid[p] < nextId'
        BY <2>2, <2>5 DEF UserIds
    <2>4. QED
        BY <2>1, <2>3, <2>6 DEF SnapCurrent
<1>2. ASSUME NEW q \in Procs, UpdateGet(q) PROVE SnapCurrent'
    <2>1. PICK u \in UserIds :
              /\ uid' = [uid EXCEPT ![q] = u]
              /\ \/ /\ u \in DOMAIN users
                    /\ snap' = [snap EXCEPT ![q] = users[u]]
                    /\ pc' = [pc EXCEPT ![q] = "u_write"]
                 \/ /\ Error(q, u \notin DOMAIN users)
                    /\ UNCHANGED snap
        BY <1>2, Zenon DEF UpdateGet
    <2>2. users' = users /\ nextId' = nextId /\ pc[q] = "idle"
        BY <1>2 DEF UpdateGet, Arrive
    <2> SUFFICES ASSUME NEW p \in Procs, pc'[p] = "u_write" PROVE
                     /\ uid'[p] < nextId'
                     /\ uid'[p] \in DOMAIN users' =>
                            \/ users'[uid'[p]] = snap'[p]
                            \/ users'[uid'[p]].rv > snap'[p].rv
        BY DEF SnapCurrent
    <2>3. CASE p = q
        <3>1. u \in DOMAIN users /\ uid'[p] = u /\ snap'[p] = users[u]
            BY <2>1, <2>3 DEF Error, Return
        <3>2. QED
            BY <2>2, <3>1 DEF IdsBelowNext
    <2>4. CASE p # q
        <3>1. pc[p] = "u_write" /\ uid'[p] = uid[p] /\ snap'[p] = snap[p]
            BY <2>1, <2>4 DEF Error, Return
        <3>2. QED
            BY <2>2, <3>1 DEF SnapCurrent
    <2>5. QED
        BY <2>3, <2>4
<1>3. ASSUME NEW q \in Procs, UpdateWrite(q) PROVE SnapCurrent'
    <2>1. UNCHANGED <<nextId, uid, snap>> /\ pc[q] = "u_write"
        BY <1>3 DEF UpdateWrite, local
    <2> SUFFICES ASSUME NEW p \in Procs, pc'[p] = "u_write" PROVE
                     /\ uid[p] < nextId
                     /\ uid[p] \in DOMAIN users' =>
                            \/ users'[uid[p]] = snap[p]
                            \/ users'[uid[p]].rv > snap[p].rv
        BY <2>1 DEF SnapCurrent
    <2>2. p # q /\ pc[p] = "u_write"
        BY <1>3 DEF UpdateWrite, Return, Error
    <2>3. uid[p] < nextId
        BY <2>2 DEF SnapCurrent
    <2>4. CASE /\ UpdateMatches(uid[q], snap[q].rv)
               /\ users' = [users EXCEPT ![uid[q]] = [rv |-> UpdatedVersion(q), val |-> tag[q]]]
        <3>1. DOMAIN users' = DOMAIN users
            BY <2>4
        <3>2. CASE uid[p] = uid[q]
            <4>1. uid[p] \in DOMAIN users /\ users[uid[p]].rv = snap[q].rv
                BY <2>4, <3>2 DEF UpdateMatches
            <4>2. users[uid[p]].rv >= snap[p].rv
                BY <2>2, <4>1 DEF SnapCurrent, UserRow
            <4>3. users'[uid[p]].rv = snap[q].rv + 1
                BY <2>4, <3>2, <4>1 DEF UpdatedVersion
            <4>4. snap[p].rv \in Nat /\ snap[q].rv \in Nat
                BY DEF UserRow
            <4>5. QED
                BY <4>1, <4>2, <4>3, <4>4, <2>3
        <3>3. CASE uid[p] # uid[q]
            BY <2>2, <2>3, <2>4, <3>1, <3>3 DEF SnapCurrent
        <3>4. QED
            BY <2>3, <3>2, <3>3
    <2>5. CASE UNCHANGED users
        BY <2>2, <2>3, <2>5 DEF SnapCurrent
    <2>6. QED
        BY <1>3, <2>4, <2>5 DEF UpdateWrite, Error
<1>4. ASSUME NEW q \in Procs, DeleteUser(q) PROVE SnapCurrent'
    <2> SUFFICES ASSUME NEW p \in Procs, pc'[p] = "u_write" PROVE
                     /\ uid'[p] < nextId'
                     /\ uid'[p] \in DOMAIN users' =>
                            \/ users'[uid'[p]] = snap'[p]
                            \/ users'[uid'[p]].rv > snap'[p].rv
        BY DEF SnapCurrent
    <2>1. pc[p] = "u_write" /\ UNCHANGED <<uid, snap, nextId>>
        BY <1>4 DEF DeleteUser, local
    <2>2. DOMAIN users' \subseteq DOMAIN users /\ \A i \in DOMAIN users' : users'[i] = users[i]
        BY <1>4 DEF DeleteUser
    <2>3. QED
        BY <2>1, <2>2 DEF SnapCurrent
<1>5. CASE Restart
    <2> SUFFICES ASSUME NEW p \in Procs, pc'[p] = "u_write" PROVE
                     /\ uid'[p] < nextId'
                     /\ uid'[p] \in DOMAIN users' =>
                            \/ users'[uid'[p]] = snap'[p]
                            \/ users'[uid'[p]].rv > snap'[p].rv
        BY DEF SnapCurrent
    <2>1. pc[p] = "u_write" /\ UNCHANGED <<users, uid, snap, nextId>>
        BY <1>5 DEF Restart, local
    <2>2. QED
        BY <2>1 DEF SnapCurrent
<1>6. ASSUME NEW q \in Procs,
             \/ DeleteRolesByUserID(q) \/ SetBegin(q) \/ SetDelete(q)
             \/ SetInsert(q) \/ SetCommit(q)
      PROVE SnapCurrent'
    <2> SUFFICES ASSUME NEW p \in Procs, pc'[p] = "u_write" PROVE
                     /\ uid'[p] < nextId'
                     /\ uid'[p] \in DOMAIN users' =>
                            \/ users'[uid'[p]] = snap'[p]
                            \/ users'[uid'[p]].rv > snap'[p].rv
        BY DEF SnapCurrent
    <2>1. UNCHANGED <<users, nextId, snap>> /\ pc[p] = "u_write" /\ uid'[p] = uid[p]
        <3>1. CASE DeleteRolesByUserID(q)
            BY <3>1 DEF DeleteRolesByUserID, local, Arrive
        <3>2. CASE SetBegin(q)
            BY <3>2 DEF SetBegin, Arrive, Error, Return
        <3>3. CASE SetDelete(q)
            BY <3>3 DEF SetDelete, local, Error, Return
        <3>4. CASE SetInsert(q)
            BY <3>4 DEF SetInsert, Error, Return
        <3>5. CASE SetCommit(q)
            BY <3>5 DEF SetCommit, local, Error, Return
        <3>6. QED
            BY <1>6, <3>1, <3>2, <3>3, <3>4, <3>5
    <2>3. QED
        BY <2>1 DEF SnapCurrent
<1>7. CASE UNCHANGED vars
    BY <1>7 DEF vars, SnapCurrent
<1>8. QED
    BY <1>1, <1>2, <1>3, <1>4, <1>5, <1>6, <1>7 DEF Next

LEMMA NoLostUpdateStep ==
    UpdateInv /\ [Next]_vars =>
        [\A p \in Procs :
             (pc[p] = "u_write" /\ pc'[p] = "idle" /\ users' # users)
                 => users[uid[p]] = snap[p]]_vars
<1> SUFFICES ASSUME UpdateInv, [Next]_vars, NEW p \in Procs,
                    pc[p] = "u_write", pc'[p] = "idle", users' # users
             PROVE  users[uid[p]] = snap[p]
    OBVIOUS
<1> USE DEF UpdateInv, TypeOK
<1>1. ASSUME NEW q \in Procs, UpdateWrite(q) PROVE users[uid[p]] = snap[p]
    <2>0. pc' = [pc EXCEPT ![q] = "idle"]
        BY <1>1 DEF UpdateWrite, Return, Error
    <2>1. q = p
        BY <2>0
    <2>2. UpdateMatches(uid[p], snap[p].rv)
        BY <1>1, <2>1 DEF UpdateWrite
    <2>3. uid[p] \in DOMAIN users /\ users[uid[p]].rv = snap[p].rv
        BY <2>2 DEF UpdateMatches
    <2>4. snap[p].rv \in Nat
        BY DEF UserRow
    <2>5. QED
        BY <2>3, <2>4 DEF SnapCurrent
<1>2. ASSUME NEW q \in Procs,
             \/ CreateUser(q) \/ UpdateGet(q) \/ DeleteUser(q)
             \/ DeleteRolesByUserID(q) \/ SetBegin(q)
      PROVE  FALSE
    <2>1. pc[q] = "idle"
        <3>1. CASE CreateUser(q) \/ DeleteUser(q) \/ DeleteRolesByUserID(q)
            BY <3>1 DEF CreateUser, DeleteUser, DeleteRolesByUserID, Arrive
        <3>2. CASE UpdateGet(q)
            <4>1. Arrive(q)
                BY <3>2 DEF UpdateGet
            <4>2. QED
                BY <4>1 DEF Arrive
        <3>3. CASE SetBegin(q)
            <4>1. Arrive(q)
                BY <3>3 DEF SetBegin
            <4>2. QED
                BY <4>1 DEF Arrive
        <3>4. QED
            BY <1>2, <3>1, <3>2, <3>3
    <2>2. q # p
        BY <2>1
    <2>3. pc'[p] = pc[p]
        <3>1. CASE CreateUser(q) \/ DeleteUser(q) \/ DeleteRolesByUserID(q)
            BY <3>1 DEF CreateUser, DeleteUser, DeleteRolesByUserID
        <3>2. CASE UpdateGet(q)
            BY <3>2, <2>2, Zenon DEF UpdateGet, Error, Return
        <3>3. CASE SetBegin(q)
            BY <3>3, <2>2 DEF SetBegin, Error, Return
        <3>4. QED
            BY <1>2, <3>1, <3>2, <3>3
    <2>4. QED
        BY <2>3
<1>3. ASSUME NEW q \in Procs, SetDelete(q) \/ SetInsert(q) \/ SetCommit(q)
      PROVE  FALSE
    <2>0. pc[q] \in {"s_delete", "s_insert"}
        <3>1. CASE SetDelete(q)
            BY <3>1 DEF SetDelete
        <3>2. CASE SetInsert(q)
            BY <3>2 DEF SetInsert
        <3>3. CASE SetCommit(q)
            BY <3>3 DEF SetCommit
        <3>4. QED
            BY <1>3, <3>1, <3>2, <3>3
    <2>1. q # p
        BY <2>0
    <2>2. pc'[p] = pc[p]
        <3>1. CASE SetDelete(q)
            BY <3>1, <2>1 DEF SetDelete, Error, Return
        <3>2. CASE SetInsert(q)
            BY <3>2, <2>1 DEF SetInsert, Error, Return
        <3>3. CASE SetCommit(q)
            BY <3>3, <2>1 DEF SetCommit, Error, Return
        <3>4. QED
            BY <1>3, <3>1, <3>2, <3>3
    <2>3. QED
        BY <2>2
<1>4. ~Restart
    BY DEF Restart
<1>5. QED
    BY <1>1, <1>2, <1>3, <1>4 DEF Next, vars

\* No lost update: with the id counter never reset, whatever the
\* interleaving of Gets, Updates, Creates, Deletes, failures and restarts,
\* when a goroutine's user.Update writes the users table the row it
\* overwrites is the row its Get returned.
THEOREM NoLostUpdateHolds ==
    ASSUME ~IdReuse
    PROVE  Spec => NoLostUpdate
<1>1. Init => UpdateInv
    BY TypeInit, SnapCurrentInit DEF Init, UpdateInv, IdsBelowNext
<1>2. UpdateInv /\ [Next]_vars => UpdateInv'
    BY TypeNext, IdsBelowNextNext, SnapCurrentNext DEF UpdateInv, Inv
<1>3. QED
    BY <1>1, <1>2, NoLostUpdateStep, PTL DEF Spec, NoLostUpdate

=============================================================================
