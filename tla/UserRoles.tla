----------------------------- MODULE UserRoles -----------------------------
(***************************************************************************)
(* The user DAO of src/pkg/db/model/plan.go (package user): the users     *)
(* table with its optimistic Update, Delete, SetUserRoles' transaction on *)
(* the user_role table, DeleteRolesByUserID, and the two menu queries     *)
(* GetButtonsByUserID and GetLeftMenusByUserID.                            *)
(*                                                                         *)
(* DAO calls come from concurrent request goroutines.  A call that the    *)
(* caller makes after reading a user (Update needs the resource_version   *)
(* Get returned) is the request's second step.  SetUserRoles runs in one  *)
(* transaction: its DELETE and INSERTs are buffered and take effect at    *)
(* Commit, and any error rolls it back; the database serialises it with   *)
(* the other statements on user_role.                                      *)
(*                                                                         *)
(* A user row is its resource_version and the request that last wrote it *)
(* (val); names, passwords and timestamps are left out.  The database may *)
(* restart; with IdReuse the users id counter then restarts at            *)
(* max(id) + 1, as InnoDB's does before MySQL 8.0 and SQLite's rowid does *)
(* without AUTOINCREMENT.                                                  *)
(***************************************************************************)
EXTENDS Naturals, FiniteSets

CONSTANTS
    Procs,          \* request goroutines
    Roles,          \* role ids
    Menus,          \* menu ids
    MenuParent,     \* menu.parent_id (0 for a top-level menu)
    MenuType,       \* menu.menu_type: 1 a left-hand menu, 2 a button
    RoleMenu,       \* role_menu rows: <<role, menu>>
    MaxRequests,    \* bound on the requests served
    MaxUsers,       \* bound on the user ids handed out
    MaxRestarts,    \* bound on database restarts
    Failures,       \* whether a statement may fail for a transient reason
    IdReuse         \* whether a restart resets the id counter to max(id) + 1

ASSUME UserRolesAssumption ==
    /\ MenuParent \in [Menus -> Menus \cup {0}]
    /\ MenuType \in [Menus -> {1, 2}]
    /\ RoleMenu \subseteq Roles \X Menus
    /\ MaxRequests \in Nat /\ MaxUsers \in Nat \ {0} /\ MaxRestarts \in Nat
    /\ Failures \in BOOLEAN /\ IdReuse \in BOOLEAN

UserIds == 1..MaxUsers
Tags == 0..MaxRequests

PCs == {"idle", "u_write", "s_delete", "s_insert"}

VARIABLES
    users,      \* users table: id -> [rv, val]
    userRole,   \* user_role table: <<user id, role id>>
    nextId,     \* the users table's next auto-increment id
    pc,         \* goroutine -> its next statement
    uid,        \* goroutine -> the user id it works on
    snap,       \* goroutine -> the user row its Get returned
    rids,       \* goroutine -> the role ids SetUserRoles was given
    buf,        \* goroutine -> role ids its open transaction inserted
    tag,        \* goroutine -> the number of the request it serves
    committed,  \* history: <<uid, rids>> of every committed SetUserRoles
    requests,   \* requests served
    restarts    \* database restarts

vars == <<users, userRole, nextId, pc, uid, snap, rids, buf, tag, committed,
          requests, restarts>>
local == <<uid, snap, rids, buf>>

\* A users row: resource_version and the request that wrote it.
UserRow == [rv : Nat, val : Tags]

TypeOK ==
    /\ DOMAIN users \subseteq UserIds
    /\ users \in [DOMAIN users -> UserRow]
    /\ userRole \subseteq UserIds \X Roles
    /\ nextId \in 1..(MaxUsers + 1)
    /\ pc \in [Procs -> PCs]
    /\ uid \in [Procs -> UserIds]
    /\ snap \in [Procs -> UserRow]
    /\ rids \in [Procs -> SUBSET Roles]
    /\ buf \in [Procs -> SUBSET Roles]
    /\ tag \in [Procs -> Tags]
    /\ committed \subseteq UserIds \X SUBSET Roles
    /\ requests \in 0..MaxRequests
    /\ restarts \in 0..MaxRestarts

Init ==
    /\ users = [i \in {} |-> [rv |-> 0, val |-> 0]]
    /\ userRole = {}
    /\ nextId = 1
    /\ pc = [p \in Procs |-> "idle"]
    /\ uid = [p \in Procs |-> 1]
    /\ snap = [p \in Procs |-> [rv |-> 0, val |-> 0]]
    /\ rids = [p \in Procs |-> {}]
    /\ buf = [p \in Procs |-> {}]
    /\ tag = [p \in Procs |-> 0]
    /\ committed = {}
    /\ requests = 0
    /\ restarts = 0

\* A request arrives at an idle goroutine and gets the next number.
Arrive(p) ==
    /\ pc[p] = "idle"
    /\ requests < MaxRequests
    /\ requests' = requests + 1
    /\ tag' = [tag EXCEPT ![p] = requests + 1]

Return(p) == pc' = [pc EXCEPT ![p] = "idle"]

\* A statement returns an error, the one the database gives when refused is
\* true, or a transient one when Failures allows it; the DAO logs it, rolls
\* back an open transaction and returns it.
Error(p, refused) == (refused \/ Failures) /\ Return(p)


-----------------------------------------------------------------------------
(***************************************************************************)
(* The users table.                                                        *)
(***************************************************************************)

\* The id the users table's auto-increment hands out: the counter, or, after
\* a restart that resets it, max(id) + 1, the least id above every id left
\* (1 for an empty table).
AboveIds == {n \in 1..(MaxUsers + 1) : \A i \in DOMAIN users : i < n}
MaxIdPlusOne == CHOOSE n \in AboveIds : \A m \in AboveIds : n <= m
NewUserIdFromZero == nextId - 1
NewUserId == nextId

\* user.Create: INSERT with the next auto-increment id.
CreateUser(p) ==
    /\ Arrive(p)
    /\ \/ /\ nextId \in UserIds
          /\ users' = [i \in DOMAIN users \cup {NewUserId} |->
                         IF i = NewUserId THEN [rv |-> 0, val |-> requests + 1]
                                          ELSE users[i]]
          /\ nextId' = nextId + 1
       \/ /\ Failures
          /\ UNCHANGED <<users, nextId>>
    /\ UNCHANGED <<userRole, pc, local, committed, restarts>>

\* The caller's user.Get, which returns the resource_version Update needs;
\* ErrRecordNotFound when there is no such user.
UpdateGet(p) ==
    /\ Arrive(p)
    /\ \E u \in UserIds :
        /\ uid' = [uid EXCEPT ![p] = u]
        /\ \/ /\ u \in DOMAIN users
              /\ snap' = [snap EXCEPT ![p] = users[u]]
              /\ pc' = [pc EXCEPT ![p] = "u_write"]
           \/ /\ Error(p, u \notin DOMAIN users)
              /\ UNCHANGED snap
    /\ UNCHANGED <<users, userRole, nextId, rids, buf, committed, restarts>>

\* The WHERE clause of user.Update: id = uid and resource_version = version.
UpdateMatchesAnyVersion(u, version) == u \in DOMAIN users
UpdateMatches(u, version) == u \in DOMAIN users /\ users[u].rv = version

\* updates["resource_version"] = resourceVersion + 1.
UpdatedVersionUnchanged(p) == snap[p].rv
UpdatedVersion(p) == snap[p].rv + 1

\* user.Update(uid, version, updates): sets resource_version = version + 1;
\* no row affected is ErrRecordNotUpdate.
UpdateWrite(p) ==
    /\ pc[p] = "u_write"
    /\ \/ /\ UpdateMatches(uid[p], snap[p].rv)
          /\ users' = [users EXCEPT ![uid[p]] = [rv |-> UpdatedVersion(p), val |-> tag[p]]]
          /\ Return(p)
       \/ /\ Error(p, ~UpdateMatches(uid[p], snap[p].rv))
          /\ UNCHANGED users
    /\ UNCHANGED <<userRole, nextId, local, tag, committed, requests, restarts>>

\* user.Delete: DELETE FROM users WHERE id = uid; its user_role rows stay.
DeleteUser(p) ==
    /\ Arrive(p)
    /\ \E u \in UserIds :
        \/ users' = [i \in DOMAIN users \ {u} |-> users[i]]
        \/ Failures /\ UNCHANGED users
    /\ UNCHANGED <<userRole, nextId, pc, local, committed, restarts>>

-----------------------------------------------------------------------------
(***************************************************************************)
(* The user_role table.                                                    *)
(***************************************************************************)

\* The user_role rows left by DELETE FROM user_role WHERE user_id = u.
KeptAll(u) == userRole
Kept(u) == {x \in userRole : x[1] # u}

\* DeleteRolesByUserID, outside any transaction.
DeleteRolesByUserID(p) ==
    /\ Arrive(p)
    /\ \E u \in UserIds :
        \/ userRole' = Kept(u)
        \/ Failures /\ UNCHANGED userRole
    /\ UNCHANGED <<users, nextId, pc, local, committed, restarts>>

\* SetUserRoles: u.db.Begin() and the check of tx.Error.  The DAO does not
\* check that uid exists; its caller has found the user.
SetBegin(p) ==
    /\ Arrive(p)
    /\ \E u \in DOMAIN users, R \in SUBSET Roles :
        /\ uid' = [uid EXCEPT ![p] = u]
        /\ rids' = [rids EXCEPT ![p] = R]
    /\ buf' = [buf EXCEPT ![p] = {}]
    /\ \/ pc' = [pc EXCEPT ![p] = "s_delete"]
       \/ Error(p, FALSE)
    /\ UNCHANGED <<users, userRole, nextId, snap, committed, restarts>>

\* tx.Where(user_id = uid).Delete(&UserRole{}), buffered in the transaction.
SetDelete(p) ==
    /\ pc[p] = "s_delete"
    /\ \/ pc' = [pc EXCEPT ![p] = "s_insert"]
       \/ Error(p, FALSE)
    /\ UNCHANGED <<users, userRole, nextId, local, tag, committed, requests, restarts>>

\* tx.Create of the UserRole of one more role id of rids.
SetInsert(p) ==
    /\ pc[p] = "s_insert"
    /\ \E r \in rids[p] \ buf[p] :
        \/ /\ buf' = [buf EXCEPT ![p] = @ \cup {r}]
           /\ UNCHANGED pc
        \/ /\ Error(p, FALSE)
           /\ UNCHANGED buf
    /\ UNCHANGED <<users, userRole, nextId, uid, snap, rids, tag, committed,
                   requests, restarts>>

\* tx.Commit(): the buffered DELETE and INSERTs take effect together.
SetCommit(p) ==
    /\ pc[p] = "s_insert"
    /\ buf[p] = rids[p]
    /\ \/ /\ userRole' = Kept(uid[p]) \cup {<<uid[p], r>> : r \in rids[p]}
          /\ committed' = committed \cup {<<uid[p], rids[p]>>}
          /\ Return(p)
       \/ /\ Error(p, FALSE)
          /\ UNCHANGED <<userRole, committed>>
    /\ UNCHANGED <<users, nextId, local, tag, requests, restarts>>

-----------------------------------------------------------------------------
\* The database restarts: open transactions roll back (their goroutines get
\* the error and return); a goroutine between two calls is not affected.
\* With IdReuse the id counter restarts after the largest id left.
Restart ==
    /\ restarts < MaxRestarts
    /\ restarts' = restarts + 1
    /\ pc' = [p \in Procs |-> IF pc[p] \in {"s_delete", "s_insert"} THEN "idle"
                                                                 ELSE pc[p]]
    /\ nextId' = IF IdReuse THEN MaxIdPlusOne ELSE nextId
    /\ UNCHANGED <<users, userRole, local, tag, committed, requests>>

Next ==
    \/ \E p \in Procs :
        \/ CreateUser(p) \/ UpdateGet(p) \/ UpdateWrite(p) \/ DeleteUser(p)
        \/ DeleteRolesByUserID(p)
        \/ SetBegin(p) \/ SetDelete(p) \/ SetInsert(p) \/ SetCommit(p)
    \/ Restart

Spec == Init /\ [][Next]_vars

-----------------------------------------------------------------------------
(***************************************************************************)
(* The menu queries.  Both select from menu LEFT JOIN role_menu LEFT JOIN  *)
(* user_role ON user_role.user_id = role_menu.role_id AND user_role.user_id*)
(* = uid, with a WHERE on menu columns only: a LEFT JOIN keeps every menu  *)
(* row, so the result does not depend on uid.  getTreeMenus only arranges *)
(* the rows into a tree.                                                   *)
(***************************************************************************)
GetButtonsByUserID(u, menuId) ==
    {m \in Menus : MenuType[m] = 2 /\ MenuParent[m] = menuId}

GetLeftMenusByUserID(u) == {m \in Menus : MenuType[m] = 1}

\* The role ids user u has, as GetRoleIDByUser plucks them.
RolesOf(u) == {x[2] : x \in {y \in userRole : y[1] = u}}


\* The menus the roles R grant through role_menu.
MenusOfRoles(R) == {m \in Menus : \E r \in R : <<r, m>> \in RoleMenu}

-----------------------------------------------------------------------------
(***************************************************************************)
(* Properties.                                                             *)
(***************************************************************************)

\* No lost update: when a goroutine's user.Update takes effect, the row it
\* overwrites is still the row its Get returned, so a concurrent Update or a
\* Delete and re-Create in between is never silently overwritten.
NoLostUpdate ==
    [][\A p \in Procs :
         (pc[p] = "u_write" /\ pc'[p] = "idle" /\ users' # users)
             => users[uid[p]] = snap[p]]_vars

\* SetUserRoles replaces a user's roles as a whole: whatever the interleaving
\* of SetUserRoles, DeleteRolesByUserID and failures, a user's role set is
\* empty or exactly the rids of one committed SetUserRoles for that user.
RolesAreOneAssignment ==
    \A u \in UserIds : RolesOf(u) = {} \/ <<u, RolesOf(u)>> \in committed

\* The menus GetLeftMenusByUserID and GetButtonsByUserID return to a user
\* are menus that the user's roles grant.
MenusOfOwnRoles ==
    \A u \in DOMAIN users :
        GetLeftMenusByUserID(u) \cup
            UNION {GetButtonsByUserID(u, m) : m \in Menus \cup {0}}
        \subseteq MenusOfRoles(RolesOf(u))


\* The user DAO implements UserStore, its atomic specification: whatever the
\* interleaving of requests, failures and restarts, the users and user_role
\* tables change only as one atomic Create, Update, Delete, SetUserRoles or
\* DeleteRolesByUserID would change them; in particular SetUserRoles'
\* DELETE and INSERTs show only as one replacement at Commit, and an Update
\* bumps the version of the row as it is when the UPDATE runs.
AbstractStore == INSTANCE UserStore
ImplementsUserStore == AbstractStore!Spec

=============================================================================
