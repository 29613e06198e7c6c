# Formal models of pixiu

TLA+ models of the parts of this repository whose behaviour depends on the
order of steps, on failures part-way through an operation, or on concurrent
requests. Each model has TLC configurations that check it on small instances,
and some of its properties have TLAPS proofs that hold for every value of the
constants.

## The system and its parts

| Part | Source | What it does | Model |
|---|---|---|---|
| resourcesstore getter | `src/api/server/router/user/menu.go` (package `resourcesstore`, lines 37-256) | `NewResourceGetter` builds clients, discovers every GroupVersionResource the API server serves (`GetGVRs`), indexes them by lower-cased Kind, builds an informer per GVR, and answers `ParseKind(kind)` | `ResourceStore`, `ResourceStoreProofs` |
| menu router | same file, lines 1-21 | registers five gin routes | not modelled: route table only |
| kubeConfigs service | `src/unnamed/part_000` (package `core`) | issues per-cloud credentials: a ServiceAccount and a ClusterRoleBinding in kube-system, a TokenRequest token, and an encrypted kubeconfig row in the database; Create, Update, Delete, Get, List | `KubeConfigs`, `KubeConfigsProofs` |
| tenant DAO | `src/pkg/db/model/plan.go` (package `tenant`, lines 67-149) | gorm DAO; Update is optimistic (`WHERE id = ? AND resource_version = ?`); Delete is a Get then a DELETE | `Tenant`, abstract `TenantStore`; the KubeConfig DAO inside `KubeConfigs` follows it |
| user DAO | `src/pkg/db/model/plan.go` (package `user`, lines 179-360) | users with the same optimistic Update; `SetUserRoles` replaces a user's roles in a transaction; menu and button queries | `UserRoles`, abstract `UserStore`, `UserRolesProofs` |
| plan config controller | `src/pkg/controller/plan/plan_config.go` | check-then-create of a plan's config; delete and get | `PlanConfig`, `PlanConfigProofs` |
| audit service | `src/pkg/core/audit.go` | pass-through to the DAO | not modelled: no control of its own |
| DAO factory | `src/unnamed/part_001` | picks mysql or sqlite | not modelled: one-shot constructor (its ignored error is listed as a hazard) |
| cloud routes | `src/api/server/router/cloud/cloud_routes.go` | gin handlers over the core | not modelled: they bind requests and call the core |
| options | `src/cmd/app/options/options.go` | constants | not modelled |

How the parts interact: HTTP handlers (the routers) call the core services
(`kubeConfigs`, audit, plan). The services call the Kubernetes API server
through client-go and the database through the DAO factory's DAOs. The
resourcesstore getter is built once per cluster and answers kind lookups.
Every HTTP request runs on its own goroutine. Nothing in the services
serialises requests, so two requests on the same cloud and account
interleave at every API or database call.

## Modules

### ResourceStore (the resourcesstore getter)

State (`VARIABLES`) against the code:

- `phase` is the point reached in `NewResourceGetter` (lines 86-102). It is
  `"exited"` after a `klog.Fatalf` in `NewConfig`, `NewClientSet` or
  `NewDiscoveryClient`.
- `served` is what the API server serves: group/version -> resource stems.
  It changes under the environment action `ServerChange`, bounded by
  `MaxServerChanges`.
- `gvrs` and `gvktogvrSet` are `rg.gvrs` and `rg.gvktogvrSet`.
- `informers` is the set of GVRs in `rg.informers`.
- `lists` is the lists `ServerPreferredResources` returned.
- `discoveryErr` is its error.

A resource name is abstracted to a record `[stem, plural, upper]`.
`strings.ToLower` clears `upper`. `inflection.Singular` clears `plural`
without lower-casing. The index key of a kind is `ToLower(Kind)`, which is
the lower-case singular. This is the only part of string handling that
`ParseKind` depends on.

`GetGVRs` is one action, because `NewResourceGetter` runs it in one piece
(see below). On an error it returns before assigning anything. Otherwise it
does the following:

- it skips empty lists and unparsable group/versions (`Used`);
- it appends a GVR per resource;
- it stores each one under its key, where the last list in the server's order
  wins. The order is the server's, so the winning list `win` is chosen
  nondeterministically among the lists serving the kind.

`NewInformersForResource` keeps the GVRs that `ForResource` accepts, which is
the constant `Supported` (the typed factory knows built-in types, not CRDs).
`NewConfig` is called by the caller before `NewResourceGetter`. It is the
model's first step.

Fairness: `WF_vars(Construct)`. `NewResourceGetter` is straight-line code on
the caller's goroutine with no waits, so once started it runs to the end or to
`Fatalf`. The environment (`ServerChange`) has no fairness.

### KubeConfigs (credential issuance)

State against the code:

- `sa` maps each name to the generation of the ServiceAccount with that name,
  or 0 when there is none.
- `lastGen` is the last generation the API server gave each name. A
  re-created account gets a new UID, and a TokenRequest token is bound to the
  UID.
- `crb` is the set of ClusterRoleBindings.
- `rows` is the `kube_config` table: id -> `[sa, gen, rv]`, where `gen` is
  the account generation the stored token was issued for and `rv` is
  `resource_version`.
- `nextId` is the table's auto-increment.
- Each request goroutine `p` has `pc[p]`, the next call it makes. Its locals
  are `name` (the account), `kid`, `snap` (the `obj.ResourceVersion` it read)
  and `tok` (the generation of the token it minted).

Each API-server or database call is one action, because another request's
calls can come between any two of them:

- Create is `CreateSA`, `CreateCRB`, `CreateToken` (newCA, createToken,
  marshal, encrypt) and `CreateRow`.
- Update is `UpdateGet`, `UpdateToken` and `UpdateRow`.
- Delete is `DeleteGet`, `DeleteCRB`, `DeleteSA` and `DeleteRow`.

Every call has the code's single `if err != nil { return }` branch
(`Error`). It is taken on the error the server or database gives (for
example AlreadyExists, NotFound, or no row). When the constant `Failures`
allows it, it is also taken on a transient error. Nothing made before the
error is undone.

The KubeConfig DAO is not in this repository. It is modelled after the
repository's DAOs (`tenant.Update` and `tenant.Delete` in `plan.go`):
`DaoUpdate` is the optimistic update, and a delete by id removes the row.
`Init` lets kube-system already hold accounts and bindings that pixiu did
not create. `Get` and `List` only read and are not actions. No fairness is
assumed: requests arrive when clients send them.

### UserRoles (the user DAO)

State against the code:

- `users` is the users table: id -> `[rv, val]`. `rv` is `resource_version`
  and `val` is the number of the request that last wrote the row.
- `userRole` is the user_role table, as pairs `<<user id, role id>>`.
- `nextId` is the auto-increment counter.
- Each goroutine `p` has `pc[p]`, `uid[p]`, `snap[p]` (the row its Get
  returned), `rids[p]` and `buf[p]` (the role ids given to SetUserRoles and
  those its open transaction has inserted).
- `committed` is a history variable: every `<<uid, rids>>` a SetUserRoles
  committed. It only serves `RolesAreOneAssignment`.

Actions:

- `CreateUser` is `user.Create`.
- `UpdateGet` then `UpdateWrite` are a caller's Get followed by `user.Update`
  with the version it read. `UpdateMatches` is the UPDATE's WHERE clause.
- `DeleteUser` is `user.Delete`. It keeps the user_role rows.
- `DeleteRolesByUserID` is `user.DeleteRolesByUserID`.
- `SetBegin`, `SetDelete`, `SetInsert` and `SetCommit` are SetUserRoles:
  Begin, the DELETE, one INSERT per role id, and Commit. Every statement may
  fail, which rolls back. The DELETE and the INSERTs are buffered until
  `SetCommit`, which applies them at once. That is the isolation MySQL's
  REPEATABLE READ (next-key locks) and SQLite's single writer give. A weaker
  isolation level is not explored.
- `Restart` is the environment: a database restart rolls back open
  transactions. With the constant `IdReuse` it also resets the id counter
  to max(id) + 1. InnoDB did this before MySQL 8.0, and SQLite does it
  without AUTOINCREMENT.

`GetButtonsByUserID` and `GetLeftMenusByUserID` are operators that compute
the rows the queries return. Their WHERE tests only menu columns, and a LEFT
JOIN keeps every menu row, so `uid` does not matter. `getTreeMenus` is not in
the repository; it only arranges rows into a tree. The roles a caller passes
are a set: duplicate role ids are not modelled.

### UserStore, and the refinement

`UserStore` is what the user DAO promises as an atomic store: Create under
a fresh id, Update that bumps the version of an existing row, Delete,
SetUserRoles that replaces one user's role rows as a whole, and
DeleteRolesByUserID. `UserRoles` instantiates it with the identity mapping
on `users` and `userRole` (`AbstractStore == INSTANCE UserStore`), and
`ImplementsUserStore == AbstractStore!Spec` is a property of
`userroles_pass`. Every step of the detailed model must be an abstract step
or leave both tables alone. SetUserRoles' Begin, DELETE and INSERTs stutter;
its Commit is the abstract SetUserRoles. An Update's write is the abstract
Update only because the WHERE clause makes the written version the row's
version plus one. With `UpdatedVersion` writing the version unchanged, TLC
finds the refinement broken.

### Tenant and TenantStore (the tenant DAO)

`tenants` is the table (id -> `[name, rv, val]`), `nextId` its counter.
Each goroutine has `pc`, `tid`, `obj` (the object Delete's Get returned) and
`ret` (what its last Delete returned: a row, `NoTenant` for `(nil, nil)`, or
`DeleteError`).

- `Create` is `tenant.Create`. A taken name is an error. The
  `model.Tenant` declaration is not in the repository, and the name is
  taken to be unique, as `Plan` and `Node` declare theirs.
- `Update` is the optimistic `tenant.Update`, with any version a caller
  may hold.
- `DeleteGet` and `DeleteExec` are `tenant.Delete`'s two statements: `Get`,
  then `DELETE WHERE id`, which returns the object of the Get. There is no
  transaction, and RowsAffected is not checked.
- `Get`, `List` and `GetTenantByName` only read and are operators.

`TenantStore` is the atomic DAO: a Delete removes the row and returns it,
or returns `NoTenant` when there is none, or fails and changes nothing.
`ImplementsTenantStore` is violated (`tenant_delete`): a Delete returns a
row that a concurrent Update already replaced, or that a concurrent Delete
already removed.

### PlanConfig (the plan config controller)

`configs` is the config table (id -> plan id). `nextId` is its counter. Each
goroutine has `pc`, `pid` and `reqPid` (the path's pid and the body's
`req.PlanId`).

Actions:

- `PreCreateConfig` is `preCreateConfig`. Only a successful
  `GetConfigByPlan` stops the request. Every error lets it go on, a transient
  one (constant `LookupFailures`) included.
- `CreateConfig` is `makePlanConfig` plus the insert, with the row's plan
  `req.PlanId`.
- `DeleteConfig` deletes by `cfgId`.
- `UpdateConfig` is a stub that returns nil.
- `GetConfig(pid, cfgId)` is an operator: the plan's first config by id,
  whatever `cfgId` is, converted by `modelConfig2Type` (`ModelConfig2Type`
  keeps the row's id and plan id; its Unmarshal calls read back what
  `makePlanConfig` marshalled). A failed lookup, not found included, is
  `ErrServerInternal`. `OneConfigPerPlan` says that it returns config
  `cfgId` for every config of the table, which holds exactly when no plan
  has two. `DuplicatesBoundedByConcurrency` says that no plan has more
  configs than there are request goroutines.

The Plan DAO and `model.Config` are not in the repository. They are modelled
after the repository's DAOs, without a unique index on plan_id. The constant
`Mismatch` says whether a body may name another plan than the path.

## Runs

| Run | Checks | Result, and what it shows |
|---|---|---|
| `store_pass` | `TypeOK`, `IndexConsistent`, `ResolvesLowerAndSingularSpellings` | pass. Every construction path, with `event` served by two groups, a CRD, and up to two server changes, leaves an index that points only at discovered GVRs of its key's kind and covers every discovered kind. Informers are exactly the discovered built-in GVRs. "pod", "Pod" and "pods" resolve. |
| `store_spellings` | `ResolvesAllSpellings` | violation. "Pods" is unknown: `inflection.Singular` is applied to the name as given, and the key is lower case (menu.go:248). |
| `store_partial` | `PartialDiscoveryTolerated` | violation. One failing group makes `GetGVRs` drop every list, and nothing resolves (menu.go:174). |
| `store_unwatched` | `EveryTypeWatched` | violation. A CRD is indexed but has no informer (menu.go:158). |
| `store_refresh` | `NewTypesEventuallyResolvable` | violation. A kind served after construction, or lost to a failed discovery, never resolves. There is no rediscovery, and `rg.period` is unused. |
| `kubeconfig_race` | `TypeOK`, `DeleteForgetsOnlyRevoked` | pass. With three concurrent goroutines and failures, Delete removes a row only after the row's credential stopped working (binding, then account, then row). |
| `kubeconfig_concurrent` | `WorkingCredentialUnique` | violation, with no failure at all. Two Deletes of one row both pass their Get. The second deletes the account a concurrent Create just made, and a third Create re-makes it. The first Create then gets a token for that new account by name, so two rows grant one account (part_000:104, 205). |
| `userroles_pass` | `TypeOK`, `RolesAreOneAssignment`, `NoLostUpdate`, `ImplementsUserStore` | pass. Two goroutines, failures and a restart without id reuse. No Update overwrites a row changed since its Get. A user's roles are always exactly the rids of one committed SetUserRoles. The tables change only as `UserStore` would change them. |
| `tenant_delete` | `ImplementsTenantStore` | violation, with no failure. Delete's Get reads version 0, an Update makes it version 1, and Delete removes the row and returns version 0 (plan.go:111-115). |
| `userroles_menus` | `MenusOfOwnRoles` | violation. A user with no role gets every menu and button (plan.go:321, 341). |
| `planconfig_pass` | `TypeOK`, `DuplicatesBoundedByConcurrency` | pass. Two concurrent goroutines, with marshal and database failures and deletes. The body names the path's plan, and the lookup fails only with not found. A plan does get two configs through the race, but never more than there are goroutines: a request that checks after a config is in the table stops. |
| `planconfig_race` | `OneConfigPerPlan` | violation. Two concurrent CreateConfig both pass the check (plan_config.go:41). |

Mutants in `PROJECT.json` show that each property of a passing run catches a
plausible change to the code:
- an index entry whose Resource is the Kind;
- an unchecked `ForResource` error;
- a key that is not lower-cased;
- ids counted from 0;
- Update passing the version it read;
- an UPDATE without its version test;
- a role replacement that keeps the old rows;
- an Update that writes the version it read (breaks `ImplementsUserStore`);
- a CreateConfig without its existence check.

Line 182 of part_000 passes `obj.ResourceVersion+1` to the optimistic
update, which never matches, so every KubeConfig Update mints a token and
fails. A single call shows it, so no run is spent on it; it is a hazard in
`PROJECT.json`. "Update passing the version it read" is the fix for line 182. It breaks
`DeleteForgetsOnlyRevoked`, because a stale row whose Delete failed can then
be given a token of a re-created account. So correcting line 182 alone would
turn a harmless dead Update into a credential leak.

The passing runs fix some constants at the value under which the code is
correct. `IdReuse`, `LookupFailures` and `Mismatch` are FALSE there. Each of
them set to TRUE breaks a property, as the hazards in `PROJECT.json` record:
- a re-used user id inherits roles and lets a stale Update through;
- a failed lookup, or a body naming another plan, gives a plan a second
  config.

Bounds:
- `ResourceStore`: three group/versions (core, events, a CRD group) and three
  stems. `event` is served by two groups, which makes a kind collision, and
  the CRD makes `ForResource` fail. This covers:
  - success, partial failure and Fatalf exits;
  - collisions;
  - unsupported types;
  - one or two server changes before, during and after construction.
- `KubeConfigs`: one or two account names, up to 7 requests, one goroutine
  (sequential use) or three (races). The concurrency violations need two
  goroutines. Three make every error branch reachable: a binding that exists
  without its account, and an account deleted under a Delete.
- `UserRoles`: two goroutines, two user ids, two roles, up to 5 requests
  and one restart. Two goroutines are what an Update racing an Update or a
  Delete, and two SetUserRoles interleaving, need; the proofs cover every
  number of goroutines, ids and roles.
- `Tenant`: two goroutines, one id and up to 4 requests: a Delete with one
  Update or one other Delete between its two statements.
- `PlanConfig`: two goroutines and two plans in both runs, up to 6 requests
  in the passing run: enough for both goroutines to pass the check for one
  plan, and for a third request to come after the inserts (or after a
  delete). A plan reaches two configs; with the existence check dropped it
  reaches three.

## Proofs

`ResourceStoreProofs` (TLAPS, all obligations checked). Its assumption is
`ConstantsAssumption`: `InitialServed` is a function into sets of stems,
`Malformed` and `Supported` are subsets of the group/versions and GVRs,
`UnknownKind` is not a GVR, and `MaxServerChanges` is a natural number.
- `TypeCorrect`: `Spec => []TypeOK`. It rests on `TypeInit` and `TypeNext`.
- `IndexAlwaysConsistent`: `Spec => []IndexConsistent`.
  `IndexConsistent` is not inductive alone, because `GetGVRs` needs typed
  inputs. The inductive invariant is `IInv == TypeOK /\ IndexConsistent`.
  `IndexConsistent` also says that no informer exists before
  `NewInformersForResource`; without that clause, `NewInformersForResource`'s
  result could not be tied to the current `gvrs`. The GetGVRs step is argued
  per key: the key of a kind is `Key(s)`, its entry is `[win[s], s]`, and
  `win[s]` is a used list that serves `s`, so the entry is in the new `gvrs`.
  Conversely, every new GVR's stem is a kind of a used list.
- `SpellingsResolve`: `Spec => []ResolvesLowerAndSingularSpellings`, from
  `IInv`. Every key is the lower-case singular of its stem, so for a singular
  spelling `ToLower` hits. For the lower-case plural `ToLower` misses (no key
  is plural) and `Singular` hits.

`UserRolesProofs` (TLAPS, all obligations checked). Its assumption is
`UserRolesAssumption`: the menu tables are typed, the bounds are natural
numbers and `MaxUsers` is at least 1.
- `TypeCorrect`: `Spec => []TypeOK`, from `TypeInit` and `TypeNext`. The
  restart step needs `MaxIdPlusOneAbove`: the least id above every id in
  the table exists, proved from the well-foundedness of `<` on the naturals
  (`WFMin` of `WellFoundedInduction`).
- `OneAssignment`: `Spec => []RolesAreOneAssignment`. The invariant is
  inductive given `TypeOK`. Only `SetCommit` and `DeleteRolesByUserID`
  change user_role, and each changes the rows of one user only
  (`RolesOfKept`), to a committed set or to none.
- `Refinement`: `Spec => ImplementsUserStore`. The invariant is
  `Inv == TypeOK /\ IdsBelowNext`: every id in the table is below the
  counter, also after a restart that resets it, so `CreateUser` inserts
  under a fresh id. `RefineNext` shows that each step is an abstract step
  or leaves both tables alone.
- `NoLostUpdateHolds`: `~IdReuse => (Spec => NoLostUpdate)`, the action
  property, for a users id counter that is never reset (InnoDB since MySQL
  8.0, the case run `userroles_pass` checks). The invariant is
  `UpdateInv == TypeOK /\ IdsBelowNext /\ SnapCurrent`. `SnapCurrent` says
  that a goroutine between its Get and its Update holds an id below the
  counter, and that the row under that id is its snapshot or has a larger
  `resource_version`. It is needed because the property looks only at the
  Update step, while what makes the step safe was settled earlier. No Create
  can reuse the id, and every other Update bumped the version. The matching
  `WHERE resource_version = version` then implies the row is the snapshot
  (`NoLostUpdateStep`). With `IdReuse` TRUE, TLC finds `SnapCurrent`
  violated, so the hypothesis is needed.

`PlanConfigProofs` (TLAPS, all obligations checked). Its assumption is
`PlanConfigAssumption`: `Procs` is finite, `Plans` is not empty (`Init`
takes a default pid from it), `MaxRequests` is a natural number, and the
switches are Booleans.
- `TypeCorrect`: `Spec => []TypeOK` for any finite number of goroutines.
  `TypeOK` is not inductive. That an insert's id is in `CfgIds` rests on
  `IdsCounted`: the ids handed out, plus the goroutines between
  `preCreateConfig` and the insert, number at most the requests served.
  `IdsCounted` is counted with `Cardinality` and the `FS_AddElement` and
  `FS_RemoveElement` facts of `FiniteSetTheorems`.
- `ConfigsBounded`: `Spec => []DuplicatesBoundedByConcurrency` for any
  finite number of concurrent goroutines. Its hypotheses are a lookup that
  fails only with not found (`~LookupFailures`) and a body whose plan_id is
  the path's pid (`~Mismatch`); with either dropped, sequential requests
  give a plan any number of configs. The race of run `planconfig_race` is
  inside the theorem. The inductive invariant `BoundInv` adds
  `MakingMatches` (a goroutine about to insert inserts the plan it checked)
  and `InFlightBounded`: a plan's configs plus the goroutines about to
  insert one of it number at most `Cardinality(Procs)`. A check that lets
  a goroutine through sees no config of the plan, so the sum is then the
  number of such goroutines. An insert adds one config and removes one
  goroutine. TLC checked `BoundInv` with three goroutines before the proof.

Left to TLC:
- liveness (`NewTypesEventuallyResolvable`) and anything using ENABLED;
- the properties of the violation runs (`WorkingCredentialUnique`,
  `ImplementsTenantStore`, `MenusOfOwnRoles`, and `OneConfigPerPlan` with
  two goroutines), which do not hold;
- what a recursive definition computes for every input, which is beyond the
  installed provers.

The inductive invariants `UpdateInv`, `BoundInv` and `RevokeInv` were each
checked with TLC as invariants on the instances of their runs before they
were proved.

## Not modelled, and planned

- `SetUserRoles`' deferred recover evaluates `err.(error)` on a nil result
  and panics again before its rollback. The models' failures are returned
  errors, not panics.
- An abstract credential service that `KubeConfigs` refines. Planned.
- The audit service's List passes a page and a limit to a DAO that is not
  in the repository. Offset paging racing Delete can skip an audit, which a
  model of the DAO's paging would show; planned.
- The informer caches themselves (list/watch, the Store). Their code is
  client-go, outside this repository.
- HTTP binding, YAML and encryption. These are pure data conversions that no
  property depends on.
