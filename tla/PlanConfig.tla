---------------------------- MODULE PlanConfig ----------------------------
(***************************************************************************)
(* The plan config controller of src/pkg/controller/plan/plan_config.go:  *)
(* CreateConfig (preCreateConfig's existence check, makePlanConfig, the   *)
(* insert) and DeleteConfig, run by concurrent request goroutines over    *)
(* the config table.                                                       *)
(*                                                                         *)
(* The Plan DAO (GetConfigByPlan, CreatConfig, DeleteConfig) and the     *)
(* config model are not in the repository; they are modelled after the   *)
(* repository's DAOs: a lookup by plan_id that returns the first row or   *)
(* ErrRecordNotFound, an insert with the next auto-increment id, and a    *)
(* delete by id.  No unique index on plan_id is assumed, as the plan and  *)
(* node models declare theirs on name only.  A config row is its plan id; *)
(* the Kubernetes, network and runtime documents are left out.            *)
(***************************************************************************)
EXTENDS Naturals, FiniteSets

CONSTANTS
    Procs,          \* request goroutines
    Plans,          \* plan ids
    MaxRequests,    \* bound on the requests served
    LookupFailures, \* whether GetConfigByPlan may fail for a transient reason
    Failures,       \* whether marshalling, the insert or the delete may fail
    Mismatch        \* whether a request body's plan_id may differ from the path's pid

ASSUME PlanConfigAssumption ==
    /\ IsFiniteSet(Procs) /\ Plans # {}
    /\ MaxRequests \in Nat
    /\ LookupFailures \in BOOLEAN /\ Failures \in BOOLEAN /\ Mismatch \in BOOLEAN

CfgIds == 1..MaxRequests

VARIABLES
    configs,    \* config table: id -> plan_id
    nextId,     \* the table's next auto-increment id
    pc,         \* goroutine -> "idle", or "c_make" after preCreateConfig
    pid,        \* goroutine -> the pid of its CreateConfig
    reqPid,     \* goroutine -> req.PlanId of its CreateConfig
    requests    \* requests served

vars == <<configs, nextId, pc, pid, reqPid, requests>>

TypeOK ==
    /\ \E ids \in SUBSET CfgIds : configs \in [ids -> Plans]
    /\ nextId \in 1..(MaxRequests + 1)
    /\ pc \in [Procs -> {"idle", "c_make"}]
    /\ pid \in [Procs -> Plans]
    /\ reqPid \in [Procs -> Plans]
    /\ requests \in 0..MaxRequests

Init ==
    /\ configs = [c \in {} |-> CHOOSE pl \in Plans : TRUE]
    /\ nextId = 1
    /\ pc = [p \in Procs |-> "idle"]
    /\ pid = [p \in Procs |-> CHOOSE pl \in Plans : TRUE]
    /\ reqPid = pid
    /\ requests = 0

Arrive(p) ==
    /\ pc[p] = "idle"
    /\ requests < MaxRequests
    /\ requests' = requests + 1

\* GetConfigByPlan(planId) finds a row: WHERE plan_id = planId ... First.
ConfigExistsNever(pl) == FALSE
ConfigExists(pl) == \E c \in DOMAIN configs : configs[c] = pl

\* CreateConfig's preCreateConfig(pid): GetConfigByPlan's err == nil means
\* the config exists and CreateConfig returns; any error, not found or not,
\* lets it go on.
PreCreateConfig(p) ==
    /\ Arrive(p)
    /\ \E pl, rp \in Plans :
        /\ Mismatch \/ rp = pl
        /\ pid' = [pid EXCEPT ![p] = pl]
        /\ reqPid' = [reqPid EXCEPT ![p] = rp]
        /\ \/ /\ ConfigExists(pl)
              /\ UNCHANGED pc
           \/ /\ ~ConfigExists(pl) \/ LookupFailures
              /\ pc' = [pc EXCEPT ![p] = "c_make"]
    /\ UNCHANGED <<configs, nextId>>

NewConfigIdFromZero == nextId - 1
NewConfigId == nextId

\* makePlanConfig(req), whose config has PlanId req.PlanId, and
\* CreatConfig; a marshal or database error is returned.
CreateConfig(p) ==
    /\ pc[p] = "c_make"
    /\ \/ /\ configs' = [c \in DOMAIN configs \cup {NewConfigId} |->
                           IF c = NewConfigId THEN reqPid[p] ELSE configs[c]]
          /\ nextId' = nextId + 1
       \/ /\ Failures
          /\ UNCHANGED <<configs, nextId>>
    /\ pc' = [pc EXCEPT ![p] = "idle"]
    /\ UNCHANGED <<pid, reqPid, requests>>

\* DeleteConfig(pid, cfgId): the DAO deletes config cfgId; pid only goes to
\* the log.
DeleteConfig(p) ==
    /\ Arrive(p)
    /\ \E c \in CfgIds :
        \/ configs' = [d \in DOMAIN configs \ {c} |-> configs[d]]
        \/ Failures /\ UNCHANGED configs
    /\ UNCHANGED <<nextId, pc, pid, reqPid>>

\* UpdateConfig(pid, cfgId, req): a stub that returns nil.
UpdateConfig(p) ==
    /\ Arrive(p)
    /\ UNCHANGED <<configs, nextId, pc, pid, reqPid>>

\* GetConfigByPlan(planId): the first config of the plan in primary-key
\* order.
GetConfigByPlan(pl) ==
    CHOOSE c \in DOMAIN configs :
        configs[c] = pl /\ \A d \in DOMAIN configs : configs[d] = pl => c <= d

\* modelConfig2Type: the API object carries the row's Id and PlanId.  Its
\* three Unmarshal calls read back documents makePlanConfig marshalled, so
\* they do not fail.
ModelConfig2Type(c) == [id |-> c, planId |-> configs[c]]

\* GetConfig(pid, cfgId): GetConfigByPlan(pid), converted; a lookup error,
\* not found included, is ErrServerInternal.  cfgId only goes to the log.
GetConfig(pl, cfgId) ==
    IF pl \in {configs[c] : c \in DOMAIN configs}
    THEN ModelConfig2Type(GetConfigByPlan(pl))
    ELSE "ErrServerInternal"

Next ==
    \E p \in Procs :
        PreCreateConfig(p) \/ CreateConfig(p) \/ UpdateConfig(p) \/ DeleteConfig(p)

Spec == Init /\ [][Next]_vars

-----------------------------------------------------------------------------
\* A plan has at most one config, so that GetConfig(pid, cfgId), which
\* reads the plan's first config whatever cfgId is, returns config cfgId
\* for every config cfgId of plan pid; CreateConfig's preCreateConfig
\* check is what keeps a second config from being created.
OneConfigPerPlan ==
    \A c \in DOMAIN configs : GetConfig(configs[c], c) = ModelConfig2Type(c)


\* The configs of plan pl.
ConfigsOf(pl) == {c \in DOMAIN configs : configs[c] = pl}

\* Concurrent CreateConfig requests for one plan can each pass
\* preCreateConfig's check before any inserts, but a request that starts
\* after a config of the plan is in the table stops at the check: a plan
\* never has more configs than there are request goroutines.
DuplicatesBoundedByConcurrency ==
    \A pl \in Plans : Cardinality(ConfigsOf(pl)) <= Cardinality(Procs)

=============================================================================
