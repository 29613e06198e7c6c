-------------------------- MODULE PlanConfigProofs --------------------------
(***************************************************************************)
(* Proofs about the plan config controller model PlanConfig, for every    *)
(* value of the constants that satisfies PlanConfigAssumption: the model  *)
(* is well typed, and, when the plan's lookup fails only with not found  *)
(* and a body's plan_id is the path's pid, a plan never has more configs  *)
(* than there are concurrent request goroutines.                          *)
(***************************************************************************)
EXTENDS PlanConfig, FiniteSetTheorems, TLAPS

USE PlanConfigAssumption

\* The goroutines between preCreateConfig and the insert.
MakingOf(f) == {p \in Procs : f[p] = "c_make"}
Making == MakingOf(pc)

\* Every insert was preceded by its own request: the ids handed out and
\* the inserts still pending together number at most the requests served.
IdsCounted == nextId - 1 + Cardinality(Making) <= requests

\* Every config id is below the auto-increment counter.
IdsBelowNext == \A c \in DOMAIN configs : c < nextId

TypeInv == TypeOK /\ IdsCounted /\ IdsBelowNext

-----------------------------------------------------------------------------
(***************************************************************************)
(* Lemmas on the model's operators.                                        *)
(***************************************************************************)

\* The config table as TypeOK states it: a function from some ids to plans.
LEMMA ConfigsTyped ==
    ASSUME NEW S \in SUBSET CfgIds, NEW f \in [S -> Plans]
    PROVE  \E ids \in SUBSET CfgIds : f \in [ids -> Plans]
BY Zenon

LEMMA ConfigsDomain ==
    ASSUME TypeOK
    PROVE  /\ DOMAIN configs \subseteq CfgIds
           /\ configs \in [DOMAIN configs -> Plans]
BY DEF TypeOK

\* Making is a finite set of goroutines.
LEMMA MakingFinite ==
    ASSUME NEW f
    PROVE  IsFiniteSet(MakingOf(f)) /\ Cardinality(MakingOf(f)) \in Nat
<1>1. MakingOf(f) \subseteq Procs
    BY DEF MakingOf
<1>2. IsFiniteSet(MakingOf(f))
    BY <1>1, FS_Subset
<1>3. QED
    BY <1>2, FS_CardinalityType

\* A goroutine's pc changes and no other: Making gains or loses it.
LEMMA MakingExcept ==
    ASSUME NEW p \in Procs, NEW v, pc \in [Procs -> {"idle", "c_make"}],
           pc' = [pc EXCEPT ![p] = v]
    PROVE  Making' = IF v = "c_make" THEN Making \cup {p} ELSE Making \ {p}
<1>1. CASE v = "c_make"
    <2>1. \A x : x \in Making' <=> x \in Making \cup {p}
        BY <1>1 DEF Making, MakingOf
    <2>2. QED
        BY <1>1, <2>1
<1>2. CASE v # "c_make"
    <2>1. \A x : x \in Making' <=> x \in Making \ {p}
        BY <1>2 DEF Making, MakingOf
    <2>2. QED
        BY <1>2, <2>1
<1>3. QED
    BY <1>1, <1>2

-----------------------------------------------------------------------------
(***************************************************************************)
(* Type correctness.  TypeOK alone is not inductive: that the insert's id *)
(* is in CfgIds rests on every insert having a request of its own.        *)
(***************************************************************************)
LEMMA TypeInvInit == Init => TypeInv
<1> SUFFICES ASSUME Init PROVE TypeInv
    OBVIOUS
<1>1. Making = {}
    BY DEF Init, Making, MakingOf
<1>2. configs \in [{} -> Plans]
    BY DEF Init
<1>3. \E ids \in SUBSET CfgIds : configs \in [ids -> Plans]
    <2>1. {} \in SUBSET CfgIds
        OBVIOUS
    <2>2. QED
        BY <1>2, <2>1
<1>9. (CHOOSE pl \in Plans : TRUE) \in Plans
    OBVIOUS
<1>6. pid \in [Procs -> Plans] /\ reqPid \in [Procs -> Plans]
    BY <1>9 DEF Init
<1>7. pc \in [Procs -> {"idle", "c_make"}]
    BY DEF Init
<1>8. nextId \in 1..(MaxRequests + 1) /\ requests \in 0..MaxRequests
    BY DEF Init
<1>5. TypeOK
    BY <1>3, <1>6, <1>7, <1>8 DEF TypeOK
<1>4. QED
    BY <1>1, <1>5, FS_EmptySet DEF Init, TypeInv, IdsCounted, IdsBelowNext

LEMMA TypeInvNext == TypeInv /\ [Next]_vars => TypeInv'
<1> SUFFICES ASSUME TypeInv, [Next]_vars PROVE TypeInv'
    OBVIOUS
<1> USE DEF TypeInv, TypeOK
<1>0. /\ DOMAIN configs \subseteq CfgIds
      /\ configs \in [DOMAIN configs -> Plans]
      /\ Cardinality(Making) \in Nat
    BY ConfigsDomain, MakingFinite DEF Making
<1>1. ASSUME NEW p \in Procs, PreCreateConfig(p) PROVE TypeInv'
    <2>1. p \notin Making /\ requests' = requests + 1 /\ requests < MaxRequests
        BY <1>1 DEF PreCreateConfig, Arrive, Making, MakingOf
    <2>2. PICK pl \in Plans, rp \in Plans :
              /\ pid' = [pid EXCEPT ![p] = pl]
              /\ reqPid' = [reqPid EXCEPT ![p] = rp]
              /\ \/ pc' = pc
                 \/ pc' = [pc EXCEPT ![p] = "c_make"]
        BY <1>1 DEF PreCreateConfig
    <2>3. Cardinality(Making') <= Cardinality(Making) + 1
        <3>1. CASE pc' = pc
            BY <3>1, <1>0 DEF Making, MakingOf
        <3>2. CASE pc' = [pc EXCEPT ![p] = "c_make"]
            <4>1. Making' = Making \cup {p}
                BY <3>2, MakingExcept
            <4>2. Cardinality(Making \cup {p}) = Cardinality(Making) + 1
                BY <2>1, MakingFinite, FS_AddElement DEF Making
            <4>3. QED
                BY <4>1, <4>2, <1>0
        <3>3. QED
            BY <2>2, <3>1, <3>2
    <2>4. pc' \in [Procs -> {"idle", "c_make"}]
        BY <2>2
    <2>5. UNCHANGED <<configs, nextId>>
        BY <1>1 DEF PreCreateConfig
    <2>9. (\E ids \in SUBSET CfgIds : configs \in [ids -> Plans])'
        BY <2>5
    <2>10. pid' \in [Procs -> Plans] /\ reqPid' \in [Procs -> Plans]
        BY <2>2
    <2>11. nextId' \in 1..(MaxRequests + 1) /\ requests' \in 0..MaxRequests
        BY <2>1, <2>5
    <2>6. TypeOK'
        BY <2>4, <2>9, <2>10, <2>11
    <2>7. IdsCounted'
        <3>1. Cardinality(Making') \in Nat
            BY MakingFinite DEF Making
        <3>2. QED
            BY <1>0, <2>1, <2>3, <2>5, <3>1 DEF IdsCounted
    <2>8. QED
        BY <2>5, <2>6, <2>7 DEF IdsBelowNext
<1>2. ASSUME NEW p \in Procs, CreateConfig(p) PROVE TypeInv'
    <2>1. p \in Making /\ pc' = [pc EXCEPT ![p] = "idle"]
          /\ UNCHANGED <<pid, reqPid, requests>>
        BY <1>2 DEF CreateConfig, Making, MakingOf
    <2>2. Making' = Making \ {p} /\ Cardinality(Making') = Cardinality(Making) - 1
        <3>1. Making' = Making \ {p}
            BY <2>1, MakingExcept
        <3>2. Cardinality(Making \ {p}) = Cardinality(Making) - 1
            BY <2>1, MakingFinite, FS_RemoveElement DEF Making
        <3>3. QED
            BY <3>1, <3>2
    <2>3. Cardinality(Making) >= 1
        BY <2>1, MakingFinite, FS_EmptySet DEF Making
    <2>4. NewConfigId \in CfgIds
        BY <2>3, <1>0 DEF IdsCounted, NewConfigId, CfgIds
    <2>5. CASE /\ configs' = [c \in DOMAIN configs \cup {NewConfigId} |->
                                IF c = NewConfigId THEN reqPid[p] ELSE configs[c]]
               /\ nextId' = nextId + 1
        <3>1. configs' \in [DOMAIN configs \cup {NewConfigId} -> Plans]
            BY <2>5, <1>0
        <3>2. \E ids \in SUBSET CfgIds : configs' \in [ids -> Plans]
            BY <3>1, <2>4, <1>0, ConfigsTyped
        <3>3. nextId' \in 1..(MaxRequests + 1)
            BY <2>4, <2>5 DEF NewConfigId, CfgIds
        <3>4. IdsCounted'
            BY <2>1, <2>2, <2>5, <1>0 DEF IdsCounted
        <3>5. IdsBelowNext'
            BY <2>5, <1>0 DEF IdsBelowNext, NewConfigId, CfgIds
        <3>6. QED
            BY <2>1, <3>2, <3>3, <3>4, <3>5
    <2>6. CASE UNCHANGED <<configs, nextId>>
        BY <2>1, <2>2, <2>6, <1>0 DEF IdsCounted, IdsBelowNext
    <2>7. QED
        BY <1>2, <2>5, <2>6 DEF CreateConfig
<1>3. ASSUME NEW p \in Procs, DeleteConfig(p) PROVE TypeInv'
    <2>1. UNCHANGED <<nextId, pc, pid, reqPid>> /\ requests' = requests + 1
          /\ requests < MaxRequests
        BY <1>3 DEF DeleteConfig, Arrive
    <2>2. Making' = Making
        BY <2>1 DEF Making, MakingOf
    <2>3. PICK c \in CfgIds :
              \/ configs' = [d \in DOMAIN configs \ {c} |-> configs[d]]
              \/ UNCHANGED configs
        BY <1>3 DEF DeleteConfig
    <2>4. \E ids \in SUBSET CfgIds : configs' \in [ids -> Plans]
        <3>1. CASE configs' = [d \in DOMAIN configs \ {c} |-> configs[d]]
            <4>1. configs' \in [DOMAIN configs \ {c} -> Plans]
                BY <3>1, <1>0
            <4>2. QED
                BY <4>1, <1>0, ConfigsTyped
        <3>2. QED
            BY <2>3, <3>1
    <2>5. IdsBelowNext'
        BY <2>1, <2>3 DEF IdsBelowNext
    <2>6. QED
        BY <2>1, <2>2, <2>4, <2>5, <1>0 DEF IdsCounted
<1>4. ASSUME NEW p \in Procs, UpdateConfig(p) PROVE TypeInv'
    <2>1. UNCHANGED <<configs, nextId, pc, pid, reqPid>> /\ requests' = requests + 1
          /\ requests < MaxRequests
        BY <1>4 DEF UpdateConfig, Arrive
    <2>2. Making' = Making
        BY <2>1 DEF Making, MakingOf
    <2>3. QED
        BY <2>1, <2>2, <1>0 DEF IdsCounted, IdsBelowNext
<1>5. CASE UNCHANGED vars
    <2>1. Making' = Making
        BY <1>5 DEF vars, Making, MakingOf
    <2>2. QED
        BY <1>5, <2>1 DEF vars, IdsCounted, IdsBelowNext
<1>6. QED
    BY <1>1, <1>2, <1>3, <1>4, <1>5 DEF Next

\* The plan config model is well typed: in particular every config id the
\* insert hands out is one of CfgIds, whatever the number of goroutines.
THEOREM TypeCorrect == Spec => []TypeOK
<1>1. Spec => []TypeInv
    BY TypeInvInit, TypeInvNext, PTL DEF Spec
<1>2. QED
    BY <1>1, PTL DEF TypeInv

-----------------------------------------------------------------------------
(***************************************************************************)
(* Duplicates come only from concurrency.  Each goroutine between         *)
(* preCreateConfig and its insert adds at most one config, of the plan it *)
(* checked; one that checks after a config of the plan is in the table    *)
(* stops.  So the configs of a plan and the goroutines about to insert    *)
(* one together number at most the goroutines.                            *)
(***************************************************************************)

\* The goroutines between preCreateConfig(pl) and their insert.
MakingFor(pl) == {p \in Procs : pc[p] = "c_make" /\ pid[p] = pl}

\* A goroutine about to insert inserts a config of the plan it checked.
MakingMatches == \A p \in Procs : pc[p] = "c_make" => reqPid[p] = pid[p]

InFlightBounded ==
    \A pl \in Plans :
        Cardinality(ConfigsOf(pl)) + Cardinality(MakingFor(pl)) <= Cardinality(Procs)

BoundInv == TypeInv /\ MakingMatches /\ InFlightBounded

\* Any set of goroutines is finite and no larger than Procs.
LEMMA ProcsSubset ==
    ASSUME NEW T \in SUBSET Procs
    PROVE  /\ IsFiniteSet(T) /\ Cardinality(T) \in Nat
           /\ Cardinality(T) <= Cardinality(Procs)
<1>1. IsFiniteSet(T) /\ Cardinality(T) <= Cardinality(Procs)
    BY FS_Subset
<1>2. QED
    BY <1>1, FS_CardinalityType

\* Any set of config ids is finite.
LEMMA IdsSubset ==
    ASSUME NEW T \in SUBSET CfgIds
    PROVE  IsFiniteSet(T) /\ Cardinality(T) \in Nat
<1>1. IsFiniteSet(CfgIds)
    BY FS_Interval DEF CfgIds
<1>2. QED
    BY <1>1, FS_Subset, FS_CardinalityType

\* A subset of S with one more element is at most one larger than S.
LEMMA SubsetPlusOne ==
    ASSUME NEW S, NEW x, NEW T \in SUBSET (S \cup {x}), IsFiniteSet(S)
    PROVE  Cardinality(T) <= Cardinality(S) + 1
<1>1. IsFiniteSet(S \cup {x}) /\ Cardinality(S) \in Nat
    BY FS_AddElement, FS_CardinalityType
<1>2. Cardinality(S \cup {x}) <= Cardinality(S) + 1
    <2>1. CASE x \in S
        BY <1>1, <2>1, FS_AddElement
    <2>2. CASE x \notin S
        BY <1>1, <2>2, FS_AddElement
    <2>3. QED
        BY <2>1, <2>2
<1>3. Cardinality(T) <= Cardinality(S \cup {x}) /\ Cardinality(S \cup {x}) \in Nat
    BY <1>1, FS_Subset, FS_CardinalityType
<1>4. Cardinality(T) \in Nat
    BY <1>1, FS_Subset, FS_CardinalityType
<1>5. QED
    BY <1>1, <1>2, <1>3, <1>4

LEMMA BoundInit == Init => BoundInv
<1> SUFFICES ASSUME Init PROVE BoundInv
    OBVIOUS
<1>1. TypeInv
    BY TypeInvInit
<1>2. \A pl \in Plans : ConfigsOf(pl) = {} /\ MakingFor(pl) = {}
    BY DEF Init, ConfigsOf, MakingFor
<1>3. Cardinality(Procs) \in Nat
    BY FS_CardinalityType
<1>4. \A pl \in Plans : Cardinality(ConfigsOf(pl)) = 0 /\ Cardinality(MakingFor(pl)) = 0
    BY <1>2, FS_EmptySet
<1>5. InFlightBounded
    BY <1>3, <1>4 DEF InFlightBounded
<1>6. MakingMatches
    BY DEF Init, MakingMatches
<1>7. QED
    BY <1>1, <1>5, <1>6 DEF BoundInv

LEMMA BoundNext ==
    ASSUME ~LookupFailures, ~Mismatch
    PROVE  BoundInv /\ [Next]_vars => BoundInv'
<1> SUFFICES ASSUME BoundInv, [Next]_vars PROVE MakingMatches' /\ InFlightBounded'
    BY TypeInvNext DEF BoundInv
<1> USE DEF BoundInv, TypeInv
<1>0. /\ DOMAIN configs \subseteq CfgIds
      /\ configs \in [DOMAIN configs -> Plans]
      /\ pc \in [Procs -> {"idle", "c_make"}]
      /\ pid \in [Procs -> Plans] /\ reqPid \in [Procs -> Plans]
    BY ConfigsDomain DEF TypeOK
<1>1. TypeOK'
    BY TypeInvNext
<1>2. DOMAIN configs' \subseteq CfgIds
    BY <1>1 DEF TypeOK
<1>3. ASSUME NEW pl
      PROVE  /\ IsFiniteSet(ConfigsOf(pl)) /\ Cardinality(ConfigsOf(pl)) \in Nat
             /\ IsFiniteSet(ConfigsOf(pl)') /\ Cardinality(ConfigsOf(pl)') \in Nat
             /\ Cardinality(MakingFor(pl)) \in Nat
             /\ Cardinality(MakingFor(pl)') \in Nat
             /\ Cardinality(MakingFor(pl)') <= Cardinality(Procs)
    <2>1. ConfigsOf(pl) \in SUBSET CfgIds /\ ConfigsOf(pl)' \in SUBSET CfgIds
        BY <1>0, <1>2 DEF ConfigsOf
    <2>2. MakingFor(pl) \in SUBSET Procs /\ MakingFor(pl)' \in SUBSET Procs
        BY DEF MakingFor
    <2>3. QED
        BY <2>1, <2>2, IdsSubset, ProcsSubset
<1>4. Cardinality(Procs) \in Nat
    BY FS_CardinalityType
<1>5. ASSUME NEW p \in Procs, PreCreateConfig(p)
      PROVE  MakingMatches' /\ InFlightBounded'
    <2>1. PICK pl0 \in Plans, rp \in Plans :
              /\ rp = pl0
              /\ pid' = [pid EXCEPT ![p] = pl0]
              /\ reqPid' = [reqPid EXCEPT ![p] = rp]
              /\ \/ pc' = pc
                 \/ pc' = [pc EXCEPT ![p] = "c_make"] /\ ~ConfigExists(pl0)
        BY <1>5 DEF PreCreateConfig
    <2>2. UNCHANGED configs /\ pc[p] = "idle"
        BY <1>5 DEF PreCreateConfig, Arrive
    <2>3. MakingMatches'
        BY <1>0, <2>1, <2>2 DEF MakingMatches
    <2>4. InFlightBounded'
        <3> SUFFICES ASSUME NEW pl \in Plans
                     PROVE  Cardinality(ConfigsOf(pl)') + Cardinality(MakingFor(pl)')
                                <= Cardinality(Procs)
            BY DEF InFlightBounded
        <3>1. ConfigsOf(pl)' = ConfigsOf(pl)
            BY <2>2 DEF ConfigsOf
        <3>2. CASE pc' = pc \/ pl # pl0
            <4>1. MakingFor(pl)' = MakingFor(pl)
                BY <1>0, <2>1, <2>2, <3>2 DEF MakingFor
            <4>2. QED
                BY <3>1, <4>1 DEF InFlightBounded
        <3>3. CASE pc' = [pc EXCEPT ![p] = "c_make"] /\ ~ConfigExists(pl0) /\ pl = pl0
            <4>1. ConfigsOf(pl) = {}
                BY <3>3 DEF ConfigExists, ConfigsOf
            <4>2. Cardinality(ConfigsOf(pl)') = 0
                BY <3>1, <4>1, FS_EmptySet
            <4>3. QED
                BY <4>2, <1>3, <1>4
        <3>4. QED
            BY <2>1, <3>2, <3>3
    <2>5. QED
        BY <2>3, <2>4
<1>6. ASSUME NEW p \in Procs, CreateConfig(p)
      PROVE  MakingMatches' /\ InFlightBounded'
    <2>1. pc[p] = "c_make" /\ pc' = [pc EXCEPT ![p] = "idle"]
          /\ UNCHANGED <<pid, reqPid>>
        BY <1>6 DEF CreateConfig
    <2>2. reqPid[p] = pid[p]
        BY <2>1 DEF MakingMatches
    <2>3. MakingMatches'
        BY <1>0, <2>1 DEF MakingMatches
    <2>4. \/ configs' = [c \in DOMAIN configs \cup {NewConfigId} |->
                           IF c = NewConfigId THEN reqPid[p] ELSE configs[c]]
          \/ configs' = configs
        BY <1>6 DEF CreateConfig
    <2>5. InFlightBounded'
        <3> SUFFICES ASSUME NEW pl \in Plans
                     PROVE  Cardinality(ConfigsOf(pl)') + Cardinality(MakingFor(pl)')
                                <= Cardinality(Procs)
            BY DEF InFlightBounded
        <3>0. /\ Cardinality(ConfigsOf(pl)) + Cardinality(MakingFor(pl)) <= Cardinality(Procs)
              /\ Cardinality(ConfigsOf(pl)) \in Nat /\ Cardinality(ConfigsOf(pl)') \in Nat
              /\ Cardinality(MakingFor(pl)) \in Nat /\ Cardinality(MakingFor(pl)') \in Nat
            BY <1>3 DEF InFlightBounded
        <3>1. MakingFor(pl)' = MakingFor(pl) \ {p}
            BY <1>0, <2>1 DEF MakingFor
        <3>2. ConfigsOf(pl)' \subseteq ConfigsOf(pl) \cup {NewConfigId}
            BY <2>4 DEF ConfigsOf
        <3>3. CASE pl = pid[p]
            <4>1. p \in MakingFor(pl)
                BY <2>1, <3>3 DEF MakingFor
            <4>2. Cardinality(MakingFor(pl)') = Cardinality(MakingFor(pl)) - 1
                <5>1. IsFiniteSet(MakingFor(pl))
                    BY ProcsSubset DEF MakingFor
                <5>2. QED
                    BY <3>1, <4>1, <5>1, FS_RemoveElement
            <4>3. Cardinality(ConfigsOf(pl)') <= Cardinality(ConfigsOf(pl)) + 1
                <5>1. IsFiniteSet(ConfigsOf(pl))
                    BY <1>3
                <5>2. QED
                    BY ONLY <3>2, <5>1, SubsetPlusOne
            <4>4. QED
                BY ONLY <1>4, <3>0, <4>2, <4>3
        <3>4. CASE pl # pid[p]
            <4>1. p \notin MakingFor(pl)
                BY <3>4 DEF MakingFor
            <4>2. MakingFor(pl)' = MakingFor(pl)
                BY <3>1, <4>1
            <4>3. ConfigsOf(pl)' \subseteq ConfigsOf(pl)
                BY <2>2, <2>4, <3>4 DEF ConfigsOf
            <4>4. Cardinality(ConfigsOf(pl)') <= Cardinality(ConfigsOf(pl))
                BY <4>3, <1>3, FS_Subset
            <4>5. QED
                BY ONLY <1>4, <3>0, <4>2, <4>4
        <3>5. QED
            BY <3>3, <3>4
    <2>6. QED
        BY <2>3, <2>5
<1>7. ASSUME NEW p \in Procs, DeleteConfig(p)
      PROVE  MakingMatches' /\ InFlightBounded'
    <2>1. UNCHANGED <<pc, pid, reqPid>>
        BY <1>7 DEF DeleteConfig
    <2>2. PICK c \in CfgIds :
              \/ configs' = [d \in DOMAIN configs \ {c} |-> configs[d]]
              \/ configs' = configs
        BY <1>7 DEF DeleteConfig
    <2>3. ASSUME NEW pl \in Plans
          PROVE  Cardinality(ConfigsOf(pl)') <= Cardinality(ConfigsOf(pl))
        <3>1. ConfigsOf(pl)' \subseteq ConfigsOf(pl)
            BY <2>2 DEF ConfigsOf
        <3>2. QED
            BY <3>1, <1>3, FS_Subset
    <2>4. \A pl \in Plans : MakingFor(pl)' = MakingFor(pl)
        BY <2>1 DEF MakingFor
    <2>5. InFlightBounded'
        <3> SUFFICES ASSUME NEW pl \in Plans
                     PROVE  Cardinality(ConfigsOf(pl)') + Cardinality(MakingFor(pl)')
                                <= Cardinality(Procs)
            BY DEF InFlightBounded
        <3>0. /\ Cardinality(ConfigsOf(pl)) + Cardinality(MakingFor(pl)) <= Cardinality(Procs)
              /\ Cardinality(ConfigsOf(pl)) \in Nat /\ Cardinality(ConfigsOf(pl)') \in Nat
              /\ Cardinality(MakingFor(pl)) \in Nat /\ Cardinality(MakingFor(pl)') \in Nat
            BY <1>3 DEF InFlightBounded
        <3>1. QED
            BY <1>4, <3>0, <2>3, <2>4
    <2>6. QED
        BY <2>1, <2>5 DEF MakingMatches
<1>8. CASE \/ \E p \in Procs : UpdateConfig(p)
           \/ UNCHANGED vars
    <2>1. UNCHANGED <<configs, pc, pid, reqPid>>
        BY <1>8 DEF UpdateConfig, vars
    <2>2. QED
        BY <2>1 DEF MakingMatches, InFlightBounded, ConfigsOf, MakingFor
<1>9. QED
    BY <1>5, <1>6, <1>7, <1>8 DEF Next

\* CreateConfig's check-then-insert is not atomic, so concurrent requests
\* can give a plan a second config; but when GetConfigByPlan fails only
\* with not found and a request body's plan_id is the path's pid, each
\* request adds at most one config, and only while no config of the plan
\* is in the table: a plan never has more configs than there are request
\* goroutines, for any finite number of them.
THEOREM ConfigsBounded ==
    ASSUME ~LookupFailures, ~Mismatch
    PROVE  Spec => []DuplicatesBoundedByConcurrency
<1>1. BoundInv => DuplicatesBoundedByConcurrency
    <2> SUFFICES ASSUME BoundInv, NEW pl \in Plans
                 PROVE  Cardinality(ConfigsOf(pl)) <= Cardinality(Procs)
        BY DEF DuplicatesBoundedByConcurrency
    <2>1. ConfigsOf(pl) \in SUBSET CfgIds /\ MakingFor(pl) \in SUBSET Procs
        BY ConfigsDomain DEF BoundInv, TypeInv, ConfigsOf, MakingFor
    <2>2. /\ Cardinality(ConfigsOf(pl)) \in Nat
          /\ Cardinality(MakingFor(pl)) \in Nat
          /\ Cardinality(Procs) \in Nat
        BY <2>1, IdsSubset, ProcsSubset, FS_CardinalityType
    <2>3. Cardinality(ConfigsOf(pl)) + Cardinality(MakingFor(pl)) <= Cardinality(Procs)
        BY DEF BoundInv, InFlightBounded
    <2>4. QED
        BY ONLY <2>2, <2>3
<1>2. QED
    BY <1>1, BoundInit, BoundNext, PTL DEF Spec

=============================================================================
