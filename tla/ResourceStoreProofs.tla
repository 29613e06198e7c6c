------------------------- MODULE ResourceStoreProofs -------------------------
(***************************************************************************)
(* Proofs, for every value of the constants, of the invariants the runs   *)
(* of MC_ResourceStore check on one small cluster: the type invariant, the*)
(* consistency of the kind index with the discovered GVRs and informers,  *)
(* and that ParseKind resolves the lower-case and singular spellings of   *)
(* every discovered kind.                                                  *)
(***************************************************************************)
EXTENDS ResourceStore, TLAPS

\* The record a discovered resource's lower-cased Kind becomes.
LEMMA KeyFacts ==
    ASSUME NEW s \in Stems
    PROVE  /\ Key(s) \in Names
           /\ Key(s).stem = s
           /\ Key(s) = [stem |-> s, plural |-> FALSE, upper |-> FALSE]
BY DEF Key, KindOf, ToLower, Names

-----------------------------------------------------------------------------
(***************************************************************************)
(* Type correctness.                                                       *)
(***************************************************************************)
LEMMA TypeInit == Init => TypeOK
<1> USE ConstantsAssumption DEF ConstantsAssumption
<1> SUFFICES ASSUME Init PROVE TypeOK
  OBVIOUS
<1>1. \E keys \in SUBSET Names : gvktogvrSet \in [keys -> GVR]
  <2>1. gvktogvrSet \in [{} -> GVR]
    BY DEF Init
  <2>. QED BY <2>1
<1>2. \E returned \in SUBSET GroupVersions : lists \in [returned -> SUBSET Stems]
  <2>1. lists \in [{} -> SUBSET Stems]
    BY DEF Init
  <2>. QED BY <2>1
<1>3. phase \in Phases
  BY DEF Init, Phases
<1>4. served \in [GroupVersions -> SUBSET Stems]
  BY DEF Init
<1>5. gvrs \subseteq GVR /\ informers \subseteq GVR
  BY DEF Init
<1>6. discoveryErr \in BOOLEAN
  BY DEF Init
<1>7. serverChanges \in 0..MaxServerChanges
  BY DEF Init
<1>. QED BY <1>1, <1>2, <1>3, <1>4, <1>5, <1>6, <1>7 DEF TypeOK

LEMMA TypeNext == TypeOK /\ [Next]_vars => TypeOK'
<1> USE ConstantsAssumption DEF ConstantsAssumption
<1> SUFFICES ASSUME TypeOK, [Next]_vars PROVE TypeOK'
  OBVIOUS
<1>1. CASE NewConfig \/ NewClientSet \/ NewDiscoveryClient
           \/ NewSharedInformerFactory \/ NewStore
  BY <1>1 DEF TypeOK, Phases, NewConfig, NewClientSet, NewDiscoveryClient,
              NewSharedInformerFactory, NewStore
<1>2. CASE GetGVRs
  <2>1. PICK returned \in SUBSET GroupVersions :
           LET L == [g \in returned |-> served[g]] IN
           /\ lists' = L
           /\ \/ /\ returned # GroupVersions
                 /\ discoveryErr' = TRUE
                 /\ UNCHANGED <<gvrs, gvktogvrSet>>
              \/ /\ returned = GroupVersions
                 /\ discoveryErr' = FALSE
                 /\ \E win \in [KindsIn(L) -> Used(L)] :
                      /\ \A s \in KindsIn(L) : s \in L[win[s]]
                      /\ gvrs' = UNION {{[gv |-> g, stem |-> s] : s \in L[g]} : g \in Used(L)}
                      /\ gvktogvrSet' = [k \in {Key(s) : s \in KindsIn(L)} |->
                                           IndexEntry(win[k.stem], k.stem)]
    BY <1>2 DEF GetGVRs
  <2> DEFINE L == [g \in returned |-> served[g]]
  <2>2. L \in [returned -> SUBSET Stems]
    BY DEF TypeOK
  <2>3. lists' \in [returned -> SUBSET Stems]
    BY <2>1, <2>2
  <2>4. Used(L) \subseteq returned /\ KindsIn(L) \subseteq Stems
    BY <2>2 DEF Used, KindsIn
  <2>5. CASE returned # GroupVersions
    BY <2>1, <2>3, <2>5, <1>2 DEF GetGVRs, TypeOK, Phases
  <2>6. CASE returned = GroupVersions
    <3>1. PICK win \in [KindsIn(L) -> Used(L)] :
             /\ gvrs' = UNION {{[gv |-> g, stem |-> s] : s \in L[g]} : g \in Used(L)}
             /\ gvktogvrSet' = [k \in {Key(s) : s \in KindsIn(L)} |->
                                  IndexEntry(win[k.stem], k.stem)]
      BY <2>1, <2>6
    <3>2. gvrs' \subseteq GVR
      BY <3>1, <2>2, <2>4 DEF GVR, Used
    <3>3. {Key(s) : s \in KindsIn(L)} \subseteq Names
      BY <2>4, KeyFacts
    <3>4. \A k \in {Key(s) : s \in KindsIn(L)} :
             IndexEntry(win[k.stem], k.stem) \in GVR
      <4> TAKE k \in {Key(s) : s \in KindsIn(L)}
      <4>1. PICK s \in KindsIn(L) : k = Key(s)
        OBVIOUS
      <4>2. k.stem = s /\ s \in Stems
        BY <4>1, <2>4, KeyFacts
      <4>3. win[s] \in GroupVersions
        BY <4>1, <2>4
      <4>. QED BY <4>2, <4>3 DEF IndexEntry, GVR
    <3>5. gvktogvrSet' \in [{Key(s) : s \in KindsIn(L)} -> GVR]
      BY <3>1, <3>4
    <3>6. \E keys \in SUBSET Names : gvktogvrSet' \in [keys -> GVR]
      BY <3>3, <3>5
    <3>. QED BY <3>2, <3>6, <2>1, <2>3, <2>6, <1>2 DEF GetGVRs, TypeOK, Phases
  <2>. QED BY <2>5, <2>6
<1>3. CASE NewInformersForResource
  BY <1>3 DEF TypeOK, Phases, NewInformersForResource
<1>4. CASE ServerChange
  <2>1. PICK g \in GroupVersions, s \in Stems :
           \/ served' = [served EXCEPT ![g] = @ \cup {s}]
           \/ served' = [served EXCEPT ![g] = @ \ {s}]
    BY <1>4 DEF ServerChange
  <2>2. served' \in [GroupVersions -> SUBSET Stems]
    BY <2>1 DEF TypeOK
  <2>. QED BY <2>2, <1>4 DEF TypeOK, ServerChange
<1>5. CASE UNCHANGED vars
  BY <1>5 DEF TypeOK, vars
<1>. QED BY <1>1, <1>2, <1>3, <1>4, <1>5 DEF Next, Construct
THEOREM TypeCorrect == Spec => []TypeOK
BY TypeInit, TypeNext, PTL DEF Spec

-----------------------------------------------------------------------------
(***************************************************************************)
(* The index is consistent.  IndexConsistent is inductive together with   *)
(* the type invariant: GetGVRs replaces rg.gvrs and rg.gvktogvrSet        *)
(* together, from one snapshot of the lists, and only while no informer   *)
(* exists yet; NewInformersForResource then reads that final rg.gvrs.     *)
(***************************************************************************)
IInv == TypeOK /\ IndexConsistent

LEMMA KeyInjective ==
    ASSUME NEW s \in Stems, NEW t \in Stems, Key(s) = Key(t)
    PROVE  s = t
BY KeyFacts

LEMMA InitIInv == Init => IInv
<1> SUFFICES ASSUME Init PROVE IInv
  OBVIOUS
<1>1. TypeOK
  BY TypeInit
<1>2. IndexConsistent
  BY DEF Init, IndexConsistent
<1>. QED BY <1>1, <1>2 DEF IInv

LEMMA NextIInv == IInv /\ [Next]_vars => IInv'
<1> SUFFICES ASSUME IInv, [Next]_vars PROVE IInv'
  OBVIOUS
<1>1. TypeOK'
  BY TypeNext DEF IInv
<1>2. IndexConsistent'
  <2> USE DEF IInv
  <2>1. CASE NewConfig \/ NewClientSet \/ NewDiscoveryClient
             \/ NewSharedInformerFactory
    BY <2>1 DEF IndexConsistent, NewConfig, NewClientSet, NewDiscoveryClient,
                NewSharedInformerFactory
  <2>2. CASE NewStore
    BY <2>2 DEF IndexConsistent, NewStore
  <2>3. CASE NewInformersForResource
    BY <2>3 DEF IndexConsistent, NewInformersForResource
  <2>4. CASE ServerChange
    BY <2>4 DEF IndexConsistent, ServerChange
  <2>5. CASE UNCHANGED vars
    BY <2>5 DEF IndexConsistent, vars
  <2>6. CASE GetGVRs
    <3>1. phase = "gvrs" /\ phase' = "informers" /\ informers' = informers
      BY <2>6 DEF GetGVRs
    <3>2. informers = {}
      BY <3>1 DEF IndexConsistent
    <3>3. PICK returned \in SUBSET GroupVersions :
             LET L == [g \in returned |-> served[g]] IN
             \/ UNCHANGED <<gvrs, gvktogvrSet>>
             \/ /\ returned = GroupVersions
                /\ \E win \in [KindsIn(L) -> Used(L)] :
                     /\ \A s \in KindsIn(L) : s \in L[win[s]]
                     /\ gvrs' = UNION {{[gv |-> g, stem |-> s] : s \in L[g]} : g \in Used(L)}
                     /\ gvktogvrSet' = [k \in {Key(s) : s \in KindsIn(L)} |->
                                          IndexEntry(win[k.stem], k.stem)]
      BY <2>6 DEF GetGVRs
    <3> DEFINE L == [g \in returned |-> served[g]]
    <3>4. CASE UNCHANGED <<gvrs, gvktogvrSet>>
      BY <3>1, <3>2, <3>4 DEF IndexConsistent
    <3>5. CASE returned = GroupVersions
               /\ \E win \in [KindsIn(L) -> Used(L)] :
                     /\ \A s \in KindsIn(L) : s \in L[win[s]]
                     /\ gvrs' = UNION {{[gv |-> g, stem |-> s] : s \in L[g]} : g \in Used(L)}
                     /\ gvktogvrSet' = [k \in {Key(s) : s \in KindsIn(L)} |->
                                          IndexEntry(win[k.stem], k.stem)]
      <4>1. L \in [GroupVersions -> SUBSET Stems]
        BY <3>5 DEF TypeOK
      <4>2. PICK win \in [KindsIn(L) -> Used(L)] :
                     /\ \A s \in KindsIn(L) : s \in L[win[s]]
                     /\ gvrs' = UNION {{[gv |-> g, stem |-> s] : s \in L[g]} : g \in Used(L)}
                     /\ gvktogvrSet' = [k \in {Key(s) : s \in KindsIn(L)} |->
                                          IndexEntry(win[k.stem], k.stem)]
        BY <3>5
      <4>3. /\ \A k \in DOMAIN gvktogvrSet' :
                 gvktogvrSet'[k] \in gvrs' /\ k = Key(gvktogvrSet'[k].stem)
            /\ \A g \in gvrs' : Key(g.stem) \in DOMAIN gvktogvrSet'
        <5>1. KindsIn(L) \subseteq Stems
          BY <4>1 DEF KindsIn, Used
        <5>2. ASSUME NEW k \in DOMAIN gvktogvrSet'
              PROVE  gvktogvrSet'[k] \in gvrs' /\ k = Key(gvktogvrSet'[k].stem)
          <6>1. PICK s \in KindsIn(L) : k = Key(s)
            BY <4>2
          <6>2. k.stem = s
            BY <6>1, <5>1, KeyFacts
          <6>3. gvktogvrSet'[k] = [gv |-> win[s], stem |-> s]
            BY <4>2, <6>1, <6>2 DEF IndexEntry
          <6>4. win[s] \in Used(L) /\ s \in L[win[s]]
            BY <4>2
          <6>5. [gv |-> win[s], stem |-> s] \in gvrs'
            <7> DEFINE T == {[gv |-> win[s], stem |-> t] : t \in L[win[s]]}
            <7>1. [gv |-> win[s], stem |-> s] \in T
              BY <6>4
            <7>2. T \in {{[gv |-> g, stem |-> t] : t \in L[g]} : g \in Used(L)}
              BY <6>4
            <7>. QED BY <7>1, <7>2, <4>2
          <6>. QED BY <6>1, <6>2, <6>3, <6>5
        <5>3. ASSUME NEW g \in gvrs' PROVE Key(g.stem) \in DOMAIN gvktogvrSet'
          <6>1. PICK h \in Used(L) : g \in {[gv |-> h, stem |-> s] : s \in L[h]}
            BY <4>2
          <6>2. PICK s \in L[h] : g = [gv |-> h, stem |-> s]
            BY <6>1
          <6>3. s \in KindsIn(L)
            BY <6>1, <6>2 DEF KindsIn
          <6>. QED BY <4>2, <6>2, <6>3
        <5>. QED BY <5>2, <5>3
      <4>. QED BY <4>3, <3>1, <3>2 DEF IndexConsistent
    <3>. QED BY <3>3, <3>4, <3>5
  <2>. QED BY <2>1, <2>2, <2>3, <2>4, <2>5, <2>6 DEF Next, Construct
<1>. QED BY <1>1, <1>2 DEF IInv

(***************************************************************************)
(* THEOREM: along every behaviour the kind index built by GetGVRs agrees  *)
(* with rg.gvrs and the informers NewInformersForResource created.        *)
(***************************************************************************)
THEOREM IndexAlwaysConsistent == Spec => []IndexConsistent
<1>1. Init => IInv
  BY InitIInv
<1>2. IInv /\ [Next]_vars => IInv'
  BY NextIInv
<1>. QED BY <1>1, <1>2, PTL DEF Spec, IInv


-----------------------------------------------------------------------------
(***************************************************************************)
(* ParseKind resolves the lower-case and the singular spellings.  Every    *)
(* key GetGVRs writes is the lower-cased singular Kind, so ToLower hits   *)
(* for the singular spellings, and for the lower-case plural ToLower      *)
(* misses and inflection.Singular hits.                                   *)
(***************************************************************************)
LEMMA IInvResolves == IInv => ResolvesLowerAndSingularSpellings
<1> SUFFICES ASSUME IInv,
                    NEW g \in gvrs,
                    NEW n \in Spellings(g.stem) \ {[stem |-> g.stem, plural |-> TRUE,
                                                    upper |-> TRUE]}
             PROVE  ResolvesTo(n)
  BY DEF ResolvesLowerAndSingularSpellings
<1>1. g.stem \in Stems
  BY DEF IInv, TypeOK, GVR
<1>2. Key(g.stem) \in DOMAIN gvktogvrSet
  BY DEF IInv, IndexConsistent
<1>3. gvktogvrSet[Key(g.stem)] \in gvrs
      /\ gvktogvrSet[Key(g.stem)].stem = g.stem
  <2>1. gvktogvrSet[Key(g.stem)] \in gvrs
        /\ Key(g.stem) = Key(gvktogvrSet[Key(g.stem)].stem)
    BY <1>2 DEF IInv, IndexConsistent
  <2>2. gvktogvrSet[Key(g.stem)].stem \in Stems
    BY <2>1 DEF IInv, TypeOK, GVR
  <2>. QED BY <2>1, <2>2, <1>1, KeyFacts
<1>4. \A k \in DOMAIN gvktogvrSet : k.plural = FALSE
  <2> TAKE k \in DOMAIN gvktogvrSet
  <2>1. gvktogvrSet[k] \in gvrs /\ k = Key(gvktogvrSet[k].stem)
    BY DEF IInv, IndexConsistent
  <2>2. gvktogvrSet[k].stem \in Stems
    BY <2>1 DEF IInv, TypeOK, GVR
  <2>. QED BY <2>1, <2>2, KeyFacts
<1>0. PICK pl \in BOOLEAN, up \in BOOLEAN :
           n = [stem |-> g.stem, plural |-> pl, upper |-> up]
  BY DEF Spellings
<1>5. CASE n.plural = FALSE
  <2>0. n.stem = g.stem /\ n.plural = FALSE
    BY <1>0, <1>5
  <2>1. ToLower(n) = Key(g.stem)
    BY <2>0, <1>1, KeyFacts DEF ToLower
  <2>2. ParseKind(n) = gvktogvrSet[Key(g.stem)]
    BY <2>1, <1>2 DEF ParseKind
  <2>. QED BY <2>0, <2>2, <1>3 DEF ResolvesTo
<1>6. CASE n.plural = TRUE
  <2>1. n = [stem |-> g.stem, plural |-> TRUE, upper |-> FALSE]
    <3>1. pl = TRUE
      BY <1>0, <1>6
    <3>2. up = FALSE
      BY <1>0, <3>1
    <3>. QED BY <1>0, <3>1, <3>2
  <2>2. ToLower(n) \notin DOMAIN gvktogvrSet
    BY <2>1, <1>4 DEF ToLower
  <2>3. Singular(n) = Key(g.stem)
    BY <2>1, <1>1, KeyFacts DEF Singular
  <2>4. ParseKind(n) = gvktogvrSet[Key(g.stem)]
    BY <2>2, <2>3, <1>2 DEF ParseKind
  <2>. QED BY <2>1, <2>4, <1>3 DEF ResolvesTo
<1>. QED BY <1>0, <1>5, <1>6

(***************************************************************************)
(* THEOREM: once GetGVRs has indexed a GVR, ParseKind resolves "pod",     *)
(* "Pod" and "pods" to a discovered GVR of that kind, whatever the        *)
(* groups, kinds and server changes.                                      *)
(***************************************************************************)
THEOREM SpellingsResolve == Spec => []ResolvesLowerAndSingularSpellings
<1>1. Init => IInv
  BY InitIInv
<1>2. IInv /\ [Next]_vars => IInv'
  BY NextIInv
<1>3. IInv => ResolvesLowerAndSingularSpellings
  BY IInvResolves
<1>. QED BY <1>1, <1>2, <1>3, PTL DEF Spec

=============================================================================
