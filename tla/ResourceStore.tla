--------------------------- MODULE ResourceStore ---------------------------
(***************************************************************************)
(* The resource getter of package resourcesstore                          *)
(* (src/api/server/router/user/menu.go, lines 37-256): NewResourceGetter  *)
(* builds a client set, a discovery client and a shared informer factory, *)
(* discovers the cluster's preferred resources once (GetGVRs), builds the *)
(* lower-cased kind -> GVR index, creates one informer per discovered GVR *)
(* and a store.  ParseKind resolves a user-supplied kind through the index.*)
(*                                                                         *)
(* Data abstraction.  A kind name is a record: its stem (which resource   *)
(* it names), whether it is written in the plural and whether its first   *)
(* letter is upper case.  strings.ToLower clears `upper'; inflection's    *)
(* Singular clears `plural' and keeps the case of the word.  A discovered *)
(* resource has Kind = capitalised singular stem and Name = lower-case    *)
(* plural stem, so a GVR is identified by its group/version and stem.     *)
(*                                                                         *)
(* The API server is the environment: the resources it serves per        *)
(* group/version can change (CRDs installed or removed) at any time.       *)
(***************************************************************************)
EXTENDS Naturals, FiniteSets

CONSTANTS
    GroupVersions,    \* group/versions the API server exposes
    Stems,            \* resource kinds, by stem
    InitialServed,    \* [GroupVersions -> SUBSET Stems] at start
    Malformed,        \* group/versions whose string ParseGroupVersion rejects
    Supported,        \* GVRs for which sharedInformerFactory.ForResource succeeds
    UnknownKind,      \* the zero GVR returned with the "unknown kind" error
    MaxServerChanges  \* bound on the environment's changes to the served set

GVR == [gv : GroupVersions, stem : Stems]

Names == [stem : Stems, plural : BOOLEAN, upper : BOOLEAN]

ASSUME ConstantsAssumption ==
    /\ InitialServed \in [GroupVersions -> SUBSET Stems]
    /\ Malformed \subseteq GroupVersions
    /\ Supported \subseteq GVR
    /\ UnknownKind \notin GVR
    /\ MaxServerChanges \in Nat

Phases == {"config", "clientset", "discovery", "factory", "gvrs",
           "informers", "store", "ready", "exited"}

VARIABLES
    phase,          \* the step of NewResourceGetter the process is at
    served,         \* API server: group/version -> stems it serves
    gvrs,           \* rg.gvrs
    gvktogvrSet,    \* rg.gvktogvrSet: lower-cased kind -> GVR
    informers,      \* DOMAIN rg.informers
    lists,          \* what ServerPreferredResources returned: gv -> stems
    discoveryErr,   \* the error GetGVRs returned (NewResourceGetter drops it)
    serverChanges   \* number of environment changes so far

vars == <<phase, served, gvrs, gvktogvrSet, informers, lists, discoveryErr,
          serverChanges>>

(***************************************************************************)
(* String conversions, by what they do to a kind name.                    *)
(***************************************************************************)
ToLower(n) == [stem |-> n.stem, plural |-> n.plural, upper |-> FALSE]

Singular(n) == [stem |-> n.stem, plural |-> FALSE, upper |-> n.upper]

\* resource.Kind of a discovered resource: capitalised singular.
KindOf(s) == [stem |-> s, plural |-> FALSE, upper |-> TRUE]

\* Mutant: the index keyed by resource.Kind as discovered, not lower-cased.
KeyNotLowered(s) == KindOf(s)

\* The index key GetGVRs stores for a resource: strings.ToLower(resource.Kind).
Key(s) == ToLower(KindOf(s))

TypeOK ==
    /\ phase \in Phases
    /\ served \in [GroupVersions -> SUBSET Stems]
    /\ gvrs \subseteq GVR
    /\ \E keys \in SUBSET Names : gvktogvrSet \in [keys -> GVR]
    /\ informers \subseteq GVR
    /\ \E returned \in SUBSET GroupVersions :
           lists \in [returned -> SUBSET Stems]
    /\ discoveryErr \in BOOLEAN
    /\ serverChanges \in 0..MaxServerChanges

Init ==
    /\ phase = "config"
    /\ served = InitialServed
    /\ gvrs = {}
    /\ gvktogvrSet = [k \in {} |-> UnknownKind]
    /\ informers = {}
    /\ lists = [g \in {} |-> {}]
    /\ discoveryErr = FALSE
    /\ serverChanges = 0

(***************************************************************************)
(* NewConfig: ~/.kube/config, else the in-cluster config, else            *)
(* klog.Fatalf, which ends the process.                                    *)
(***************************************************************************)
NewConfig ==
    /\ phase = "config"
    /\ \/ phase' = "clientset"
       \/ phase' = "exited"
    /\ UNCHANGED <<served, gvrs, gvktogvrSet, informers, lists, discoveryErr,
                   serverChanges>>

\* NewClientSet and NewDiscoveryClient: an error is klog.Fatalf.
NewClientSet ==
    /\ phase = "clientset"
    /\ phase' \in {"discovery", "exited"}
    /\ UNCHANGED <<served, gvrs, gvktogvrSet, informers, lists, discoveryErr,
                   serverChanges>>

NewDiscoveryClient ==
    /\ phase = "discovery"
    /\ phase' \in {"factory", "exited"}
    /\ UNCHANGED <<served, gvrs, gvktogvrSet, informers, lists, discoveryErr,
                   serverChanges>>

NewSharedInformerFactory ==
    /\ phase = "factory"
    /\ phase' = "gvrs"
    /\ UNCHANGED <<served, gvrs, gvktogvrSet, informers, lists, discoveryErr,
                   serverChanges>>

(***************************************************************************)
(* GetGVRs.  ServerPreferredResources returns the lists of the group/     *)
(* versions it could fetch (returned) and an error when any group failed. *)
(* On an error GetGVRs returns before touching rg.gvrs and rg.gvktogvrSet.*)
(* Otherwise it skips empty lists and lists whose GroupVersion does not   *)
(* parse, appends one GVR per resource and stores it under the lower-cased*)
(* Kind; a later list overwrites an earlier entry of the same kind.  The  *)
(* server decides the order of the lists, so the list that wins a kind   *)
(* is any list serving it (win).                                          *)
(***************************************************************************)
Used(L) == {g \in DOMAIN L : L[g] # {} /\ g \notin Malformed}

KindsIn(L) == UNION {L[g] : g \in Used(L)}

\* Mutant: the index entry's Resource field filled from resource.Kind.
IndexEntryKindAsResource(g, s) == [gv |-> g, stem |-> KindOf(s)]

\* The GVR GetGVRs stores in gvktogvrSet for resource s of list g.
IndexEntry(g, s) == [gv |-> g, stem |-> s]

GetGVRs ==
    /\ phase = "gvrs"
    /\ phase' = "informers"
    /\ \E returned \in SUBSET GroupVersions :
        LET L == [g \in returned |-> served[g]] IN
        /\ lists' = L
        /\ \/ /\ returned # GroupVersions
              /\ discoveryErr' = TRUE
              /\ UNCHANGED <<gvrs, gvktogvrSet>>
           \/ /\ returned = GroupVersions
              /\ discoveryErr' = FALSE
              /\ \E win \in [KindsIn(L) -> Used(L)] :
                   /\ \A s \in KindsIn(L) : s \in L[win[s]]
                   /\ gvrs' = UNION {{[gv |-> g, stem |-> s] : s \in L[g]} : g \in Used(L)}
                   /\ gvktogvrSet' = [k \in {Key(s) : s \in KindsIn(L)} |->
                                        IndexEntry(win[k.stem], k.stem)]
    /\ UNCHANGED <<served, informers, serverChanges>>

(***************************************************************************)
(* NewInformersForResource: ForResource fails for a GVR the typed factory *)
(* does not know; that GVR is logged and skipped.                         *)
(***************************************************************************)
\* Mutant: the error of ForResource not checked, a nil informer stored.
NewInformersIgnoringErrors ==
    /\ phase = "informers"
    /\ informers' = gvrs
    /\ phase' = "store"
    /\ UNCHANGED <<served, gvrs, gvktogvrSet, lists, discoveryErr, serverChanges>>

NewInformersForResource ==
    /\ phase = "informers"
    /\ informers' = {g \in gvrs : g \in Supported}
    /\ phase' = "store"
    /\ UNCHANGED <<served, gvrs, gvktogvrSet, lists, discoveryErr, serverChanges>>

\* rg.store = NewStore(); NewResourceGetter returns.
NewStore ==
    /\ phase = "store"
    /\ phase' = "ready"
    /\ UNCHANGED <<served, gvrs, gvktogvrSet, informers, lists, discoveryErr,
                   serverChanges>>

(***************************************************************************)
(* ParseKind: the lower-cased name, else its singular (of the name as     *)
(* given, not lower-cased), else "unknown kind" with the zero GVR.        *)
(***************************************************************************)
ParseKind(kind) ==
    IF ToLower(kind) \in DOMAIN gvktogvrSet
    THEN gvktogvrSet[ToLower(kind)]
    ELSE IF Singular(kind) \in DOMAIN gvktogvrSet
         THEN gvktogvrSet[Singular(kind)]
         ELSE UnknownKind

(***************************************************************************)
(* The environment: a resource is installed in or removed from a          *)
(* group/version of the API server.                                        *)
(***************************************************************************)
ServerChange ==
    /\ serverChanges < MaxServerChanges
    /\ \E g \in GroupVersions, s \in Stems :
        \/ served' = [served EXCEPT ![g] = @ \cup {s}]
        \/ served' = [served EXCEPT ![g] = @ \ {s}]
    /\ served' # served
    /\ serverChanges' = serverChanges + 1
    /\ UNCHANGED <<phase, gvrs, gvktogvrSet, informers, lists, discoveryErr>>

Construct ==
    \/ NewConfig
    \/ NewClientSet
    \/ NewDiscoveryClient
    \/ NewSharedInformerFactory
    \/ GetGVRs
    \/ NewInformersForResource
    \/ NewStore

Next == Construct \/ ServerChange

\* NewResourceGetter runs to completion on its goroutine.
Spec == Init /\ [][Next]_vars /\ WF_vars(Construct)

-----------------------------------------------------------------------------
(***************************************************************************)
(* Properties.                                                             *)
(***************************************************************************)

\* The four ways to write a kind: "pod", "pods", "Pod", "Pods".
Spellings(s) == {[stem |-> s, plural |-> p, upper |-> u] : p, u \in BOOLEAN}

\* A name ParseKind resolves to a GVR of the kind it names.
ResolvesTo(n) == ParseKind(n) \in gvrs /\ ParseKind(n).stem = n.stem

(***************************************************************************)
(* The index GetGVRs builds is self-consistent and complete for what was  *)
(* discovered, and NewInformersForResource ran on that index: every entry *)
(* points at a discovered GVR of the kind of its key, every discovered    *)
(* GVR's kind has an entry, no informer exists before                     *)
(* NewInformersForResource, and from then on there is an informer for     *)
(* exactly the discovered GVRs ForResource accepts.                       *)
(***************************************************************************)
IndexConsistent ==
    /\ \A k \in DOMAIN gvktogvrSet :
          /\ gvktogvrSet[k] \in gvrs
          /\ k = Key(gvktogvrSet[k].stem)
    /\ \A g \in gvrs : Key(g.stem) \in DOMAIN gvktogvrSet
    /\ phase \notin {"store", "ready"} => informers = {}
    /\ phase \in {"store", "ready"} => informers = gvrs \cap Supported

(***************************************************************************)
(* ParseKind accepts "pod", "pods" and "Pod" for every discovered kind:   *)
(* the lower-case lookup and the singular fallback reach the entry        *)
(* GetGVRs stored under the lower-cased Kind.                             *)
(***************************************************************************)
ResolvesLowerAndSingularSpellings ==
    \A g \in gvrs :
        \A n \in Spellings(g.stem) \ {[stem |-> g.stem, plural |-> TRUE,
                                        upper |-> TRUE]} :
            ResolvesTo(n)

(***************************************************************************)
(* Spec section 8: "pod", "pods", "Pod" and "Pods" all resolve, to the    *)
(* same GVR, for every discovered kind.                                    *)
(***************************************************************************)
ResolvesAllSpellings ==
    \A g \in gvrs :
        \A n \in Spellings(g.stem) :
            ResolvesTo(n) /\ ParseKind(n) = ParseKind(Key(g.stem))

(***************************************************************************)
(* Spec sections 4.1 and 8: when discovery of some groups fails, the      *)
(* kinds of the groups that were discovered still resolve once            *)
(* NewResourceGetter has returned.                                         *)
(***************************************************************************)
PartialDiscoveryTolerated ==
    phase = "ready" =>
        \A s \in KindsIn(lists) : ParseKind(Key(s)) # UnknownKind

(***************************************************************************)
(* Spec sections 2 and 4.3: once the getter is built, every discovered    *)
(* type is watched (has an informer).                                     *)
(***************************************************************************)
EveryTypeWatched ==
    phase = "ready" => gvrs \subseteq informers

(***************************************************************************)
(* Spec section 4.5: a kind the API server serves after the getter is     *)
(* built eventually becomes resolvable (discovery is re-run), unless the  *)
(* server stops serving it.                                                *)
(***************************************************************************)
NewTypesEventuallyResolvable ==
    \A g \in GroupVersions, s \in Stems :
        (phase = "ready" /\ s \in served[g])
            ~> (ParseKind(Key(s)) # UnknownKind \/ s \notin served[g])

=============================================================================
