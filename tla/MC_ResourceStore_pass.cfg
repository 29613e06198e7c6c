CONSTANTS
    core = core
    events = events
    crd = crd
    pod = pod
    event = event
    widget = widget
    noGVR = noGVR
    GroupVersions <- MCGroupVersions
    Stems <- MCStems
    InitialServed <- MCInitialServed
    Malformed = {}
    Supported <- MCSupported
    UnknownKind = noGVR
    MaxServerChanges = 2
SPECIFICATION Spec
INVARIANTS
    TypeOK
    IndexConsistent
    ResolvesLowerAndSingularSpellings
\* After NewResourceGetter returns (or the process exits) the getter is passive.
CHECK_DEADLOCK FALSE
