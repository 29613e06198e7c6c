CONSTANTS
    core = core
    events = events
    crd = crd
    pod = pod
    event = event
    widget = widget
    noGVR = noGVR
    GroupVersions <- MCGroupVersions
    Stems <- MCStems
    InitialServed <- MCInitialServed
    Malformed = {}
    Supported <- MCSupported
    UnknownKind = noGVR
    MaxServerChanges = 0
SPECIFICATION Spec
INVARIANT PartialDiscoveryTolerated
CHECK_DEADLOCK FALSE
