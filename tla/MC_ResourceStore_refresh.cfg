CONSTANTS
    core = core
    events = events
    crd = crd
    pod = pod
    event = event
    widget = widget
    noGVR = noGVR
    GroupVersions <- MCGroupVersions
    Stems <- MCStems
    InitialServed <- MCInitialServed
    Malformed = {}
    Supported <- MCSupported
    UnknownKind = noGVR
    MaxServerChanges = 1
SPECIFICATION Spec
PROPERTY NewTypesEventuallyResolvable
CHECK_DEADLOCK FALSE
