SPECIFICATION Spec
CONSTANTS
    p1 = p1
    p2 = p2
    planA = planA
    planB = planB
    Procs = {p1, p2}
    Plans = {planA, planB}
    MaxRequests = 6
    LookupFailures = FALSE
    Failures = TRUE
    Mismatch = FALSE
INVARIANTS TypeOK DuplicatesBoundedByConcurrency
CHECK_DEADLOCK FALSE
