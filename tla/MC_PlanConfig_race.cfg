SPECIFICATION Spec
CONSTANTS
    p1 = p1
    p2 = p2
    planA = planA
    planB = planB
    Procs = {p1, p2}
    Plans = {planA, planB}
    MaxRequests = 3
    LookupFailures = FALSE
    Failures = FALSE
    Mismatch = FALSE
INVARIANTS OneConfigPerPlan
CHECK_DEADLOCK FALSE
