\* Two goroutines, no transient failure: two Deletes of one row racing Creates of its account name.
SPECIFICATION Spec
CONSTANTS
    p1 = p1
    p2 = p2
    p3 = p3
    alice = alice
    bob = bob
    Procs = {p1, p2}
    Names = {alice}
    MaxRequests = 5
    Failures = FALSE
INVARIANT
    WorkingCredentialUnique
CHECK_DEADLOCK FALSE
