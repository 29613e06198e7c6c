\* Three goroutines and one account name, every call allowed to fail: each
\* Create, Update and Delete interleaved with another on the same account.
SPECIFICATION Spec
CONSTANTS
    p1 = p1
    p2 = p2
    p3 = p3
    alice = alice
    bob = bob
    Procs <- MCProcs
    Names = {alice}
    MaxRequests = 7
    Failures = TRUE
SYMMETRY MCSymmetry
INVARIANT TypeOK
PROPERTY
    DeleteForgetsOnlyRevoked
\* Once the requests are spent every goroutine is idle: the service is
\* passive and waits for the next request.
CHECK_DEADLOCK FALSE
