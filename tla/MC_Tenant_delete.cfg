\* Two goroutines, one tenant name, no failures: two concurrent Deletes
\* of the tenant both return it.
SPECIFICATION Spec
CONSTANTS
    p1 = p1
    p2 = p2
    alpha = alpha
    NoTenant = NoTenant
    DeleteError = DeleteError
    Procs <- MCProcs
    Names <- MCNames
    MaxTenants = 1
    MaxRequests = 4
    Failures = FALSE
PROPERTY ImplementsTenantStore
CHECK_DEADLOCK FALSE
