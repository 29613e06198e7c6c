SPECIFICATION Spec
CONSTANTS
    p1 = p1
    p2 = p2
    r1 = r1
    r2 = r2
    m1 = m1
    b1 = b1
    Procs <- MCProcs
    Roles <- MCRoles
    Menus <- MCMenus
    MenuParent <- MCMenuParent
    MenuType <- MCMenuType
    RoleMenu <- MCRoleMenu
    MaxRequests = 5
    MaxUsers = 2
    MaxRestarts = 1
    Failures = TRUE
    IdReuse = FALSE
SYMMETRY MCSymmetry
INVARIANTS TypeOK RolesAreOneAssignment
PROPERTIES NoLostUpdate ImplementsUserStore
CHECK_DEADLOCK FALSE
