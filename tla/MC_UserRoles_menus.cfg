SPECIFICATION Spec
CONSTANTS
    p1 = p1
    p2 = p2
    r1 = r1
    r2 = r2
    m1 = m1
    b1 = b1
    Procs <- MCProcs
    Roles <- MCRoles
    Menus <- MCMenus
    MenuParent <- MCMenuParent
    MenuType <- MCMenuType
    RoleMenu <- MCRoleMenu
    MaxRequests = 2
    MaxUsers = 1
    MaxRestarts = 0
    Failures = TRUE
    IdReuse = FALSE
SYMMETRY MCSymmetry
INVARIANT MenusOfOwnRoles
CHECK_DEADLOCK FALSE
