\* A project is updated while it is transferred.
CONSTANTS
    home = home
    shared = shared
    later = later
    ann = ann
    bob = bob
    p1 = p1
    k1 = k1
    n1 = n1
    n2 = n2
    r1 = r1
    r2 = r2
    Workspaces = {home, shared}
    Personal = {home}
    FirstAdmins <- OnlyTwo
    AdminSets <- Nobody
    Users = {ann, bob}
    Callers = {ann}
    Projects = {p1}
    Names = {n1}
    Keys = {k1}
    Environments <- One
    Requests = {r1, r2}
    MaxRows = 1
SPECIFICATION FairSpec
CHECK_DEADLOCK FALSE
PROPERTIES
    UpdateKeepsWorkspace
