\* Two requests against one project with one secret.
CONSTANTS
    home = home
    shared = shared
    later = later
    ann = ann
    bob = bob
    p1 = p1
    k1 = k1
    n1 = n1
    n2 = n2
    r1 = r1
    r2 = r2
    Workspaces = {home, shared, later}
    Personal = {home}
    FirstAdmins <- BobShared
    AdminSets <- AnnRemoved
    Users = {ann, bob}
    Callers = {ann}
    Projects = {p1}
    Names = {n1, n2}
    Keys = {k1}
    Environments <- One
    Requests = {r1, r2}
    MaxRows = 2
SYMMETRY Symmetry
SPECIFICATION Spec
CHECK_DEADLOCK FALSE
INVARIANTS
    NoOrphans
PROPERTIES
    PolicyIsKept
    DeletedSecretsStayDeleted
    LostOnlyToStaleness
    MovedByAnAdmin
