\* Two requests of every kind overlap with moves, deletions and expiry.
CONSTANTS
    old = old
    new = new
    shop = shop
    blog = blog
    a1 = a1
    t1 = t1
    t2 = t2
    r1 = r1
    r2 = r2
    Workspaces = {old, new}
    Projects = {shop, blog}
    FirstHome <- HomeOf
    Agents = {a1}
    Tokens = {t1, t2}
    Requests = {r1, r2}
SYMMETRY Symmetry
SPECIFICATION Spec
CHECK_DEADLOCK FALSE
INVARIANTS
    TokensHaveAgents
    DeadTokensAreRefused
    DeliveredToReaders
PROPERTIES
    ImplementsCredentials
    DeletionIsFinal
