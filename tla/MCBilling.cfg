CONSTANTS
    a1 = a1
    a2 = a2
    r1 = r1
    r2 = r2
    w1 = w1
    w2 = w2
    Managers = {"ann"}
    Accounts = {a1, a2}
    Requests = {r1, r2}
    Workers = {w1, w2}
SPECIFICATION FairSpec
CHECK_DEADLOCK FALSE
PROPERTIES
    TierIsFresh
    CalmReconcileMirrors
    LaterRequestsKeepTheId
    EveryReconcileAnswered
