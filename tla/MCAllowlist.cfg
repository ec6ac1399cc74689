\* Three overlapping requests on two domains; or two uploads and two
\* recomputations, over two days of which one is recomputed.
CONSTANTS
    ann = ann
    d1 = d1
    d2 = d2
    r1 = r1
    r2 = r2
    r3 = r3
    u1 = u1
    u2 = u2
    c1 = c1
    c2 = c2
    Domains = {d1, d2}
    Requests = {r1, r2, r3}
    MaxLog = 4
    Senders = {ann}
    LastDay = 2
    Window = 1
    Batches <- Sent
    Uploads = {u1, u2}
    Runs = {c1, c2}
    MaxSnapshots = 2
    MaxFailures = 1
SYMMETRY Symmetry
SPECIFICATION BothSpec
CHECK_DEADLOCK FALSE
INVARIANTS
    AbsentIsLogged
    NoDoubleAdd
    LogIsTheHistory
    SettledTotalsAreRight
PROPERTIES
    ResendAddsNothing
