\* Two requests interleave over two accounts; batches of two entries, and a member
\* can be removed and invited again while a request still holds the first row.
CONSTANTS
    u1 = u1
    u2 = u2
    r1 = r1
    r2 = r2
    Users = {u1, u2}
    Requests = {r1, r2}
    FounderKeys = {TRUE, FALSE}
    PlainRoles = {"member"}
    MaxRows = 4
    MaxBatch = 2
SYMMETRY Symmetry
SPECIFICATION HistorySpec
CHECK_DEADLOCK FALSE
INVARIANTS
    NoOrphanRow
    InvitedHoldsNoKey
PROPERTIES
    OwnerNeverRemoved
    StaleWriteMisses
    ImplementsRoster
    AdminsKeepAdmins
    DemotionLeavesAnAdmin
