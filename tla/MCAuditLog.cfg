\* Two ingests overlap with an export and with every deletion.
CONSTANTS
    mine = mine
    shop = shop
    key = key
    ann = ann
    r1 = r1
    r2 = r2
    Workspaces = {mine}
    Projects = {shop}
    Tokens = {key}
    Users = {ann}
    Home <- HomeOf
    Parts <- PartsOf
    Entries = {1, 2, 3}
    Forensic = {3}
    Time <- TimeOf
    Of <- WsOf
    Names <- NamesOf
    Requests = {r1, r2}
    PageSize = 1
    MaxRows = 2
SYMMETRY Symmetry
SPECIFICATION Spec
CHECK_DEADLOCK FALSE
INVARIANTS
    ReferencesExist
    AckedIsKept
    ExportIsExact
PROPERTIES
    StoredWithinScope
