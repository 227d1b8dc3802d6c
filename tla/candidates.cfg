SPECIFICATION MCSpec
CONSTANTS
    HRs = {u1, u2}
    Managers = {m1}
    Requests = {r1, r2}
    MaxRequests = 4
    NoUser = NoUser
    Free = Free
    Owners = {h1, h2}
    Services = {s1}
    Importers = {i1, i2}
    SeesAll = {i1}
    MaxRows = 2
    MaxImports = 3
    MaxCards = 3
    MaxHands = 1
    None = None
SYMMETRY Symmetric
INVARIANTS
    OwnerIsExplained
    QuotaKept
PROPERTIES
    ImportsKeepCards
CHECK_DEADLOCK FALSE
