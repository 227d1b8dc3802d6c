SPECIFICATION MCSpec
CONSTANTS
    r1 = r1
    r2 = r2
    w1 = w1
    w2 = w2
    o1 = o1
    Rows = {r1, r2}
    Workers = {w1, w2}
    Kind <- KindPair
    ObjectOf <- SameObject
    AdminRows = {r1}
    MaxAttempts = 2
    BatchSize = 1
    MaxDeferrals = 0
    MaxCrashes = 0
    MaxDbErrors = 0
    NoRow = NoRow
    NoWorker = NoWorker
    Users = {u1, u2}
    Keys = {"key"}
    Channels = {"email", "telegram"}
    MaxRows = 2
    MaxEdits = 1
    Nothing = Nothing
SYMMETRY Symmetric
INVARIANTS
    AttemptsBounded
    DuplicatesExplained
    OneSenderPerRow
    OneSendPerKey
PROPERTIES
    FinishedStaysFinished
    KeepsPromise
