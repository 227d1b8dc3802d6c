SPECIFICATION MCSpec
CONSTANTS
    Users = {u1, u2}
    RuleOwner = u1
    Versions = {"v"}
    ItemsOf <- ListItems
    Workers = {w1, w2}
    MaxSets = 2
    MaxMarks = 1
    MaxFacts = 1
    MaxRuleEdits = 1
    MaxRows = 2
    NoRow = NoRow
    NoWorker = NoWorker
    Nothing = Nothing
    Free = Free
    Applicants = {"first", "second"}
    RequestKeys = {"key"}
    Names = {"built-in", "other"}
    BuiltIn = "built-in"
    MaxTemplates = 2
    MaxVersions = 2
    MaxRevision = 3
    MaxDocuments = 2
SYMMETRY WorkerSymmetry
INVARIANTS
    OnlyMissingIsAskedFor
    NoLockCycle
    MadeOnce
PROPERTIES
    EditsAreInformed
