SPECIFICATION RuleSpec
CONSTANTS
    r1 = r1
    r2 = r2
    w1 = w1
    w2 = w2
    o1 = o1
    Rows = {r1, r2}
    Workers = {w1, w2}
    Kind <- KindDocument
    ObjectOf <- SameObject
    AdminRows = {}
    MaxAttempts = 2
    BatchSize = 2
    MaxDeferrals = 0
    MaxCrashes = 1
    MaxDbErrors = 1
    NoRow = NoRow
    NoWorker = NoWorker
INVARIANTS
    RulesAreObeyed
PROPERTIES
    EveryRowSettles
