SPECIFICATION MCSpec
CONSTANTS
    Users = {u1, u2}
    Candidate = Candidate
    Lead = 1
    Capacity = 1
    MaxTime = 2
    MaxEdits = 2
    MaxFaults = 1
    NoUser = NoUser
    Me = Me
    Another = Another
    Limit = 1
    MaxNotices = 3
    MaxPolls = 3
    Unasked = Unasked
    Tickets = {s1}
    Requests = {q1, q2}
    Ttl = 3
    Interval = 2
    MaxSwitches = 2
    Nothing = Nothing
SYMMETRY Symmetric
INVARIANTS
    PlanFitsEvent
PROPERTIES
    LettersTellTheTruth
    TimesAreKept
    CentreIsHonest
    SessionsEnd
CHECK_DEADLOCK FALSE
