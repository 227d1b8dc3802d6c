SPECIFICATION MCSpec
CONSTANTS
    c1 = c1
    u1 = u1
    t1 = t1
    t2 = t2
    Candidates = {c1}
    Users = {u1}
    Tokens = {t1, t2}
    OwnerOf <- CandidateFirst
    Chats = {x1, x2}
    Sessions = {s1, s2}
    MaxUpdates = 2
    MaxGuesses = 1
    MaxCodes = 2
    MaxChanges = 4
    MaxRows = 1
    NoChat = NoChat
    NoToken = NoToken
    Free = Free
    NoAddress = NoAddress
SYMMETRY Symmetric
INVARIANTS
    StartsKept
    ConsentAtHandOff
    UserDecides
PROPERTIES
    BindingsAreEarned
CHECK_DEADLOCK FALSE
