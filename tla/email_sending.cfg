SPECIFICATION MCFairSpec
CONSTANTS
    a1 = a1
    a2 = a2
    t1 = t1
    t2 = t2
    m1 = m1
    w1 = w1
    w2 = w2
    q1 = q1
    q2 = q2
    Addresses = {a1, a2}
    Tokens = {t1, t2}
    Messages = {m1}
    Workers = {w1, w2}
    Requests = {q1, q2}
    MaxAttempts = 3
    MaxWait = 2
    NoAddress = NoAddress
    NoRow = NoRow
    Free = Free
INVARIANTS
    HandOffsAreCovered
    ConsentsAreTheCandidates
    VerdictsAreHonest
PROPERTIES
    RevocationTakesEffect
