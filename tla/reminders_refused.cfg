SPECIFICATION Spec
CONSTANTS
    Reminders = {r1, r2}
    Events = {e1}
    Workers = {w1, w2}
    BatchSize = 2
    Period = 1
    Grace = 1
    MaxTime = 1
    MaxEdits = 2
    MaxFaults = 0
    MaxOccurrence = 7
    NoTime = NoTime
    NoReminder = NoReminder
SYMMETRY Symmetric
INVARIANTS
    EditsAreAccepted
CHECK_DEADLOCK FALSE
