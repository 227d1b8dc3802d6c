SPECIFICATION MCFairSpec
CONSTANTS
    Reminders = {r1, r2}
    Events = {e1}
    Workers = {w1, w2}
    BatchSize = 2
    Period = 1
    Grace = 1
    MaxTime = 1
    MaxEdits = 2
    MaxFaults = 1
    MaxOccurrence = 7
    NoTime = NoTime
    NoReminder = NoReminder
    Users = {u1, u2}
    Requests = {q1, q2}
    Readers = {l1}
    Times = {1, 2}
    Days = {1, 2}
    Cards = {1, 2}
    MaxChanges = 3
    Nothing = Nothing
    MaxSheets = 2
    MaxParsed = 2
    MaxExtra = 2
    MaxComment = 2
    MaxRows = 3
INVARIANTS
    NoOccurrenceSkipped
    
PROPERTIES
    ClosedEventsStopReminding
    DueRemindersFire
    ScheduleHoldsTogether
CHECK_DEADLOCK FALSE
