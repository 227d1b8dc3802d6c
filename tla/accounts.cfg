SPECIFICATION MCSpec
CONSTANTS
    Users = {u1, u2, u3}
    Tokens = {t1, t2}
    Tickets = {k1, k2}
    Requests = {r1, r2}
    Licences = {l1}
    Seats <- SeatsOf
    FirstUser = u1
    MaxFailures = 3
    Unread = Unread
    Nobody = Nobody
    Free = Free
    NoLicence = NoLicence
    MaxVersion = 2
    MaxJobs = 2
    MaxReleases = 1
    MaxMishaps = 1
    None = None
    MinCopies = 1
    MaxBackups = 3
    MaxRuns = 4
    MaxCrashes = 1
    MaxErrors = 1
    MaxUpdates = 3
    MaxSetups = 1
    MaxStarts = 1
    Mixed = Mixed
SYMMETRY Symm
CHECK_DEADLOCK FALSE
INVARIANTS LockComes OneOwner AnAdminRemains SeatsKept RecordedBackupStands ReportsAreTrue
PROPERTIES GoesBackOnlyUnseen
