SPECIFICATION FairSpec
CONSTANTS
    Backup = {b1, b2}
    Request = {r1, r2}
    None = None
    MaxRequests = 3
    MaxCrashes = 0
    MaxDay = 0
    RetentionDays = 0
    Faults = TRUE
    TickOverlap = TRUE
PROPERTY BackupsSettle
CHECK_DEADLOCK FALSE
