SPECIFICATION Spec
CONSTANTS
    Backup = {b1, b2}
    Request = {r1, r2}
    None = None
    MaxRequests = 4
    MaxCrashes = 0
    MaxDay = 0
    RetentionDays = 0
    Faults = FALSE
    TickOverlap = FALSE
PROPERTY BusyIsNotDeleted
CHECK_DEADLOCK FALSE
