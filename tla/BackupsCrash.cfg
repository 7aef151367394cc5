SPECIFICATION Spec
CONSTANTS
    Backup = {b1, b2}
    Request = {r1, r2}
    None = None
    MaxRequests = 4
    MaxCrashes = 1
    MaxDay = 0
    RetentionDays = 0
    Faults = TRUE
    TickOverlap = FALSE
SYMMETRY Symmetry
INVARIANTS Inv OneAutomaticPerDay
CHECK_DEADLOCK FALSE
