SPECIFICATION Spec
CONSTANTS
    Backup = {b1, b2}
    Request = {r1, r2}
    None = None
    MaxRequests = 4
    MaxCrashes = 0
    MaxDay = 1
    RetentionDays = 0
    Faults = FALSE
    TickOverlap = TRUE
SYMMETRY Symmetry
INVARIANTS ActiveIsServed VerifiedIsStored
PROPERTY VerifiedStaysVerified
CHECK_DEADLOCK FALSE
