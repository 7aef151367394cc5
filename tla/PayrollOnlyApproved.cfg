SPECIFICATION Spec
CONSTANTS
    Run = {r1}
    Period = {m1}
    Employee = {e1}
    Verifier = {v1}
    None = None
    MaxRecords = 0
    MaxEvents = 0
SYMMETRY Symmetry
PROPERTY OnlyApprovedIsPaid
CHECK_DEADLOCK FALSE
