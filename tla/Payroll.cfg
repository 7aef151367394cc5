SPECIFICATION FairSpec
CONSTANTS
    Run = {r1}
    Period = {m1}
    Employee = {e1, e2}
    Verifier = {v1}
    None = None
    MaxRecords = 2
    MaxEvents = 0
INVARIANTS Inv ItemPaidOnce PaidWasApproved PaidRunIsPaid RowHasCharge
PROPERTY PayingEnds
CHECK_DEADLOCK FALSE
