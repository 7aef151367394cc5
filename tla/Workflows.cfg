SPECIFICATION WorkflowsSpec
CONSTANTS
    Ref = {p1}
    Call = {c1, c2}
    None = None
    EventsNumbered = FALSE
    MaxRecords = 3
    MaxEvents = 4
    Person = {u1, u2}
    Employee = {e1}
    Colleague = {e1, e2}
    Expense = {r1}
    Claimed = {1, 3}
    FinanceFrom = 1
    BoardFrom = 2
    MaxAside = 1
    Purchase = {r1}
    Vendor = {i1}
    Levels <- Three
    Quantity <- Two
    MaxReceived = 3
    Bill = {r1}
    Billed <- Three
    Written = {0, 3}
    TwoFrom = 1
    ThreeFrom = 2
    MaxPortal = 1
    MaxPrices = 1
    Structure = {r1}
    Base = {250}
    Value = {7}
    Rate = {8}
    Repayment = {5}
    Threshold = 60
    MaxAssigned = 2
    MaxTaken = 1
    Days = 2
    Promotion = {r1}
    Adjustment = {i1}
    Pay <- Two
    MaxHistory = 2
    Supervisor = {u1}
    Schedule = {r1}
    Site = {1}
    Key = {i1}
    Slots = 3
    Horizon = 6
    Zone <- FromZero
    WorkingDays <- FromZero
    MaxEdits = 1
    Meeting = {r1, r2}
    Room = {i1}
    Time <- Times
    Event = {r1}
    Announcement = {r1}
    Group = {g1, g2}
    Onboarding = {r1}
    Confirmation = {r1}
    Exit = {r1}
    MaxInFlight = 2
    Intern = {r1, r2}
    Applicant = {u1}
    Department = {g1, g2}
    Code = {i1, i2}
    Case = {r1}
    Action = {r1}
    Appeal = {i1, i2}
    Target = {r1}
    Task = {i1, i2}
    MaxValue = 2
    MaxTargets = 2
    MaxAttempts = 1
    Limits <- Two
    MaxSession = 3
    RoleKey <- Keys
    Default <- Defaults
    Super = sa
    Hr = hr
    Custom = cu
    Permission = {i1}
    Preset = {}
    MaxRoles = 2
    Challenge = {r1}
    MaxCodes = 2
    EmailRequest = {r1, r2}
    Address <- Keys
    Provider = {i1}
    Refreshable = {i1}
    State = {r1, r2}
    Grant = {g1, g2}
    Phone = {i1, i2}
INVARIANTS
    SuccessIsEarned MoneyLeavesAsApproved PayIsAsDecided NamesAreOfOne BookedOnceOrUnchecked
    OutOfWorkHasNoAccess StatusIsExplained WrittenLastIsKept
PROPERTIES
    SuccessIsKept CheckInIsOfItsShift SignInsAreAsAllowed CountedAndToldOnce OneOpenPlacement
CHECK_DEADLOCK FALSE
