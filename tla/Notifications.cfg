SPECIFICATION Spec
CONSTANTS
    Ticks = {t1, t2}
    Drains = {d1,d2}
    MaxMail = 2
    MaxDirect = 1
    MailLimit = 2
    Endpoints = {p1}
    MaxJobs = 2
    MaxSubs = 1
    JobLimit = 2
    MaxRetries = 2
    MaxCrashes = 0
SYMMETRY Symmetry
INVARIANTS FailedWasTried SendingIsHeld MailLogAgrees
CHECK_DEADLOCK FALSE
