SPECIFICATION FairSpec
CONSTANTS
    Ticks = {t1}
    Drains = {d1}
    MaxMail = 2
    MaxDirect = 0
    MailLimit = 1
    Endpoints = {p1}
    MaxJobs = 2
    MaxSubs = 2
    JobLimit = 1
    MaxRetries = 2
    MaxCrashes = 1
INVARIANTS OneActivePerEndpoint
PROPERTIES SubscriptionsStayOff JobsAreDelivered MailIsDelivered JobsSettle
CHECK_DEADLOCK FALSE
