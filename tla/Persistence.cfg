SPECIFICATION FairSpec
CONSTANTS
    Record = {p, q}
    Profile = {p}
    MaxClock = 3
    MaxEdits = 3
    MaxQueue = 3
    MaxFaults = 1
    MaxStops = 2
INVARIANTS CopyIsBehind StampsOrderEdits
PROPERTIES CopyNeverGoesBack CopiesCatchUp
CHECK_DEADLOCK FALSE
