SPECIFICATION Spec
CONSTANTS
    Record = {p, q}
    Profile = {p}
    MaxClock = 2
    MaxEdits = 1
    MaxQueue = 2
    MaxFaults = 0
    MaxStops = 1
PROPERTY ProfilesAreKept
CHECK_DEADLOCK FALSE
