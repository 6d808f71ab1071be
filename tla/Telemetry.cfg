SPECIFICATION Spec
CONSTANTS
    Ingests = {i1}
    Interval = 2
    Hour = 4
    Day = 8
    Retention = 4
    None = None
    MaxTime = 6
    MaxSamples = 4
    MaxShares = 1
    i1 = i1
INVARIANTS
    CountedOnce
    NoShareTwice
    HolesAreSurfaced
VIEW View
CHECK_DEADLOCK FALSE
