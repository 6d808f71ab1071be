SPECIFICATION Spec
CONSTANTS
    Ingests = {i1}
    Interval = 2
    Hour = 6
    Day = 12
    Retention = 6
    None = None
    MaxTime = 7
    MaxSamples = 1
    MaxShares = 0
    i1 = i1
INVARIANT HourCountsItsOwn
CHECK_DEADLOCK FALSE
