SPECIFICATION Spec
CONSTANTS
    Miners = {m1, m2, m3}
    Ranges = {fast, slow}
    Interval <- Intervals
    Cap <- Caps
    MaxMiners = 2
    Fleet = Fleet
    Absent = Absent
    MaxTime = 5
    fast = fast
    slow = slow
    m1 = m1
    m2 = m2
    m3 = m3
SYMMETRY Symmetry
INVARIANTS
    Bounded
PROPERTIES
    OnlyUnsavedIsLost
