SPECIFICATION PollSpec
CONSTANTS
    Miners = {m1}
    Base = 1
    maxBackoff = 3
    Timeout = 1
    Shown = 1
    reprobeAfter = 2
    MaxAge = 4
    Never = Never
    m1 = m1
PROPERTIES
    UpgradeIsPickedUp
CHECK_DEADLOCK FALSE
