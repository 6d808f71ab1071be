SPECIFICATION FairSpec
CONSTANTS
    Miners = {m1}
    Base = 1
    maxBackoff = 3
    Timeout = 1
    Shown = 1
    reprobeAfter = 2
    MaxAge = 4
    Never = Never
    Minute = 2
    OfflineAfter = 2
    TempAlerts = TRUE
    Cooldown = 2
    m1 = m1
INVARIANTS
    ShownAsItIs
PROPERTIES
    NoRepeatWhileItHolds
    NoFalseAlarm
    DowngradeIsPickedUp
    LastingProblemIsDelivered
