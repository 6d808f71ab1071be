SPECIFICATION FairSpec
CONSTANTS
    Miners = {m1}
    Total = Total
    Values = {v}
    Savers = {v, w}
    Unset = Unset
    Bad = Bad
    Absent = Absent
    Broken = Broken
    Handlers = {h1, h2}
    MaxChanges = 3
    m1 = m1
    v = v
    w = w
    h1 = h1
    h2 = h2
INVARIANTS
    AnsweredIsOnDisk
PROPERTIES
    RestartKeepsAnswered
    SettingReachesScreen
