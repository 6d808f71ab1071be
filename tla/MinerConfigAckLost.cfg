SPECIFICATION Spec
CONSTANTS
    Miners = {m1}
    Hosts = {a}
    Urls = {u, v}
    NoUrls = NoUrls
    SeedMiners <- OneMiner
    SeedUrls = u
    Handlers = {h1, h2}
    Invalid = Invalid
    Absent = Absent
    DiskFails = FALSE
    MaxConfigs = 4
    m1 = m1
    a = a
    u = u
    v = v
    h1 = h1
    h2 = h2
SYMMETRY Symmetry
INVARIANTS
    AcknowledgedIsOnDisk
CHECK_DEADLOCK FALSE
