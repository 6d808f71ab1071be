SPECIFICATION FairLiveSpec
CONSTANTS
    Miners = {m1}
    Hosts = {a, b}
    Urls = {u}
    NoUrls = NoUrls
    SeedMiners <- OneMiner
    SeedUrls = u
    Handlers = {h1}
    Pool = Pool
    Network = Network
    NoRequest = NoRequest
    Invalid = Invalid
    Absent = Absent
    DiskFails = FALSE
    MaxConfigs = 4
    m1 = m1
    a = a
    b = b
    u = u
    h1 = h1
INVARIANTS
    RunningIsConfigured
PROPERTIES
    EditTakesEffect
CHECK_DEADLOCK FALSE
