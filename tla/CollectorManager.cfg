SPECIFICATION FairSpec
CONSTANTS
    Miners = {m1}
    Panels = {net}
    Upstreams = {u1, u2}
    Configs <- Edits
    Callers = {c1, c2}
    MaxGen = 2
    None = None
    m1 = m1
    net = net
    u1 = u1
    u2 = u2
    c1 = c1
    c2 = c2
INVARIANTS
    CancelledFetchIsNotAFailure
    NothingRunsAfterWait
PROPERTIES
    NoStaleWrite
    ImplementsReloader
    ReloadTerminates
    ShutdownCompletes
CHECK_DEADLOCK FALSE
