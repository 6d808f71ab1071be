SPECIFICATION Spec
CONSTANTS
    Commands = {p1, p2}
    Miners = {miner}
    Configs = {config}
    Policies = {policy}
    Documents = {document}
    Tables = {cost}
    Addresses = {address}
    Rewards = {reward}
    Valuations = {valuation}
    Contents = {a, b}
    Unset = Unset
    Torn = Torn
    DiskFails = TRUE
    MaxEvents = 3
    Latest = 2
    p1 = p1
    p2 = p2
    a = a
    b = b
SYMMETRY Symmetry
INVARIANTS
    MigratedOnceInOrder
    ChainIsValid
    TamperingIsDetected
    OneInForce
    LogTellsTheRows
    DocumentIsOnDisk
CHECK_DEADLOCK FALSE
