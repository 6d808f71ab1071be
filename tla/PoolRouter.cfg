SPECIFICATION FairRouterSpec
CONSTANTS
    PoolMiners = {m1, m2}
    Hosts <- StratumHosts
    Configs <- Configurations
    None = None
    m1 = m1
    m2 = m2
    a1 = a1
    a2 = a2
INVARIANTS
    EachMinerOnce
PROPERTIES
    FollowsTheMiner
