SPECIFICATION FairSpec
CONSTANTS
    Miners = {m1}
    Streams = {s1}
    Writers = {w1, w2}
    MaxClock = 2
    m1 = m1
    s1 = s1
    w1 = w1
    w2 = w2
INVARIANTS
    NoLostUpdate
    NoSendOnClosedChannel
PROPERTIES
    ScreenNeverGoesBack
    EveryFetchIsShown
