SPECIFICATION ReportingSpec
CONSTANTS
    Commands = {p1, p2}
    Datasets <- OneDataset
    MaxRuns = 3
    MaxStops = 1
    MaxCommits = 1
    p1 = p1
    p2 = p2
SYMMETRY Symmetry
INVARIANTS
    ReportIsKept
    SettledVerifies
    VerifiedIsOfItsReport
    SignedByKnownKey
CHECK_DEADLOCK FALSE
