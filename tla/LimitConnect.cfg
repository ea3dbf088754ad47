SPECIFICATION LimitSpec
CONSTANTS
    IntMax = 7
    Junk = {5}
    p1 = p1
    p2 = p2
    Peers = {p1, p2}
    NoPeer = NoPeer
    Periods = {2, 3}
    StartTime = 5
    MaxTime = 11
    MaxBack = 1
    MaxConnects = 2
SYMMETRY Symmetry
INVARIANT WindowExact
PROPERTY CleanupKeepsTotals
CHECK_DEADLOCK FALSE
