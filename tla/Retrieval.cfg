SPECIFICATION FairSpec
CONSTANTS
    N = 3
    Sizes <- MCSizes
    Overhead = 1
    DiagSize = 1
    Offers <- MCOffers
    Unset <- MCUnset
    IntMax <- MCIntMax
    MaxLost = 2
INVARIANTS
    ResponseFits
    TakesWhatFits
    PositionsFollow
PROPERTY PagingEnds
CHECK_DEADLOCK FALSE
