SPECIFICATION Spec
CONSTANTS
    N = 2
    Sizes <- MCSizes
    Overhead = 1
    DiagSize = 1
    Offers <- MCOffers
    Unset <- MCUnset
    IntMax <- MCIntMax
    MaxLost = 0
INVARIANT FetchedByItself
CHECK_DEADLOCK FALSE
