SPECIFICATION Spec
CONSTANTS
    Syntaxes = {"usmarc", "xml"}
    ElementSets = {"B"}
    NoValue = NoValue
    Miss = Miss
    MaxPosition = 2
    DefaultSize = 3
    MaxUsed = 5
    MaxSearches = 2
    MaxEdition = 1
INVARIANT HitsAreRight
PROPERTY ImplementsMap
CHECK_DEADLOCK FALSE
