SPECIFICATION FairSpec
CONSTANTS
    MaxConnects = 2
    MaxPdus = 3
    MaxDepth = 2
    EarlySend = FALSE
    ReuseClosed = FALSE
PROPERTIES
    QueueIsWritten
    CloseCompletes
    ImplementsPduObservable
CHECK_DEADLOCK FALSE
