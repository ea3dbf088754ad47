SPECIFICATION FairSpec
CONSTANTS
    MaxConnects = 2
    MaxPdus = 2
    MaxDepth = 2
    EarlySend = TRUE
    ReuseClosed = FALSE
PROPERTIES
    QueueIsWritten
CHECK_DEADLOCK FALSE
