SPECIFICATION Spec
CONSTANTS
    NoValue = NoValue
    MaxLines = 2
    Hosts <- MCHosts
    MaxCommands = 4
    ForeignRequests <- MCForeignRequests
    MaxForeign = 3
INVARIANTS
    AnswersKeepOrder
    AnswerFits
    RequestsNameTheirHost
PROPERTIES
    WaitEnds
    SessionsEnd
CHECK_DEADLOCK FALSE
