SPECIFICATION FairSpec
CONSTANTS
    o1 = o1
    o2 = o2
    Observers = {o1, o2}
    Nobody = Nobody
    Fds <- MCFds
    Masks <- MCMasks
    Timeouts <- MCTimeouts
    MaxTime = 2
INVARIANTS
    NoStaleEvents
PROPERTIES
    PollNotifies
    TimeoutNotEarly
    QueueDrains
    ImplementsObservable
CHECK_DEADLOCK FALSE
