SPECIFICATION FairSpec
CONSTANTS
    c1 = c1
    c2 = c2
    p1 = p1
    p2 = p2
    Caller <- Threads
    NoOne = NoOne
    Calls <- CallsOfThreads
    Peer = {p1}
    Ticking = {"heart"}
    MaxDb = 2
    MaxStart = 2
    MaxTrans = 3
    Events = {}
INVARIANTS
    TypeOK
    NoPanic
    RunningHasStorage
    StoppedIsSilent
PROPERTIES
    GoroutinesEnd
    ClientsServed
\* The service may stay stopped or closed.
CHECK_DEADLOCK FALSE
