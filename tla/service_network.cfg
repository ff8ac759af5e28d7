SPECIFICATION FairSpec
CONSTANTS
    c1 = c1
    c2 = c2
    p1 = p1
    p2 = p2
    Caller <- OneThread
    NoOne = NoOne
    Calls <- CallsOfOne
    Peer = {p1}
    Ticking = {"heart"}
    MaxDb = 1
    MaxStart = 1
    MaxTrans = 2
    Events = {}
PROPERTY
    OverlayServed
\* The service may stay stopped or closed.
CHECK_DEADLOCK FALSE
