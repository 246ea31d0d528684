\* Every group on the router consumes the stream when unknown events are acked.
CONSTANTS
    Groups <- MCGroups
    Handlers <- MCHandlers
    EventNames <- MCEventNames
    EventOf <- MCEventOf
    InvalidHandlers = {h4}
    HandlerLists <- MCLists
    Stream <- MCLivenessStream
    Malformed = {}
    AckOnUnknownEvent = TRUE
    SetupCanFail = TRUE
    MaxFailures = 2
    g1 = g1
    g2 = g2
    g3 = g3
    h1 = h1
    h2 = h2
    h3 = h3
    h4 = h4
    eA = eA
    eB = eB
    eC = eC
SPECIFICATION Spec
PROPERTY EveryEventAcked
\* Once every group has stopped (the stream consumed or an event nacked
\* forever), the system really stops.
CHECK_DEADLOCK FALSE
