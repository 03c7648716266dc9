\* What requests leave behind, with every mishap at every step: two requests
\* on two loops, and three of different lengths on one.
CONSTANTS
    t1 = t1  t2 = t2  nowhere = nowhere  r1 = r1  r2 = r2  r3 = r3
    Threads <- TwoLoops
    PoolSize = 1
    ConnectMayFail = TRUE
    HandlerMayThrow = TRUE
    Requests <- ThreeRequests
    Homes <- TwoOrAll
    Nowhere = nowhere
    BomLines = 2
    NetlistLines = 1
    RelayAmount <- TwoOneNone
    Mishaps <- AllMishaps
SPECIFICATION QuerySpec
INVARIANTS QueryTypeOK OneReply FailureLeavesKnownRows SuccessIsSavedOrRejected
           CsvOfOneRequest TablesFillInOrder
\* All requests are answered, or no connection is left.
CHECK_DEADLOCK FALSE
