\* Two loops share two connections at most: what requests do to the pool, and
\* who is answered in the end, under fairness of the loops.
CONSTANTS
    t1 = t1  t2 = t2  nowhere = nowhere  r1 = r1  r2 = r2  r3 = r3
    Threads <- TwoLoops
    PoolSize = 1
    ConnectMayFail = TRUE
    HandlerMayThrow = TRUE
    Requests <- ThreeRequests
    Homes <- BothLoops
    Nowhere = nowhere
    BomLines = 1
    NetlistLines = 0
    RelayAmount <- NoneEach
    Mishaps <- MishapsWithoutOutput
SPECIFICATION FairQuerySpec
INVARIANTS ConnectionWhileUsed EveryFailureCostsAConnection
PROPERTIES EveryRequestIsAnswered StopComesToRest
\* All requests are answered, or no connection is left.
CHECK_DEADLOCK FALSE
