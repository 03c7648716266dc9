\* The database refuses a row, and the client is told 200.
CONSTANTS
    t1 = t1  t2 = t2  nowhere = nowhere  r1 = r1  r2 = r2  r3 = r3
    Threads <- OneLoop
    PoolSize = 2
    ConnectMayFail = FALSE
    HandlerMayThrow = FALSE
    Requests <- TwoRequests
    Homes <- OnlyOneLoop
    Nowhere = nowhere
    BomLines = 1
    NetlistLines = 1
    RelayAmount <- OneEach
    Mishaps <- OutputMishaps
SPECIFICATION QuerySpec
INVARIANT SuccessMeansSaved
CHECK_DEADLOCK FALSE
