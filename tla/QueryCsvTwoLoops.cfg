\* Two handlers write Configuration.csv at a time.
CONSTANTS
    t1 = t1  t2 = t2  nowhere = nowhere  r1 = r1  r2 = r2  r3 = r3
    Threads <- TwoLoops
    PoolSize = 2
    ConnectMayFail = FALSE
    HandlerMayThrow = FALSE
    Requests <- TwoRequests
    Homes <- BothLoops
    Nowhere = nowhere
    BomLines = 1
    NetlistLines = 1
    RelayAmount <- TwoOneTwo
    Mishaps <- NoMishaps
SPECIFICATION QuerySpec
PROPERTY CreatedMeansWritten
CHECK_DEADLOCK FALSE
