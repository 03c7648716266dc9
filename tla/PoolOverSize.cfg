CONSTANTS
    Threads = {t1, t2, t3}
    PoolSize = 2
    ConnectMayFail = FALSE
    HandlerMayThrow = FALSE
SPECIFICATION PoolSpec
INVARIANT OpenWithinPoolSize
