\* Every fault at once: connections that cannot be opened, handlers that throw.
CONSTANTS
    Threads = {t1, t2, t3}
    PoolSize = 2
    ConnectMayFail = TRUE
    HandlerMayThrow = TRUE
SPECIFICATION PoolSpec
INVARIANTS TypeOK OneOwner OpenedBound NoLostWakeup
PROPERTY LedgerSpec
\* main may fail to start, and a pool that lost all its connections blocks for ever.
CHECK_DEADLOCK FALSE
