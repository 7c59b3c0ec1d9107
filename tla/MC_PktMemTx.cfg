CONSTANTS
    t1 = t1
    t2 = t2
    t3 = t3
    TxThreads = {t1, t2, t3}
    DriverThreads = {t2, t3}
    TX_POOL_N_BLOCKS = 5
    TX_COMMAND_POOL_N_BLOCKS = 1
SPECIFICATION TxFairSpec
INVARIANTS
    Accounting
    PauseHasReleaser
    DriverViewSettles
    CommandBuffersConserved
PROPERTIES
    EventuallyReady
    TxImplementsPool
