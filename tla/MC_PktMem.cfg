CONSTANTS
    t1 = t1
    r1 = r1
    TxThreads = {t1}
    DriverThreads = {t1}
    TX_POOL_N_BLOCKS = 3
    TX_COMMAND_POOL_N_BLOCKS = 2
    RxThreads = {r1}
    RX_POOL_N_BLOCKS = 2
    RX_COMMAND_POOL_N_BLOCKS = 2
    DeinitPolls = 3
SPECIFICATION PktMemSpec
PROPERTY DeinitWaitsWhileAllocated
