CONSTANTS
    r1 = r1
    r2 = r2
    r3 = r3
    RxThreads = {r1, r2, r3}
    RX_POOL_N_BLOCKS = 3
    RX_COMMAND_POOL_N_BLOCKS = 1
SPECIFICATION RxSpec
INVARIANTS
    RxAccounting
    WrappersConserved
    WrapperShortageIsTransient
    RxCommandBuffersConserved
PROPERTY RxImplementsPool
