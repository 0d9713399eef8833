CONSTANTS
    a1 = a1
    a2 = a2
    none = none
    Addresses <- TesterAddresses
    INVALID_ADDRESS = none
    PoolSize = 2
SPECIFICATION Spec
CHECK_DEADLOCK FALSE
INVARIANT VerdictAfterClosed
