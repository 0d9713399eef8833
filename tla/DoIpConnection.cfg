CONSTANTS
    a1 = a1
    a2 = a2
    none = none
    Addresses <- TesterAddresses
    INVALID_ADDRESS = none
    PoolSize = 3
SPECIFICATION FairSpec
CHECK_DEADLOCK FALSE
INVARIANTS
    TypeOK
    LiveIsTimed
PROPERTIES
    EveryCheckAnswered
    VerdictsAreDue
    ClosedForGood
    LifecycleForward
    AddressBound
    InitialTimeoutWorks
    AliveCheckEnds
    ClosingJobCloses
