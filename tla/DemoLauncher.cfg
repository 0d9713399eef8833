CONSTANTS
    p1 = p1
    p2 = p2
    p3 = p3
    none = none
    Pids <- ThreePids
SPECIFICATION FairSpec
INVARIANTS
    TypeOK
    NoOrphan
    InterfaceInUse
PROPERTIES
    StoppedMeansGone
