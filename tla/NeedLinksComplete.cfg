CONSTANTS
    Needs <- FourNeeds
    Missing <- OneMissing
    Root = "root"
    MaxDepth = 2
SPECIFICATION Spec
CHECK_DEADLOCK FALSE
INVARIANT
    AllWithinDepth
