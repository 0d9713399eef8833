CONSTANTS
    POLL_DIDS <- TwoDids
    MAX_HISTORY = 2
    Requests = {"r1"}
    MaxPolls = 3
    MaxLate = 2
SPECIFICATION Spec
INVARIANT
    ReadingsAreTheirOwn
