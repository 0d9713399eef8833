CONSTANTS
    POLL_DIDS <- TwoDids
    MAX_HISTORY = 2
    Requests = {"r1"}
    MaxPolls = 3
    MaxLate = 2
SPECIFICATION FairSpec
INVARIANTS
    TypeOK
    HistoryIsChronological
    ReadingsAreFresh
    LateAnswersOnly
    NoIndexError
PROPERTIES
    PollAdvances
    PollerGoesOn
