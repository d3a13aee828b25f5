CONSTANTS
    Requests = {r1, r2}
    MaxSessions = 1
SPECIFICATION FairSpec
PROPERTY LeftBe
CHECK_DEADLOCK FALSE
