CONSTANTS
    Requests = {r1, r2}
    MaxSessions = 2
SPECIFICATION Spec
PROPERTY StopTellsOwnOutcome
CHECK_DEADLOCK FALSE
