CONSTANTS
    Requests = {r1, r2}
    MaxSessions = 2
SPECIFICATION Spec
PROPERTY ErrorNotMasked
CHECK_DEADLOCK FALSE
