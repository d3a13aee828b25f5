CONSTANTS
    Requests = {r1, r2}
    MaxSessions = 2
SPECIFICATION Spec
INVARIANT ArmedIsLeft
CHECK_DEADLOCK FALSE
