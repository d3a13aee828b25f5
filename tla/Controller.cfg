CONSTANTS
    Requests = {r1, r2, r3}
    MaxSessions = 2
SPECIFICATION FairSpec
INVARIANTS
    SingleOwner
    ClaimIsSound
    CancelIsOwn
    NeverAnotherSession
    RecordingIsLeft
PROPERTY StopEndsSession
CHECK_DEADLOCK FALSE
