CONSTANTS
    Keyboards = {k1, k2}
    Others = {mouse}
    Nobody = Nobody
    Capacity = 3
    MaxReports = 7
    Reports = {1, 2, 3}
    MaxKeys = 3
    Retries = 1
    MaxSessions = 2
    MaxTrouble = 2
    MaxLate = 2
    Width = 10
    Numerators = {1, 2, 3, 4}
    Denominators = {1, 2, 3}
    Prebuffer = 5
    MaxEvents = 5
    Names = {n1, n2, n3}
    Absent = Absent
    MaxRecordings = 2
    MaxCrashes = 1
    MaxFailures = 1
SPECIFICATION RecordingSpec
INVARIANTS
    KeyboardIsHeard
    RecordedInOrder
    HealthyLinkNeverFails
    LeftInPass
    TimesAreKept
    StoreIsSound
PROPERTIES
    CaptureRingKept
    WholeRecording
    FilesAreKept
CHECK_DEADLOCK FALSE
