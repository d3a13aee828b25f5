CONSTANTS
    Offsets = {0, 1, 3}
    QueueCapacity = 2
    TimeModulus = 16
    WatchdogTimeout = 2
    MaxClock = 6
    MaxSamples = 3
    MaxInt = 3
    Percents = {50, 75}
    Gaps <- EarlyToStalled
    MaxDispatches = 4
    MaxRuns = 2
    Reports = {r1}
    Retries = 1
    MaxSessions = 3
    MaxStops = 2
    MaxTrouble = 1
    MaxLate = 1
SPECIFICATION PlaybackSpec
INVARIANTS
    AlarmIsHeads
    WatchdogIsLate
    MetricsDescribeRun
    SessionIsLeft
    UndisturbedSessionSucceeds
    HeardIsOwn
PROPERTIES
    PlayoutKept
    Punctual
    SessionEnds
CHECK_DEADLOCK FALSE
