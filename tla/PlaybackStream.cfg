CONSTANTS
    TotalEvents = 5
    PipelineWindow = 2
    NoKeys = 0
    Reports = {0, 1, 2, 3, 4, 5}
    CaptureCapacity = 1
    QueueCapacity = 3
    CommandCapacity = 2
    TxCapacity = 2048
    TxDrains = {2048}
SPECIFICATION StreamFairSpec
INVARIANTS
    WithinLimits
    EndIsTrue
PROPERTIES
    PlayedInOrder
    StreamEnds
