CONSTANTS
    NoKeys = NoKeys
    Reports = {NoKeys, key}
    CaptureCapacity = 2
    QueueCapacity = 2
    CommandCapacity = 2
    TxCapacity = 100
    TxDrains = {0, 100}
SPECIFICATION Spec
INVARIANTS
    Consistent
    RecordedOnce
    HeldKeysBelongToMode
PROPERTIES
    SafeOutputKept
    RunEndReported
    PeerKept
