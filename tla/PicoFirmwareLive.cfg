CONSTANTS
    NoKeys = NoKeys
    Reports = {NoKeys}
    CaptureCapacity = 1
    QueueCapacity = 2
    CommandCapacity = 1
    TxCapacity = 77
    TxDrains = {0, 77}
SPECIFICATION FairSpec
PROPERTIES
    SilenceEndsRun
    ReleaseIsSent
