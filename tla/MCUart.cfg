CONSTANTS
    Scripts <- MCScripts
    Sequences <- MCSequences
    Values <- MCValues
    Crc <- MCCrc
    FrameCount = 3
    MaxTrouble = 1
    MaxNoise = 1
    MaxPayload = 3
    RxCapacity = 2
    RxWrap = 4
    CommandCapacity = 1
    CommandWrap = 3
SPECIFICATION UartSpec
INVARIANTS
    CommandsAccountedFor
    DamageCostsOneFrame
    FramesAreDecoded
PROPERTY RingsKept
CHECK_DEADLOCK FALSE
