CONSTANTS
    HighWater = 3
    MaxPacket = 2
    ReadLens <- SmallReads
    FileLen = 4
SPECIFICATION FairSpec
PROPERTIES
    ReadReturnsAtEnd
CHECK_DEADLOCK FALSE
