\* HighWater 2 is reached by one packet; the 4 samples overflow it once.
CONSTANTS
    HighWater = 2
    MaxPacket = 2
    ReadLens <- SmallSlices
    DataLens <- SmallCalls
    FileLen = 4
SPECIFICATION PlayFairSpec
INVARIANTS
    PlayIInv
    AckNotMissed
    ResultThere
    AnsweredInFull
PROPERTIES
    StartWhenReady
    ImplementsAudio
    ImplementsCall
    PlayReturns
    PlayedUnlessStarved
\* play is called once; its failure, and the end of the file, stop everything.
CHECK_DEADLOCK FALSE
