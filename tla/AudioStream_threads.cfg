\* HighWater 3 is above one packet and not a multiple of it, so that the
\* buffer overshoots; the 8 samples fill it twice.
CONSTANTS
    HighWater = 3
    MaxPacket = 2
    ReadLens <- SmallReads
    FileLen = 8
SPECIFICATION FairSpec
INVARIANTS
    InOrder
    BufferBounded
    NoLostWakeup
    IInv
PROPERTIES
    ReadsAreFull
    ImplementsQueue
    BufferedIsCopied
    DecoderGetsRoom
\* The reader waits for good once the file has ended, and nothing happens at
\* all when the decoding thread could not be spawned.
CHECK_DEADLOCK FALSE
