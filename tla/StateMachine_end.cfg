SPECIFICATION FairSpec
PROPERTIES
    PlaybackCompletes
CHECK_DEADLOCK FALSE
