CONSTANTS
    MaxIncoming = 0
SPECIFICATION FairSpec
PROPERTIES
    ConnectReturns
\* connect is called once, and the link may stay as it is for good.
CHECK_DEADLOCK FALSE
