CONSTANTS
    MaxIncoming = 1
SPECIFICATION Spec
PROPERTIES
    ConnectedIsOwn
\* connect is called once, and the link may stay as it is for good.
CHECK_DEADLOCK FALSE
