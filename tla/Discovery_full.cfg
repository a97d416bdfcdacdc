CONSTANTS
    Kinds = {"speaker", "phone"}
    Capacity = 2
    MaxResults = 3
SPECIFICATION Spec
INVARIANTS
    BroadcastFits
\* A panic, or the connection, ends the search.
CHECK_DEADLOCK FALSE
