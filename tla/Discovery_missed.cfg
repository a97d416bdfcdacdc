CONSTANTS
    Kinds = {"speaker", "phone"}
    Capacity = 2
    MaxResults = 2
SPECIFICATION Spec
INVARIANTS
    TimedOutWithout
\* A panic, or the connection, ends the search.
CHECK_DEADLOCK FALSE
