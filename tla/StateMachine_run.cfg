SPECIFICATION FairSpec
INVARIANTS
    OneState
    UnwrapsHold
    PartitionStaysOpen
    IInv
PROPERTIES
    SearchReached
\* A panic ends the firmware, and the main task may wait for itself.
CHECK_DEADLOCK FALSE
