CONSTANTS
    EirLength = 5
    Classes = {2360324, 5898764, 2097664, 2360328, 2560}
    Reports <- MCReports
    Utf8 <- MCUtf8
SPECIFICATION Spec
INVARIANTS
    IInv
    PanicsOnlyOnMisfit
    AsAnnounced
\* A result is handled once.
CHECK_DEADLOCK FALSE
