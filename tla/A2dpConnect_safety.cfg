CONSTANTS
    MaxIncoming = 2
SPECIFICATION FairSpec
INVARIANTS
    FirstLoopHears
    OutcomeStillComes
    IInv
PROPERTIES
    AnswersThisAttempt
    ReturnsUnlessRaced
\* connect is called once, and the link may stay as it is for good.
CHECK_DEADLOCK FALSE
