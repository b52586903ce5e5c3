SPECIFICATION TransportSpec
CONSTANTS
    RESEND_THRESHOLD_NUM = 3
    MaxCalls = 3
    MaxCopies = 2
INVARIANTS
    CallbackOnce
    RunsAtMostOnce
    OwnAnswerUntilFailure
PROPERTIES
    CallEnds
CHECK_DEADLOCK FALSE
