SPECIFICATION WindowSpec
CONSTANTS
    Channels = {c1, c2}
    NoList = NoList
    RESEND_THRESHOLD_NUM = 2
    MaxMessages = 2
    MaxPuts = 1
    MaxOutstanding = 2
    MaxFaults = 1
INVARIANTS
    EachMessageOnce
    ShownInOrder
    SilentMeansRan
    TroubleHasCause
    ShownInItsChannel
PROPERTIES
    MessagesLeaveMailbox
CHECK_DEADLOCK FALSE
