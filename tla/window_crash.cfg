SPECIFICATION WindowSpec
CONSTANTS
    Channels = {c1}
    NoList = NoList
    RESEND_THRESHOLD_NUM = 5
    MaxMessages = 1
    MaxPuts = 1
    MaxOutstanding = 2
    MaxFaults = 0
INVARIANTS
    WindowSurvives
CHECK_DEADLOCK FALSE
