SPECIFICATION LeaveSpec
CONSTANTS
    Users = {u1, u2}
    NoUser = NoUser
    NoPost = NoPost
    MaxPosts = 0
    MaxComments = 0
    MaxList = 1
    MaxChannels = 2
    MaxFaults = 2
    MaxRestarts = 1
    MainKeys = {"a", "v", "l", "s", "f", "p", "m"}
INVARIANTS
    ListIsOwn
    SessionLeftNeedsFault
PROPERTIES
    LeaverGetsOut
CHECK_DEADLOCK FALSE
