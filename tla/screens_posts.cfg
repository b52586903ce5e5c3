SPECIFICATION LeaveSpec
CONSTANTS
    Users = {u1, u2}
    NoUser = NoUser
    NoPost = NoPost
    MaxPosts = 2
    MaxComments = 1
    MaxList = 0
    MaxChannels = 0
    MaxFaults = 1
    MaxRestarts = 1
    MainKeys = {"a", "v", "l"}
INVARIANTS
    PositionInRange
    EditIsOwn
    CommentsOfThisPost
PROPERTIES
    LeaverGetsOut
CHECK_DEADLOCK FALSE
