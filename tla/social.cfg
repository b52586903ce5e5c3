SPECIFICATION SocialSpec
CONSTANTS
    u1 = u1
    u2 = u2
    EmptyString = empty
    NoSession = NoSession
    NoAddr = NoAddr
    NoAccount = NoAccount
    NotSet = NotSet
    NoPost = NoPost
    NoComment = NoComment
    Users = {u1, u2}
    Addrs = {a1}
    Passwords = {p1}
    Nicknames = {}
    Birthdays = {}
    Queries = {}
    Finds = {}
    Contents = {c1}
    Masks = {{"ANY"}}
    MaxUuids = 4
    MaxAsks = 0
    MaxPosts = 2
    MaxComments = 2
    LikeCounts = {1}
    MaxGranted = 0
INVARIANTS
    PostersHaveAccounts
PROPERTIES
    CommentsStay
SYMMETRY MCUserSymmetry
VIEW MCView
CHECK_DEADLOCK FALSE
