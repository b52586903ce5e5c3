SPECIFICATION PostSpec
CONSTANTS
    u1 = u1
    u2 = u2
    a1 = a1
    c1 = c1
    c2 = c2
    NoSession = NoSession
    NoAddr = NoAddr
    NoPost = NoPost
    NoComment = NoComment
    Users = {u1, u2}
    Addrs = {a1}
    Contents = {c1, c2}
    Masks = {{"POSTER_DEFINED"}, {"ANY"}}
    MaxUuids = 4
    MaxPosts = 2
    MaxComments = 0
    LikeCounts = {}
    MaxGranted = 2
INVARIANTS
    IdNamesOnePost
PROPERTIES
    IdsAreNotReused
    OnlyPosterChanges
    ReadersWereNamed
SYMMETRY MCSymmetry
VIEW MCView
CHECK_DEADLOCK FALSE
