SPECIFICATION AccountSpec
CONSTANTS
    u1 = u1
    u2 = u2
    p1 = p1
    p2 = p2
    empty = empty
    a1 = a1
    n1 = n1
    b1 = b1
    q1 = q1
    EmptyString = empty
    NoSession = NoSession
    NoAddr = NoAddr
    NoAccount = NoAccount
    NotSet = NotSet
    Addrs = {a1}
    Finds <- MCContains
    Users = {u1, u2}
    Passwords = {p1, p2, empty}
    Nicknames = {n1}
    Birthdays = {}
    Queries = {q1}
    MaxUuids = 4
    MaxAsks = 2
INVARIANTS
    FriendshipSymmetric
    FriendshipNeedsBothSides
    NoDanglingUsers
    IndexIsNewest
PROPERTIES
    NameKeepsPassword
SYMMETRY MCSymmetry
VIEW MCView
CHECK_DEADLOCK FALSE
