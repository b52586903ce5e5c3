SPECIFICATION MessageSpec
CONSTANTS
    u1 = u1
    u2 = u2
    a1 = a1
    g1 = g1
    NoSession = NoSession
    NoAddr = NoAddr
    NoMessage = NoMessage
    EmptyName = EmptyName
    Addrs = {a1}
    Users = {u1, u2}
    GroupNames = {g1}
    MaxUuids = 4
    MaxPrivate = 1
    MaxPuts = 2
INVARIANTS
    MailboxIsUnread
PROPERTIES
    MembershipIsOwn
    TypeIsForGood
    ImplementsChannelLog
SYMMETRY MCSymmetry
CHECK_DEADLOCK FALSE
