SPECIFICATION RouterSpec
CONSTANTS
    Routers = {root, account}
    Handlers = {f, g}
    NoHandler = NoHandler
    NotFound = NotFound
    Idle = Idle
    Names = {"a", "b"}
    MaxSegments = 2
    MaxSlashes = 1
    MaxRequest = 3
    MaxPaths = 3
INVARIANTS
    RegisteredIsFound
    OnlyRegisteredRuns
CHECK_DEADLOCK FALSE
