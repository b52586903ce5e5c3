SPECIFICATION LifecycleSpec
CONSTANTS
    Signals = {SIGTERM, SIGINT}
    Torn = Torn
    MaxRequests = 3
    MaxSignals = 2
    MaxRuns = 2
    MaxKills = 1
INVARIANTS
    AnsweredIsSaved
    StopLosesOnlyInterrupted
    PostsHavePosters
PROPERTIES
    EndsUnlessAsleep
CHECK_DEADLOCK FALSE
