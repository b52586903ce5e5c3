SPECIFICATION FileTransferSpec
CONSTANTS
    Senders = {s1, s2}
    Names = {f, g}
    NotOpen = NotOpen
    Chunks = 2
    MaxSends = 1
    MaxOutstanding = 2
    MaxFaults = 2
INVARIANTS
    ReceivedIsWhole
    OnlyLostEndsMix
CHECK_DEADLOCK FALSE
