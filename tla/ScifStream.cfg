SPECIFICATION FairSpec
CONSTANTS
    Senders = {s1, s2}
    Receivers = {r1}
    None = None
    Kernel = {"A"}
    Mixed = FALSE
    Size = 2
    Chunk = 1
    MaxLen = 2
    MaxSend = 1
    MaxRecv = 1
    MaxTrouble = 1
INVARIANTS NotFragmented CountsTrue ResetMeansDrained MessageFindsEndpoint
PROPERTIES UsesRing NoLostWakeup CloseReturns
CHECK_DEADLOCK FALSE
