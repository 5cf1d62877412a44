CONSTANTS
    Sessions = {s1, s2}
    NoSession = NoSession
    Accounts = {0, 1}
    MaxOps = 2
    UsedOps <- MCShapesOps
    Overlap = TRUE
    SettleSuffices = TRUE
SPECIFICATION Spec
INVARIANTS OwnDaemon
CHECK_DEADLOCK FALSE
