CONSTANTS
    Sessions = {s1, s2}
    NoSession = NoSession
    Accounts = {0, 1}
    MaxOps = 2
    UsedOps <- MCShapesOps
    Overlap = FALSE
    SettleSuffices = FALSE
SPECIFICATION Spec
INVARIANTS NoOrphanDaemon
CHECK_DEADLOCK FALSE
