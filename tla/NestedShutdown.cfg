\* A session entered inside another: whose daemon does its shutdown stop?
CONSTANTS
    Sessions = {s1, s2}
    NoSession = NoSession
    Accounts = {0, 1}
    MaxOps = 2
    UsedOps <- MCShapesOps
    Overlap = TRUE
    SettleSuffices = TRUE
SPECIFICATION Spec
PROPERTIES OwnShutdown
CHECK_DEADLOCK FALSE
