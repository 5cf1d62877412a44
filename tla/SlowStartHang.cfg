CONSTANTS
    Sessions = {s1, s2}
    NoSession = NoSession
    Accounts = {0, 1}
    MaxOps = 1
    UsedOps <- MCShapesOps
    Overlap = FALSE
    SettleSuffices = FALSE
SPECIFICATION Spec
PROPERTIES Termination
CHECK_DEADLOCK FALSE
