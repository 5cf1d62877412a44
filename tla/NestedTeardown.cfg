\* Two sessions that may overlap (one entered inside the other's body).
CONSTANTS
    Sessions = {s1, s2}
    NoSession = NoSession
    Accounts = {0, 1}
    MaxOps = 1
    UsedOps <- MCShapesOps
    Overlap = TRUE
    SettleSuffices = TRUE
SPECIFICATION Spec
INVARIANTS NoOrphanDaemon
PROPERTIES Termination
CHECK_DEADLOCK FALSE
