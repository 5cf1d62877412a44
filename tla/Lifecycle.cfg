\* Two sessions one after the other, daemons that start within the settle
\* delay, may crash, answer errors; launches that may fail.
CONSTANTS
    Sessions = {s1, s2}
    NoSession = NoSession
    Accounts = {0, 1}
    MaxOps = 2
    UsedOps <- MCShapesOps
    Overlap = FALSE
    SettleSuffices = TRUE
SPECIFICATION Spec
INVARIANTS TypeOK OwnDaemon NoOrphanDaemon
PROPERTIES Termination
CHECK_DEADLOCK FALSE
