\* One session whose daemon may stop answering while it stays up.
CONSTANTS
    Sessions = {s1}
    NoSession = NoSession
    Accounts = {0, 1}
    MaxOps = 1
    UsedOps <- MCShapesOps
    Overlap = FALSE
    SettleSuffices = TRUE
SPECIFICATION HungSpec
PROPERTIES Termination
CHECK_DEADLOCK FALSE
