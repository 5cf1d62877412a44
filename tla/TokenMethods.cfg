CONSTANTS
    Sessions = {s1}
    NoSession = NoSession
    Accounts = {0, 1}
    MaxOps = 2
    UsedOps <- MCTokenOps
    Overlap = FALSE
    SettleSuffices = TRUE
SPECIFICATION Spec
INVARIANTS DistinctTokenMethods
CHECK_DEADLOCK FALSE
