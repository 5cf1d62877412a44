CONSTANTS
    Sessions = {s1}
    NoSession = NoSession
    Accounts = {0, 1}
    MaxOps = 2
    UsedOps <- MCShapesOps
    Overlap = FALSE
    SettleSuffices = TRUE
SPECIFICATION Spec
INVARIANTS TranscriptRecordsReplies
CHECK_DEADLOCK FALSE
