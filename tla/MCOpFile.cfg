SPECIFICATION FileSpec
CONSTANTS
    Size <- MCSize
    FileFailure = {"calloc", "content", "insert", "compile", "scan", "read"}
    OPFILE_MAX_HS_SCAN = 3
    OPFILE_SUPPORT_MAX_EXPRESS_SIZE = 3
    MaxChecks = 2
INVARIANTS
    LongestWins
    HeldExact
CHECK_DEADLOCK FALSE
