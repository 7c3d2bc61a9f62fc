SPECIFICATION FairCliSpec
CONSTANTS
    c1 = c1
    c2 = c2
    c3 = c3
    Client <- MCClient
    Fd = {1, 2}
    Nobody = Nobody
    CliFailure = {"calloc", "event_new", "event_add"}
INVARIANTS
    WatchedUnlessReused
    FreedUseNeedsEnd
PROPERTIES
    Reclaimed
CHECK_DEADLOCK FALSE
