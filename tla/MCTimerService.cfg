SPECIFICATION Spec
CONSTANTS
    File = {1, 2}
    Line <- MCLine
    Minutes = 2
    Days = 3
    Week = 2
    MINUTE = 2
    HOUR = 6
    MaxTime = 12
    Failure = {"vfork", "exec"}
INVARIANTS
    EveryMinuteOnce
    RunningIsWatched

    
CHECK_DEADLOCK FALSE
