SPECIFICATION VtySpec
CONSTANTS
    Terminal <- MCTerminal
    Printable = {"[", "A", "B", "C", "D", "b", "d", "f", " "}
    max = 4
    VTY_HIST_CMD_SIZE = 2
    TELNET_NAWS_SB_LEN = 2
    NUL = NUL
INVARIANTS
    
    HistoryExact
    ChunkingInvisible
CHECK_DEADLOCK FALSE
