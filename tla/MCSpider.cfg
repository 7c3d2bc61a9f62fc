SPECIFICATION Spec
CONSTANTS
    Stocks <- MCStocks
    Price = {0, 1, 2}
    Limit <- MCLimit
    Failure = {"load", "alloc", "query", "fetch", "null", "exe"}
    MaxStarts = 2
    MaxChecks = 2
    MaxLosses = 1
INVARIANTS
    AlertsAlternate
    
    
CHECK_DEADLOCK FALSE
