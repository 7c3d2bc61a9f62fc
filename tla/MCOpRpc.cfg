SPECIFICATION MCSpec
CONSTANTS
    c1 = c1
    c2 = c2
    Caller <- MCCaller
    Type <- MCType
    Size <- MCSize
    Return <- MCReturn
    Failure = {"hash", "connect", "calloc", "bufferevent", "reset", "short"}
    TIPC_HEADER_SIZE = 2
    RPC_MAX_ELEMENT = 1
    RPC_REQ_SIZE = 4
    RPC_RESPONSE_SIZE = 1
INVARIANTS
    
    UnservedWasCut
    SuccessWasServed
PROPERTIES
    Released
CHECK_DEADLOCK FALSE
