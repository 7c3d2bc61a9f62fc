SPECIFICATION MCSpec
CONSTANTS
    MaxInflight = {1, 2}
    SendMaximum = {1, 2}
    max_queued_messages = 1
    MaxLost = 2
    MaxPublish = 3
INVARIANTS
    ForwardedExactly
    
    

    
CHECK_DEADLOCK FALSE
