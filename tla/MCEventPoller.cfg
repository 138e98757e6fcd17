CONSTANTS
    poll1 = poll1
    poll2 = poll2
    poll3 = poll3
    Poll <- MCPoll
    MaxBlocks = 3
    MaxFailures = 1
    MaxConcurrentTx = 1
    MaxRetries = 1
    MaxQueueLength = 1
    Stress = {3}
    MaxReqs = 3
    MaxFaults = 1
SPECIFICATION MCSpec
INVARIANTS
    TypeOK
    NothingSkipped
    SenderTypeOK
    NoNonceSkipped
    NotTwice
PROPERTIES
    EventuallyForwarded
    SendsEnd
CHECK_DEADLOCK FALSE
