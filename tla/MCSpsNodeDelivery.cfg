CONSTANTS
    snort = snort
    suricata = suricata
    light0 = light0
    sqli = sqli
    xss = xss
    r1 = r1
    r2 = r2
    r3 = r3
    validator0 = validator0
    validator1 = validator1
    Agent <- MCAgent
    Value = {0, 1}
    NoVote = NoVote
    AgentsCount = 1
    NodeAgent = light0
    NoVotes = NoVotes
    Param = {sqli}
    Request <- DeliveryRequest
    Batch <- DeliveryBatch
    StressBallot <- DeliveryStress
    Validator = {validator0, validator1}
    QueueCap = 1
    Permits = 2
    MaxGone = 1
    MaxLost = 1
    MaxCrashes = 1
SPECIFICATION Spec
INVARIANT NoVoteLost
PROPERTY AcceptedIsCommitted
CHECK_DEADLOCK FALSE
