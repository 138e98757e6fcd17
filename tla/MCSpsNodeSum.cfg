CONSTANTS
    snort = snort
    suricata = suricata
    light0 = light0
    sqli = sqli
    xss = xss
    r1 = r1
    r2 = r2
    r3 = r3
    validator0 = validator0
    validator1 = validator1
    Agent <- SumAgent
    Value = {0, 1, 2}
    NoVote = NoVote
    AgentsCount = 3
    NodeAgent = light0
    NoVotes = NoVotes
    Param = {sqli}
    Request <- DeliveryRequest
    Batch <- SumBatch
    StressBallot = {}
    Validator = {validator0}
    QueueCap = 2
    Permits = 2
    MaxGone = 0
    MaxLost = 0
    MaxCrashes = 0
SPECIFICATION Spec
INVARIANT DetectionIsConfirmed
CHECK_DEADLOCK FALSE
