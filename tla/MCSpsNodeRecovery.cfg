CONSTANTS
    snort = snort
    suricata = suricata
    light0 = light0
    sqli = sqli
    xss = xss
    r1 = r1
    r2 = r2
    r3 = r3
    validator0 = validator0
    validator1 = validator1
    Agent <- MCAgent
    Value = {0, 1}
    NoVote = NoVote
    AgentsCount = 1
    NodeAgent = light0
    NoVotes = NoVotes
    Param = {sqli}
    Request <- DeliveryRequest
    Batch <- RecoveryBatch
    StressBallot = {}
    Validator = {validator0}
    QueueCap = 1
    Permits = 1
    MaxGone = 0
    MaxLost = 0
    MaxCrashes = 0
SPECIFICATION Spec
PROPERTY RecoveriesPass
CHECK_DEADLOCK FALSE
