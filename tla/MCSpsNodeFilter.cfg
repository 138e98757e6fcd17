CONSTANTS
    snort = snort
    suricata = suricata
    light0 = light0
    sqli = sqli
    xss = xss
    r1 = r1
    r2 = r2
    r3 = r3
    validator0 = validator0
    validator1 = validator1
    Agent <- MCAgent
    Value = {0, 1}
    NoVote = NoVote
    AgentsCount = 1
    NodeAgent = light0
    NoVotes = NoVotes
    Param = {sqli, xss}
    Request <- FilterRequest
    Batch <- FilterInput
    StressBallot <- FilterStress
    Validator = {validator0}
    QueueCap = 1
    Permits = 1
    MaxGone = 1
    MaxLost = 0
    MaxCrashes = 0
SYMMETRY FilterSymmetry
SPECIFICATION Spec
INVARIANTS TypeOK ForwardedOncePerStep
CHECK_DEADLOCK FALSE
