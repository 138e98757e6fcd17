CONSTANTS
    sqli = sqli
    xss = xss
    a1 = a1
    a2 = a2
    a3 = a3
    NumValidators = 3
    NumLights = 3
    NumMembers = 4
    GroupSize = 3
    MaxRuns = 2
    Type = {sqli, xss}
    Rank <- TypeRank
    Line <- Lines
    Worker = {w1, w2}
    QueueCap = 1
    BatchCap = 2
    Tries = 2
    MaxLines = 2
    Agent = {a1, a2, a3}
    Param = {sqli}
    Value = {0, 1}
    NoVote = NoVote
    AgentsCount = 3
    Detectors <- Pairs
    MaxAttacks = 2
    MaxTroubles = 1
SPECIFICATION Spec
INVARIANTS
    LabTypeOK
    GeneratedIsWhole
    FollowersAgree
    NodesConnect
    ForwarderTypeOK
    Accounted
    TriesAreSpent
    ResponseTypeOK
PROPERTIES
    AllStart
    EveryAlertSettles
    ImplementsRelay
    ResetHasCause
    AttacksAreAnswered
    ReturnsToSafe
CHECK_DEADLOCK FALSE
