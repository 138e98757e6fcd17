CONSTANTS
    snort = snort
    suricata = suricata
    zeek = zeek
    sqli = sqli
    validator0 = validator0
    light0 = light0
    Agent <- MCAgent
    Param <- MCParam
    Value = {0, 1}
    NoVote = NoVote
    AgentsCount = 3
    Node <- MCNode
    Supervised <- MCSupervised
    MaxChain = 4
    MaxRestarts = 1
SYMMETRY Symmetry
SPECIFICATION ReplicasSpec
INVARIANTS ReplicasTypeOK SwitchesDoNotSplit ReplayKeepsVotes ReplayKeepsMajorities
