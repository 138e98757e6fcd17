CONSTANTS
    snort = snort
    suricata = suricata
    zeek = zeek
    sqli = sqli
    xss = xss
    Agent <- MCAgent
    Param <- MCParam
    Value <- MCValue
    NoVote = NoVote
    AgentsCount = 3
    MaxTxs = 7
SYMMETRY Symmetry
SPECIFICATION Spec
INVARIANTS TypeOK TallyMatchesVotes MajorityIsConfirmed AttackStateAnnounced
PROPERTIES OnlyMajorityConfirms ImplementsMajorityVote
