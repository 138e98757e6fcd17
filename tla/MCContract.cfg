CONSTANTS
    member0 = member0
    member1 = member1
    member2 = member2
    sqli = sqli
    xss = xss
    Agent <- MCAgent
    Param <- MCParam
    Value = {0, 1, 2}
    NoVote = NoVote
    NoAction = NoAction
    AgentsCount = 3
SYMMETRY Symmetry
SPECIFICATION Spec
INVARIANTS TypeOK ActionMatchesState
PROPERTIES CountsAsLedger ImplementsMajorityVote
