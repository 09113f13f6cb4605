CONSTANTS
    n1 = n1
    n2 = n2
    n3 = n3
    n4 = n4
    None = None
    Node <- TwoNodes
    Faulty <- NoNode
    Crashed <- NoNode
    T = 0
    Rounds <- TwoRounds
SPECIFICATION FairSpec
CHECK_DEADLOCK FALSE
PROPERTY Proceeds
