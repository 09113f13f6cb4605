CONSTANTS
    n1 = n1
    n2 = n2
    n3 = n3
    n4 = n4
    None = None
    Node <- FourNodes
    Faulty <- NoNode
    Crashed <- NoNode
    T = 1
    Rounds <- TwoRounds
SPECIFICATION SplitSpec
CHECK_DEADLOCK FALSE
PROPERTY Termination
