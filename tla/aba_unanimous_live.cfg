CONSTANTS
    n1 = n1
    n2 = n2
    n3 = n3
    n4 = n4
    None = None
    Node <- FourNodes
    Faulty <- NoNode
    Crashed <- OneNode
    T = 1
    Rounds <- TwoRounds
SPECIFICATION UnanimousSpec
CHECK_DEADLOCK FALSE
INVARIANTS UnanimousDecide
PROPERTY Termination
