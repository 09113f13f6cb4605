CONSTANTS
    n1 = n1
    n2 = n2
    n3 = n3
    n4 = n4
    r1 = r1
    r2 = r2
    None = None
    Node <- FourNodes
    Faulty <- OneNode
    Crashed <- NoNode
    Committee <- FourNodes
    Result <- TwoResults
    T = 1
    Kappa = 4
    Epsilon = 0
    JoinSize = 3
SPECIFICATION FaultySpec
CHECK_DEADLOCK FALSE
INVARIANTS Signing SettledReturn Backed
PROPERTIES AgreesOnOne Termination
