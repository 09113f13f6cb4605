CONSTANTS
    n1 = n1
    n2 = n2
    n3 = n3
    n4 = n4
    v1 = v1
    v2 = v2
    NoValue = NoValue
    Node <- Nodes
    Faulty <- NoNode
    Crashed <- OneNode
    Committee <- SomeNodes
    Sender = n1
    Value <- TwoValues
    T = 1
    Kappa = 4
    Epsilon = 0
SPECIFICATION FairSpec
CHECK_DEADLOCK FALSE
INVARIANTS Validity QuietMeansDone
PROPERTY Termination
