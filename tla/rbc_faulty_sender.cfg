CONSTANTS
    n1 = n1
    n2 = n2
    n3 = n3
    n4 = n4
    v1 = v1
    v2 = v2
    NoValue = NoValue
    Node <- Nodes
    Faulty <- OneNode
    Crashed <- NoNode
    Committee <- Nodes
    Sender = n4
    Value <- TwoValues
    T = 1
    Kappa = 4
    Epsilon = 0
SPECIFICATION MCSpec
SYMMETRY Symmetry
CHECK_DEADLOCK FALSE
INVARIANTS TypeOK ReadyAgreement Certification
PROPERTY AgreesOnOne
