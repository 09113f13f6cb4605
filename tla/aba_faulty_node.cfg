CONSTANTS
    n1 = n1
    n2 = n2
    n3 = n3
    n4 = n4
    None = None
    Node <- FourNodes
    Faulty <- OneNode
    Crashed <- NoNode
    T = 1
    Rounds <- ThreeRounds
SPECIFICATION FaultySpec
SYMMETRY Symmetry
CHECK_DEADLOCK FALSE
CONSTRAINT FirstRound
INVARIANTS RoundAgreement Locked Validity
PROPERTY AgreesOnOne
