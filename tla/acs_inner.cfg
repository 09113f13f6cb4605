CONSTANTS
    n1 = n1
    n2 = n2
    n3 = n3
    n4 = n4
    v1 = v1
    v2 = v2
    v3 = v3
    Nil = Nil
    Node <- FourNodes
    Up <- FourNodes
    T = 1
    Value <- ThreeValues
SPECIFICATION Spec
SYMMETRY Symmetry
CHECK_DEADLOCK FALSE
INVARIANTS TypeOK NoNilShare NoRival NotifyNeverBlocks
