CONSTANTS
    None = None
    N = 4
    T = 1
    Kappa = 2
SPECIFICATION LateSpec
CHECK_DEADLOCK FALSE
INVARIANTS QuietMeansBlocks PointersBacked SignedStay EveryoneServed
PROPERTIES AgreesOnOne RoundEnds
