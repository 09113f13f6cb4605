CONSTANTS
    v0 = v0
    v1 = v1
    None = None
    N = 3
    Crashed <- LastNode
    T = 1
    Kappa = 3
    Value <- TwoValues
    FreeRounds = 3
SPECIFICATION OneSpec
CHECK_DEADLOCK FALSE
INVARIANTS TypeOK OutputIsFirst Certified NeverStuckInStep
PROPERTIES AgreesOnOne TerminationInStep
