CONSTANTS
    n1 = n1
    n2 = n2
    n3 = n3
    m1 = m1
    m2 = m2
    Node <- Nodes
    LocalNodes <- LocalNode
    Receivers = 2
    Uround <- Urounds
    Round <- Rounds
    Instance <- OneInstance
    Pre = 1
    Reader <- Readers
    Payload <- Payloads
    Calls <- ThreeCalls
    BadCalls <- OneBadCall
    Traffic <- TwoMessages
    Listening <- OneListener
SPECIFICATION OneSpec
CHECK_DEADLOCK FALSE
INVARIANTS QuietMeansReturned NothingLost SameCoin AskedEnough
PROPERTIES CallsReturn Delivered
