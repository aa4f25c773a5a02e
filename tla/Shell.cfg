SPECIFICATION Spec
CONSTANTS
    MinMaxFrameSize = 1
    Mechanisms <- MCMechanisms
    App <- MCApp
    Programs <- MCPrograms
    Runs <- MCRuns
    maxApplicationRounds = 2
    SocketBuffer = 2
CHECK_DEADLOCK FALSE
INVARIANTS
    TypeOK
    CloseLastOnWire
PROPERTIES
    GoneTogether
    ShippedExit
