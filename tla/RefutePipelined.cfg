SPECIFICATION Spec
CONSTANTS
    MinMaxFrameSize = 2
    m1 = m1
    m2 = m2
    Mechanisms <- MCMechanisms
    Offered <- MCAmqp
    FirstLayers <- OneLayer
    Pipelined = TRUE
    MaxInFlight = 2
    MaxChallenges = 0
CHECK_DEADLOCK FALSE
PROPERTY BothOpen
