SPECIFICATION Spec
CONSTANTS
    MinMaxFrameSize = 2
    m1 = m1
    m2 = m2
    Mechanisms <- MCMechanisms
    Offered <- MCOffered
    FirstLayers <- BothLayers
    Pipelined = FALSE
    MaxInFlight = 2
    MaxChallenges = 2
CHECK_DEADLOCK FALSE
INVARIANTS
    TypeOK
    NothingRefused
    LimitsAgree
    EndHearsNothing
    DialoguesAgree
    AuthenticatedTogether
PROPERTIES
    ImplementsHandshake
    BothOpen
    CloseCompletes
