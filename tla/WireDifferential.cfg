SPECIFICATION Spec
CONSTANTS
    MinMaxFrameSize = 512
    Mechanisms <- MCMechanisms
    SerialModulus = 536870912
    DefaultHandleMax = 1000000
    MaxFrameSizeDefault = 1000000
    ChannelMaxDefault = 65535
    StartWindow = 1000
    Vectors <- MCVectors
    maxApplicationRounds = 8
    Unset = Unset
    Null = Null
INVARIANT VerdictsAreRight
PROPERTY EndsAsPlanned
CHECK_DEADLOCK FALSE
