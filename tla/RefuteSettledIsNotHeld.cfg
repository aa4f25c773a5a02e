SPECIFICATION Spec
CONSTANTS
    SerialModulus = 4
    DefaultHandleMax = 1
    StartWindow = 1
    Unset = Unset
    Null = Null
    Sends <- MCSends
    Receives <- MCReceives
    MaxDeliveries = 2
PROPERTY SettledIsNotHeld
