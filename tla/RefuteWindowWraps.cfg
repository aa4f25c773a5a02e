SPECIFICATION Spec
CONSTANTS
    SerialModulus = 8
    DefaultHandleMax = 1
    StartWindow = 1
    Unset = Unset
    Null = Null
    FirstId = 6
    Window = 2
    InitialCount = 0
    Modes <- MCModes
    Grants <- MCGrants
    Eager = FALSE
    MaxInFlight = 1
CHECK_DEADLOCK FALSE
INVARIANT WindowsAgree
