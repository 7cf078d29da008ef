SPECIFICATION FairSpec
CONSTANTS
    NoThread = NoThread
    CloseWakes = TRUE
    Apps = {a1}
    ListenerCalls <- SendsOnly
    MaxCalls = 3
PROPERTIES
    SendReturns
CHECK_DEADLOCK FALSE
