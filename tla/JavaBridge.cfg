SPECIFICATION FairSpec
CONSTANTS
    NoThread = NoThread
    CloseWakes = TRUE
    Apps = {a1, a2}
    ListenerCalls <- AllCalls
    MaxCalls = 3
INVARIANTS
    TypeOK
    LateCallsAreRefused
    CloseLeavesNothing
    CallbacksAreClean
    AbortHasCause
PROPERTIES
    ImplementsSession
    CallsReturn
    ErrorIsTold
CHECK_DEADLOCK FALSE
