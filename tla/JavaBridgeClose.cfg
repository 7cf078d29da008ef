SPECIFICATION Spec
CONSTANTS
    NoThread = NoThread
    CloseWakes = TRUE
    Apps = {a1, a2}
    ListenerCalls <- NoCalls
    MaxCalls = 2
INVARIANTS
    DestroyedContextIsNotUsed
CHECK_DEADLOCK FALSE
