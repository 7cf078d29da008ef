SPECIFICATION FairSpec
CONSTANTS
    MaxCommands = 3
    Capacity = 1
INVARIANTS
    TypeOK
    BusyHasCause
    FramesAreOwed
    PatientClientIsServed
PROPERTIES
    TriggerIsServed
    ServerStops
    FrameIsNoted
CHECK_DEADLOCK FALSE
