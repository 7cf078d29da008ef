SPECIFICATION FairSpec
CONSTANTS
    RegCount = 1
    Apps = {a1}
    NoThread = NoThread
    UpCapacity = 1
    DownCapacity = 4
    ControlBits = {}
    CloseWakes = TRUE
    MaxSends = 3
    MaxFrames = 1
    MaxFaults = 1
INVARIANTS
    TypeOK
    CommandsArriveInOrder
    AnswersAreTold
    ErrorHasCause
PROPERTIES
    SendsReturn
    CommandsAreAnswered
CHECK_DEADLOCK FALSE
