SPECIFICATION FairSpec
CONSTANTS
    SizeMax = 255
    HeaderSize = 2
    MaxHeaderSize = 3
    Formats <- MCFormats
    MaxPayload = 32
    CloseWakes = TRUE
    MaxFrames = 2
INVARIANTS
    TypeOK
    PicturesAreTrue
    FaultsAreNoticed
    BuffersAreBounded
    SoundFramesAreAccepted
PROPERTIES
    PicturesArrive
    WorkerEnds
CHECK_DEADLOCK FALSE
