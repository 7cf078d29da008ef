SPECIFICATION Spec
CONSTANTS
    NoFd = NoFd
    NoConn = NoConn
    NoThread = NoThread
    Controllers = {c1, c2}
    Senders = {}
    Fds = {f1, f2, f3}
    MaxGen = 2
    MaxSends = 0
    CloseWakesRecv = FALSE
SYMMETRY Symmetric
INVARIANTS
    TypeOK
    DescriptorsHaveOneOwner
    OneErrorPerAttempt
    DisconnectLeavesNothing
    FailedConnectLeavesNothing
    RunningIsServed
PROPERTIES
    ImplementsSession
