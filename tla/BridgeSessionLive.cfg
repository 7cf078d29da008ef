SPECIFICATION FairSpec
CONSTANTS
    NoFd = NoFd
    NoConn = NoConn
    NoThread = NoThread
    Controllers = {c1}
    Senders = {}
    Fds = {f1, f2}
    MaxGen = 1
    MaxSends = 0
    CloseWakesRecv = TRUE
PROPERTIES
    DisconnectReturns
    FailureIsReported
    FailureStopsBoth
