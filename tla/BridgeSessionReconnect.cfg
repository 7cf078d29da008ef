SPECIFICATION Spec
CONSTANTS
    NoFd = NoFd
    NoConn = NoConn
    NoThread = NoThread
    Controllers = {c1}
    Senders = {}
    Fds = {f1, f2}
    MaxGen = 2
    MaxSends = 0
    CloseWakesRecv = TRUE
SYMMETRY Symmetric
INVARIANTS
    ReconnectIsSafe
