SPECIFICATION Spec
CONSTANTS
    NoFd = NoFd
    NoConn = NoConn
    NoThread = NoThread
    Controllers = {c1}
    Senders = {s1}
    Fds = {f1, f2}
    MaxGen = 2
    MaxSends = 1
    CloseWakesRecv = TRUE
SYMMETRY Symmetric
INVARIANTS
    SendAllIsWhole
