SPECIFICATION Spec
CONSTANTS
    NoFd = NoFd
    NoConn = NoConn
    NoThread = NoThread
    Controllers = {c1}
    Senders = {s1, s2}
    Fds = {f1, f2}
    MaxGen = 1
    MaxSends = 1
    CloseWakesRecv = FALSE
SYMMETRY Symmetric
INVARIANTS
    PacketsNeverInterleave
