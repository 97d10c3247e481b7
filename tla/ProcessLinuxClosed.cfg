SPECIFICATION FairSpec
CONSTANTS
    Children = {c1, c2}
    Parent = parent
    Conns = {k1, k2}
    NoConn = NoConn
    Stdin = Stdin
    MaxConnections = 2
    Fds = {0, 5, 6}
    Body = 1
    SizeMax = 7
    MaxSignals = 0
    Platform = "linux"
    Faults = {}
PROPERTY Freed
CHECK_DEADLOCK FALSE
