SPECIFICATION FairSpec
CONSTANTS
    Children = {c1}
    Parent = parent
    Conns = {k1, k2, k3}
    NoConn = NoConn
    Stdin = Stdin
    MaxConnections = 2
    Fds = {0, 5, 6}
    Body = 1
    SizeMax = 7
    MaxSignals = 0
    Platform = "macos"
    Faults = {}
PROPERTIES Served Reenabled Freed
CHECK_DEADLOCK FALSE
