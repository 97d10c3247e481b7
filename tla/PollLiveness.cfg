SPECIFICATION FairSpec
CONSTANTS
    Conns = {k1, k2, k3}
    NoConn = NoConn
    Stdin = Stdin
    MaxConnections = 2
    Fds = {0, 5, 6}
    Body = 2
    SizeMax = 7
    MaxSignals = 0
    Platform = "macos"
    Faults = {}
INVARIANT ReplyOnlyWhole
PROPERTIES Served Freed
CHECK_DEADLOCK FALSE
