SPECIFICATION FairSpec
CONSTANTS
    Children = {c1, c2}
    Parent = parent
    Conns = {k1}
    NoConn = NoConn
    Stdin = Stdin
    MaxConnections = 1
    Fds = {0, 5}
    Body = 1
    SizeMax = 7
    MaxSignals = 1
    Platform = "macos"
    Faults = {}
PROPERTY ShutdownCompletes
CHECK_DEADLOCK FALSE
