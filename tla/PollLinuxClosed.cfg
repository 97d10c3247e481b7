SPECIFICATION Spec
CONSTANTS
    Conns = {k1, k2}
    NoConn = NoConn
    Stdin = Stdin
    MaxConnections = 2
    Fds = {0, 5, 6}
    Body = 2
    SizeMax = 7
    MaxSignals = 0
    Platform = "linux"
    Faults = {}
INVARIANT ClosedClientsHarmless
CHECK_DEADLOCK FALSE
