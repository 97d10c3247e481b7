SPECIFICATION Spec
CONSTANTS
    Children = {c1}
    Parent = parent
    Conns = {k1, k2, k3}
    NoConn = NoConn
    Stdin = Stdin
    MaxConnections = 3
    Fds = {0, 5, 6, 7}
    Body = 1
    SizeMax = 7
    MaxSignals = 2
    Platform = "macos"
    Faults = {"getpeername", "malloc", "accept", "sendmsg"}
SYMMETRY Interchangeable
INVARIANTS OrphansOnlyBySignal NoCircularWait
CHECK_DEADLOCK FALSE
