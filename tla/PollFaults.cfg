SPECIFICATION Spec
CONSTANTS
    Conns = {k1, k2, k3}
    NoConn = NoConn
    Stdin = Stdin
    MaxConnections = 2
    Fds = {0, 5, 6}
    Body = 1
    SizeMax = 7
    MaxSignals = 1
    Platform = "linux"
    Faults = {"abort", "reset", "accept", "malloc", "stdin"}
SYMMETRY Interchangeable
INVARIANTS TypeOK TwoArraysOneTable NothingLeftOpen SuccessBetweenMessages
PROPERTY ImplementsTable
CHECK_DEADLOCK FALSE
