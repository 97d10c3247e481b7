SPECIFICATION FairSpec
CONSTANTS
    Conns = {k1, k2}
    NoConn = NoConn
    Stdin = Stdin
    Fds = {0, 5, 6}
    Body = 2
    MaxSignals = 2
    Platform = "linux"
    Faults = {"abort", "reset", "accept", "malloc"}
INVARIANTS TypeOK ReplyOnlyWhole StatusTellsWhy
PROPERTIES ImplementsTable Stops Served
CHECK_DEADLOCK FALSE
