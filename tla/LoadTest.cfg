SPECIFICATION FairSpec
CONSTANTS
    Clients = {c1, c2}
    MaxConns = 2
    Threads = {t1, t2}
    NoThread = NoThread
    Processors <- MCProcessors
    Failing <- MCFailing
    Faults = {"poll", "accept", "logger", "malloc", "thread", "server", "stdio"}
INVARIANTS TypeOK SameScript SpinsOnlyUntold
PROPERTIES Heeded TestEnds
CHECK_DEADLOCK FALSE
