SPECIFICATION Spec
CONSTANTS
    Runs = {r1, r2}
    NoRun = NoRun
    Children = {c1, c2}
    Budget = 4
    Cost <- MCCost
SYMMETRY Interchangeable
INVARIANTS TypeOK  LocksConserved NamesLeftByFailure OrphansAccountedFor KillsOnlyChildren LogAccounts
CHECK_DEADLOCK FALSE
