SPECIFICATION IndicatorSpec
CONSTANTS
    None = None
    Texts = {t1, t2}
    Lengths = {10, 11}
    ConfText = t1
    ConfLength = 10
    MaxServers = 2
    MaxEdits = 1
    MaxFaults = 1
    MaxRuns = 2
INVARIANTS OwnerTextKept WholeInstallTakenBack
PROPERTY CellFollowsWork
CHECK_DEADLOCK FALSE
