SPECIFICATION IndicatorSpec
CONSTANTS
    None = None
    Texts = {t1}
    Lengths = {10}
    ConfText = t1
    ConfLength = 10
    MaxServers = 1
    MaxEdits = 0
    MaxFaults = 0
    MaxRuns = 2
INVARIANT CleanStopRestores
CHECK_DEADLOCK FALSE
