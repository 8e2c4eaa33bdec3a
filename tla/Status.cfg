SPECIFICATION StatusFairSpec
CONSTANTS
    None = None
    MaxRuns = 2
INVARIANTS WorkUnderLocks CloseAfterSync HonestExit LiveMeansRunning UpMeansHeard
PROPERTIES Exits
CHECK_DEADLOCK FALSE
