CONSTANTS
    Confirms = {c1, c2}
    None = None
    MaxSetups = 1
    MaxConfirms = 2
    MaxCrashes = 1
SPECIFICATION Spec
INVARIANTS DeniedStaysUnpaired
CHECK_DEADLOCK FALSE
