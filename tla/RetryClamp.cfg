SPECIFICATION ClampSpec
CONSTANTS
    Delays = 1
    None = None
    Answers = {failed}
    Unwritten = {}
    Day = 2
    SweepHours = 0
    MaxSetBack = 1
    MaxFaults = 0
    MaxPairings = 1
    MaxRestarts = 0
INVARIANTS WaitClamped
