SPECIFICATION ScheduleFairSpec
CONSTANTS
    Delays = 1
    None = None
    Answers = {failed}
    Unwritten = {}
    Day = 2
    SweepHours = 1
    MaxSetBack = 1
    MaxFaults = 1
    MaxPairings = 2
    MaxRestarts = 1
INVARIANTS OtherJournalNeverDelays BackoffHeld
PROPERTIES Paced Retried NoLostWake ShutdownEnds
