CONSTANTS
    Callers = {c1, c2}
    MaxTriggers = 3
    MaxDials = 3
SPECIFICATION FairSpec
INVARIANTS LaneOwnsItsPass NoManufacturedBursts
PROPERTIES FollowUpHappens BurstEnds
CHECK_DEADLOCK FALSE
