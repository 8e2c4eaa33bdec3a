CONSTANTS
    Confirms = {c1, c2}
    None = None
    MaxSetups = 2
    MaxConfirms = 2
    MaxCrashes = 1
SPECIFICATION FairSpec
INVARIANTS SendsOnlyAccepted RetiredNeverSaved
PROPERTIES ConfirmedYieldsToOwner ConfirmedIsTakenUp
CHECK_DEADLOCK FALSE
