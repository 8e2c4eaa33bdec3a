SPECIFICATION FairSpec
CONSTANTS
    Session = {s1, s2}
    Activity = activity
    MaxFrames = 3
    MaxActs = 2
    Interval = 2
    MaxElapsed = 3
    MaxFaults = 4
INVARIANTS
    TypeOK
    AckedSurvives
    ZoneBeforeMetaRemoved
    MetadataConsistent
PROPERTIES
    RenamesExact
    Settles
