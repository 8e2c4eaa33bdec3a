SPECIFICATION Spec
CONSTANTS
    None = None
    Names = {1, 2}
    Bytes = {a, b, c}
    LongBytes = {c}
    Captured = {a}
    MaxPublishes = 1
    MaxPairings = 1
    MaxEdits = 1
    MaxFaults = 1
    MaxKills = 1
INVARIANTS RemovalResumable
PROPERTIES ReleasedOnlyWithCustody
