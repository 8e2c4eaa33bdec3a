SPECIFICATION FairSpec
CONSTANTS
    None = None
    Names = {1, 2}
    Bytes = {a, b}
    LongBytes = {}
    Captured = {a, b}
    MaxPublishes = 2
    MaxPairings = 2
    MaxEdits = 0
    MaxFaults = 0
    MaxKills = 1
INVARIANTS AckTruthful
PROPERTIES Transfers
