CONSTANTS
    MaxSegSize = 3
    Strategy = "ALWAYS"
    Faults <- NoFaults
    PruneWorker = FALSE
    Readers = {r1}
    StartLsns <- FromTheStart
    MaxRows = 3
    MaxCheckpoints = 0
    MaxStops = 0
SPECIFICATION FairSpec
PROPERTIES PrunerReclaims
