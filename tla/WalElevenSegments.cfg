CONSTANTS
    MaxSegSize = 3
    Strategy = "ALWAYS"
    Faults <- NoFaults
    PruneWorker = FALSE
    Readers = {}
    StartLsns <- FromTheStart
    MaxRows = 22
    MaxCheckpoints = 0
    MaxStops = 1
SPECIFICATION Spec
INVARIANTS AckedReadable
CHECK_DEADLOCK FALSE
