CONSTANTS
    MaxSegSize = 4
    Strategy = "ALWAYS"
    Faults <- WritesFail
    PruneWorker = FALSE
    Readers = {}
    StartLsns <- FromTheStart
    MaxRows = 2
    MaxCheckpoints = 0
    MaxStops = 1
SPECIFICATION Spec
INVARIANTS AckedOnDisk
CHECK_DEADLOCK FALSE
