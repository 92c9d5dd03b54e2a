CONSTANTS
    MaxSegSize = 3
    Strategy = "ALWAYS"
    Faults <- FsyncFails
    PruneWorker = FALSE
    Readers = {}
    StartLsns <- FromTheStart
    MaxRows = 4
    MaxCheckpoints = 2
    MaxStops = 2
SPECIFICATION Spec
INVARIANTS AckedOnDisk DurableLsnHonest
PROPERTIES ImplementsRowLog
CHECK_DEADLOCK FALSE
