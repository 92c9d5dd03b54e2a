CONSTANTS
    MaxSegSize = 3
    Strategy = "ALWAYS"
    Faults <- NoFaults
    PruneWorker = FALSE
    Readers = {r1}
    StartLsns <- FromTheStart
    MaxRows = 2
    MaxCheckpoints = 1
    MaxStops = 0
SPECIFICATION Spec
INVARIANTS ReaderMissesNoRow
