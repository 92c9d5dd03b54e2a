CONSTANTS
    MaxSegSize = 3
    Strategy = "ALWAYS"
    Faults <- WritesAndPowerFail
    PruneWorker = TRUE
    Readers = {r1}
    StartLsns <- FromTheMiddle
    MaxRows = 3
    MaxCheckpoints = 0
    MaxStops = 1
SPECIFICATION Spec
INVARIANTS RowLsnUnique RowsBelowNext
PROPERTIES UnreadStaysReadable
