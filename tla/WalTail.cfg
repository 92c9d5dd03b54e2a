CONSTANTS
    MaxSegSize = 3
    Strategy = "ALWAYS"
    Faults <- NoFaults
    PruneWorker = FALSE
    Readers = {r1}
    StartLsns <- FromTheMiddle
    MaxRows = 5
    MaxCheckpoints = 0
    MaxStops = 2
SPECIFICATION FairSpec
INVARIANTS TypeOK AckedReadable LogContiguous ReaderMissesNoRow
PROPERTIES SealedSegmentsTakeNoRows TailDelivers NextReturns
