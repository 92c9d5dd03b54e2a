SPECIFICATION Spec
CONSTANTS
    Keys = {1, 2, 3, 4}
    SIZE_OF_SSTABLE = 3
    Plans <- Clients
INVARIANTS TypeOK ListedReadsBack EveryFifthForgotten JobsGroupOverlaps
CHECK_DEADLOCK FALSE
