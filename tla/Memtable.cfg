CONSTANTS
    Starts <- FourIndexes
    Unbounded = Unbounded
    Middle = 9
    Above <- UpperTrees
    Others <- MixedTrees
    Order = 4
    Null = Null
    Crash = Crash
SPECIFICATION Spec
INVARIANTS TypeOK Ordered FindAndScanRight JoinSound  RedBlackJoinsRight
PROPERTIES InsertionKeepsBalance EraseLeastKeepsBalance EraseKeepsBalance EraseTakesOneKey
CHECK_DEADLOCK FALSE
