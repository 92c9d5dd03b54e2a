CONSTANTS
    Starts <- AvlStart
    Unbounded = Unbounded
    Middle = 9
    Above <- NoTrees
    Others <- NoTrees
    Order = 4
    Null = Null
    Crash = Crash
SPECIFICATION Spec
INVARIANTS AssertCorrect
CHECK_DEADLOCK FALSE
