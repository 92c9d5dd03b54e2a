SPECIFICATION FairSpec
CONSTANTS
    Width = 4
    Upper <- Uppercase
    Sessions <- Clients
    Null = Null
    Crash = Crash
    TreeSearch <- AvlSearch
    TreeInsertion <- AvlInsertion
    TreeDeletion <- AvlDeletion
    TreeInOrder <- AvlInOrder
    TreeCorrect <- AvlCorrect
INVARIANTS TypeOK
PROPERTIES CommandsAnswered RepliesTellChange TypesKept ExceptionsEscape
CHECK_DEADLOCK FALSE
