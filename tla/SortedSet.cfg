CONSTANTS
    Members <- ThreeMembers
    Scores <- TwoScores
    MaxHeight = 3
    MaxOps = 6
SPECIFICATION Spec
INVARIANTS TypeOK WellFormed MembersListed GapsExactUntilSkewed RanksExactUntilSkewed
PROPERTIES OnlyRescoringDisagrees SkewedMiscounts
CHECK_DEADLOCK FALSE
