CONSTANTS
    Lo <- LoDef
    Hi <- HiDef
    MinStep <- MinStepDef
    MaxDrops = 10
    Serial = TRUE
SPECIFICATION Spec
INVARIANT RecommendedInRange
