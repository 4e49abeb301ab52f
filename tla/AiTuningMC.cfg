CONSTANTS
    Lo <- LoDef
    Hi <- HiDef
    MinStep <- MinStepDef
    MaxDrops = 11
    Serial = FALSE
SPECIFICATION Spec
INVARIANTS Converges TriesInRange
