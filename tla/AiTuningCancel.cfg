CONSTANTS
    Lo <- LoDef
    Hi <- HiDef
    MinStep <- MinStepDef
    MaxDrops = 10
    Serial = FALSE
SPECIFICATION Spec
INVARIANT StaysCancelled
