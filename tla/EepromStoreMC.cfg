CONSTANT
    Installations <- KindsEditsPair
SPECIFICATION Spec
INVARIANTS SavedStays
PROPERTIES NoRollback CheckedLoadsWhole EveryRequestEnds
