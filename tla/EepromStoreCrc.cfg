CONSTANT
    Installations <- Unchecked
SPECIFICATION Spec
PROPERTIES EveryRecordLoadsWhole
