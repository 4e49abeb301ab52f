CONSTANT
    Installations <- SharedCopy
SPECIFICATION Spec
PROPERTIES WritesOneCopy
