SPECIFICATION Spec
CONSTANTS
    QueueLength = 1
    FailLimit = 2
    MaxKnob = 1
    RestOps <- StateOps
    RestModes = {"EXIT", "COMPLETE"}
    RestSpeeds = {0}
    Inputs = {"PRESS", "RST"}
INVARIANTS TypeOK StillWhenWaiting OffInMenu NoFeedOnClosedGate
