SPECIFICATION FairSpec
CONSTANTS
    QueueLength = 2
    FailLimit = 2
    MaxKnob = 1
    RestOps = {"chargeState", "aiStart", "gate"}
    RestModes = {"EXIT"}
    RestSpeeds = {}
    Inputs = {"PRESS", "RST"}
PROPERTIES CoarseStaysCut Implements ResetEnds
