SPECIFICATION FairSpec
CONSTANTS
    QueueLength = 2
    FailLimit = 2
    MaxKnob = 0
    RestOps = {"aiStart", "aiCancel"}
    RestModes = {}
    RestSpeeds = {}
    Inputs = {"CW"}
PROPERTY CancelEnds
