CONSTANTS
    c1 = c1
    c2 = c2
    c3 = c3
    r1 = r1
    r2 = r2
    Profiles <- OneProfile
    MinGain = 2
    MaxGain = 4
    Size = 3
    Front = 2
    Enough = 2
    MaxCharges = 4
    MaxRequests = 2
    MaxFailures = 1
    MaxLosses = 1
    Table <- TwoProfiles
    MaxEdits = 2
    MaxSelects = 2
    MenuProfiles <- TwoProfiles
    Numbers <- OneNumber
    Requested <- OneRequested
    Room = 1
    MaxVersions = 1
    MaxMenuRequests = 2
    Clients <- ThreeClients
    Addresses = 2
    Lease = 5
    Block = 3
    Wrap = 18
    MaxClock = 27
    Framings = {"line", "header", "checked", "polled"}
    Fifo = 2
    Apart = 8
    Late = FALSE
    MaxFrames = 6
    Reporters <- TwoReporters
    LogSize = 2
    MaxReports = 4
    MaxCalls = 2
SPECIFICATION MCSpec
CHECK_DEADLOCK FALSE
INVARIANTS
    FlashIsCurrent HoldsLatest SuggestionFits ReadsWhole
    OneHolder WholeFrames ShowsTheLatest
PROPERTIES TargetAsShown RunsWhatWasAsked SavesWhereLoaded
