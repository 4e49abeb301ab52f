CONSTANTS
    c1 = c1
    c2 = c2
    Conns <- TwoConns
    Endpoints <- TuningEndpoints
    BufferOf <- OneBuffer
    Pages <- OnePage
    Heap = 4
    Parts = 3
    SendBuffer = 2
    MaxWrite = 2
    MaxRetries = 2
    MaxComposed = 2
    MaxFailed = 1
    Handlers <- TwoHandlers
    Keys <- OneKey
    Symbols <- FourSymbols
    MaxUri = 11
    MaxParams = 2
    MaxSent = 3
    MaxChars = 2
    CoarseTicks = 40
    FineTicks = 50
    MaxStarts = 2
SPECIFICATION MCSpec
CHECK_DEADLOCK FALSE
INVARIANTS OneAnswer RequestArrives
PROPERTIES ExecutedOnce EveryConnectionEnds SimCharges
