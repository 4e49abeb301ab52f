CONSTANTS
    Framings = {"polled"}
    Fifo = 2
    Apart = 100
    Late = TRUE
    MaxFrames = 3
SPECIFICATION ScaleLinkSpec
CHECK_DEADLOCK FALSE
INVARIANT WholeFrames
