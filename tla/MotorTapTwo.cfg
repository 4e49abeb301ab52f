CONSTANTS
    Callers = {charge, httpd, timer}
    Velocities <- ForwardStopBack
    QueueDepth = 2
    Inverted = FALSE
    MaxCalls = 4
    Selections <- EachMotor
    Overlap = TRUE
SPECIFICATION MCSpec
INVARIANTS PulseEnds
CHECK_DEADLOCK FALSE
