CONSTANTS
    Callers = {charge, httpd, timer}
    Velocities <- ForwardStopBack
    QueueDepth = 2
    Inverted = FALSE
    MaxCalls = 4
    Selections <- OneMotor
    Overlap = FALSE
SPECIFICATION MCSpec
INVARIANTS EnabledInMode
CHECK_DEADLOCK FALSE
