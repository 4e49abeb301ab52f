CONSTANTS
    Callers = {charge, httpd, timer}
    Velocities <- ForwardStopBack
    QueueDepth = 2
    Inverted = FALSE
    MaxCalls = 4
    Selections <- AnySelection
    Overlap = FALSE
SPECIFICATION MCSpec
INVARIANTS TypeOK LatestCommandWins TurnsAsCommanded PulseEnds EnableRestored
PROPERTIES TurnOnlyAtStandstill Settles
CHECK_DEADLOCK FALSE
