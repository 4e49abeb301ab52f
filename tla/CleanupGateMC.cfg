CONSTANTS
    Callers = {menu, httpd}
    Menu = menu
    Powered = "open"
    Slow = TRUE
    MaxCalls = 4
SPECIFICATION FairSpecMenu
INVARIANTS TypeOK AtRestAsCommanded ClosedUnlessEarly
PROPERTIES WaitMeansThere EveryCallReturns
CHECK_DEADLOCK FALSE
