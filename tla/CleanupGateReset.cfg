CONSTANTS
    Callers = {menu, httpd}
    Menu = menu
    Powered = "open"
    Slow = TRUE
    MaxCalls = 4
SPECIFICATION SpecMenu
INVARIANT ClosedAfterCleanup
CHECK_DEADLOCK FALSE
