CONSTANT MaxCharges = 2
SPECIFICATION EventsSpec
CHECK_DEADLOCK FALSE
INVARIANT NoEventLost
