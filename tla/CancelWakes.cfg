SPECIFICATION Spec
CONSTANTS
    Waiters = {w1}
    MaxDuration = 2
    LastStart = 1
INVARIANT CancelWakesWaiters
CHECK_DEADLOCK FALSE
