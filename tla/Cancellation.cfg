SPECIFICATION FairSpec
CONSTANTS
    Waiters = {w1, w2}
    MaxDuration = 2
    LastStart = 1
INVARIANTS
    OutcomeHolds
PROPERTY WaitEnds
CHECK_DEADLOCK FALSE
