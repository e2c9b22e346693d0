SPECIFICATION Spec
CONSTANTS
    Subscriptions = {s1, s2}
    MaxEvents = 2
    NumDrivers = 2
    MaxAttempts = 2
    MaxDepth = 3
SYMMETRY Symmetry
INVARIANTS
    OrderedOnce
    LossReachesRoot
PROPERTIES
    NobodyMissed
    NothingAfterLoss
    ShutdownReachesDriver
