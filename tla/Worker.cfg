SPECIFICATION FairSpec
CONSTANTS
    Instances = {"command", "driver"}
    Entry = {"command"}
    Targets = {"driver", "device"}
    MaxDepth = 3
    MaxCompleted = 2
    MaxRequests = 3
    MaxAwaited = 2
    MaxCalls = 3
INVARIANTS
    PeersAgree
    IdleIsQuiet
    WorkIsAwaited
    OutcomeIsTrue
    ExitIsClean
PROPERTIES
    InterruptedStartsNothing
    CallsEnd
CHECK_DEADLOCK FALSE
