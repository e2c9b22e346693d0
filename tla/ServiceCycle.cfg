SPECIFICATION Spec
CONSTANTS
    Instances = {"command", "driver"}
    Entry = {"command"}
    Targets = {"driver"}
    MaxDepth = 3
    MaxCompleted = 1
    MaxRequests = 4
    MaxAwaited = 1
    MaxCalls = 3
INVARIANT CyclesAreRejected
CHECK_DEADLOCK FALSE
