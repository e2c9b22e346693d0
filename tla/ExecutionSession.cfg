SPECIFICATION SessionFairSpec
CONSTANTS
    NumSteps = 2
    MaxAttempts = 2
    NumInstruments = 2
INVARIANTS
    AtMostOneLateStart
    PassedMeansAllPassed
    RunStopsAtFatalStep
    RetryPolicyHonoured
    FailureKindAgrees
    CompletedMeansPassedAndSafe
    CompletionComesLast
    FailureKindNamesPhase
PROPERTIES
    NoReplayAfterLostEffect
    TeardownOrder
    SessionEnds
    KeepsContract
