SPECIFICATION Spec
CONSTANTS
    Versions = {v1, v2}
    MaxBuilds = 1
INVARIANT FailureIsRetriable
