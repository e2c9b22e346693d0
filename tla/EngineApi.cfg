SPECIFICATION FairSpec
CONSTANTS
    Hosts = {h1, h2}
    Sessions = {s1, s2}
    MaxRevision = 2
    MaxCatalog = 2
INVARIANTS
    LeaseCoversWorker
    ExecutesWhatWasCompiled
    RegisteredIsPrepared
    OneActivation
PROPERTY DestroyReturns
