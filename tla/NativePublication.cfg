SPECIFICATION FairSpec
CONSTANTS
    Versions = {v1, v2}
    MaxBuilds = 3
INVARIANTS
    PublicationRecovers
    OneWriter
PROPERTIES
    KeepsOutput
    OperationEnds
