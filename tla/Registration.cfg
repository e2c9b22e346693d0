SPECIFICATION FairSpec
CONSTANTS
    Targets = {self, other}
    Self = self
    Revisions = {r1, r2}
    Python = {r2}
    MaxTokens = 2
    MaxFaults = 3
INVARIANTS
    NeverRefused
PROPERTIES
    TreesOnlyMove
    AttemptSettles
    AtomicSpec
