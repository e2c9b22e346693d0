SPECIFICATION Spec
CONSTANTS
    First = first
    Second = second
    Revisions = {r1}
    Python = {r1}
    MaxTokens = 1
    MaxFaults = 2
INVARIANT ResumesAfterOther
