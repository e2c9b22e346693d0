INIT MCInit
NEXT Next
CONSTANTS
    First = first
    Second = second
    Revisions = {r1}
    Python = {r1}
    MaxTokens = 2
    MaxFaults = 2
INVARIANTS
    CommittedProfileKept
