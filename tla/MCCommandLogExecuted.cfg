SPECIFICATION Spec
CONSTANTS
    alice = alice
    bob = bob
    Callers <- MCCallers
    MaxCalls = 1
    Limit = 2
    Retention = 1
    MaxTime = 1
    MaxCrashes = 0
    StoreFaults = FALSE
INVARIANTS
    ExecutedIsRecorded
