SPECIFICATION FairSpec
CONSTANTS
    alice = alice
    bob = bob
    Callers <- MCCallers
    MaxCalls = 1
    Limit = 1
    Retention = 1
    MaxTime = 3
    MaxCrashes = 1
    StoreFaults = TRUE
INVARIANTS
    TypeOK
    RepliesAreReal
    AnsweredWasRecorded
    LogIsOrdered
    PageIsRecent
PROPERTIES
    OldEntriesGo
