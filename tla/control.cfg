SPECIFICATION FairSpec
CONSTANTS
    Workers = {w1}
    Commands <- TwoRevisions
    QueueCapacity = 2
    NoCommand = NoCommand
    NoRecord = NoRecord
    MaxCrashes = 2
INVARIANTS
    AppliedOnce
    AckedIsRecorded
    PendingIsUnapplied
    StopLeavesNothing
PROPERTIES
    StopReturns
