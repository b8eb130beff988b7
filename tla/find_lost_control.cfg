SPECIFICATION Spec
CONSTANTS
    Workers = {w1}
    Commands = {1}
    QueueCapacity = 1
    NoCommand = NoCommand
    NoRecord = NoRecord
    MaxCrashes = 1
INVARIANT DropsOnlyExecuted
