SPECIFICATION Spec
CONSTANTS
    Tasks = {task1, task2}
    ConsentTasks = {}
    Packages = {p1}
    Revisions = {rev1, rev2}
    RevisionOf <- RevisionPerTask
    GrantEtags = {e1}
    NoEtag = NoEtag
    EmptyEtag = EmptyEtag
    NoTask = NoTask
    NoRecord = NoRecord
    OutboxMax = 0
    FinalStatuses <- WithRedetection
    MaxPermits = 1
    MaxCrashes = 0
    MaxLateRefusals = 0
    GrantsAsAsked = TRUE
    Migrated = FALSE
    OldTaskStates = {}
    OldExecStates = {}
    StageOptional = FALSE
    ConditionsVary = FALSE
    CloudDedupes = FALSE
    task1 = task1
    task2 = task2
    rev1 = rev1
    rev2 = rev2
INVARIANTS
    ReadyMatchesTask
