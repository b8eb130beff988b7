SPECIFICATION Spec
CONSTANTS
    Tasks = {task1}
    ConsentTasks = {task1}
    Packages = {p1}
    Revisions = {rev1}
    RevisionOf <- OneRevision
    GrantEtags = {NoEtag}
    NoEtag = NoEtag
    EmptyEtag = EmptyEtag
    NoTask = NoTask
    NoRecord = NoRecord
    OutboxMax = 2
    FinalStatuses <- WithRedetection
    MaxPermits = 2
    MaxCrashes = 2
    MaxLateRefusals = 0
    GrantsAsAsked = FALSE
    Migrated = TRUE
    OldTaskStates = {"Downloading", "Executing", "Completed"}
    OldExecStates = {"PermitPersisted", "Install", "Failed"}
    StageOptional = FALSE
    ConditionsVary = FALSE
    CloudDedupes = FALSE
    task1 = task1
    task2 = task2
    rev1 = rev1
    rev2 = rev2
INVARIANTS
    OneEventPerSequenceNo
