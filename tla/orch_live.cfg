SPECIFICATION FairSpec
CONSTANTS
    Tasks = {task1}
    ConsentTasks = {}
    Packages = {p1}
    Revisions = {rev1, rev2}
    RevisionOf <- OneRevision
    GrantEtags = {e1}
    NoEtag = NoEtag
    EmptyEtag = EmptyEtag
    NoTask = NoTask
    NoRecord = NoRecord
    OutboxMax = 2
    FinalStatuses <- DiagramStatuses
    MaxPermits = 2
    MaxCrashes = 1
    MaxLateRefusals = 0
    GrantsAsAsked = FALSE
    Migrated = FALSE
    OldTaskStates = {}
    OldExecStates = {}
    StageOptional = FALSE
    ConditionsVary = FALSE
    CloudDedupes = FALSE
    task1 = task1
    task2 = task2
    rev1 = rev1
    rev2 = rev2
PROPERTIES
    ExecutionConcludes
    EventsReachCloud
