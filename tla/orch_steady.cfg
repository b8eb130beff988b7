SPECIFICATION Spec
CONSTANTS
    Tasks = {task1}
    ConsentTasks = {task1}
    Packages = {p1}
    Revisions = {rev1}
    RevisionOf <- OneRevision
    GrantEtags = {e1, e2, NoEtag}
    NoEtag = NoEtag
    EmptyEtag = EmptyEtag
    NoTask = NoTask
    NoRecord = NoRecord
    OutboxMax = 3
    FinalStatuses <- DiagramStatuses
    MaxPermits = 3
    MaxCrashes = 0
    MaxLateRefusals = 0
    GrantsAsAsked = FALSE
    Migrated = FALSE
    OldTaskStates = {}
    OldExecStates = {}
    StageOptional = TRUE
    ConditionsVary = TRUE
    CloudDedupes = FALSE
    task1 = task1
    task2 = task2
    rev1 = rev1
    rev2 = rev2
INVARIANTS
    OneInstallPerExecution
    InstallUnderSavedPermit
    PartialBytesMatchEtag
PROPERTIES
    FinalNamesLastEvent
    SkipsAtMostOneState
