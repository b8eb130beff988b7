SPECIFICATION Spec
CONSTANTS
    Tasks = {task1, task2}
    ConsentTasks = {task1}
    Packages = {p1}
    Revisions = {rev1}
    RevisionOf <- OneRevision
    GrantEtags = {e1}
    NoEtag = NoEtag
    EmptyEtag = EmptyEtag
    NoTask = NoTask
    NoRecord = NoRecord
    OutboxMax = 2
    FinalStatuses <- WithRedetection
    MaxPermits = 2
    MaxCrashes = 2
    MaxLateRefusals = 1
    GrantsAsAsked = TRUE
    Migrated = FALSE
    OldTaskStates = {}
    OldExecStates = {}
    StageOptional = FALSE
    ConditionsVary = FALSE
    CloudDedupes = FALSE
    task1 = task1
    task2 = task2
    rev1 = rev1
    rev2 = rev2
INVARIANTS
    TypeOK
    ConsentBeforeUse
    InstallOnlyVerified
    RestartIsTransparent
    ResultOnlyAfterInstall
PROPERTIES
    FinalResultAfterEvents
    TerminalIsForever
    ImplementsJournal
