SPECIFICATION Spec
CHECK_DEADLOCK FALSE
CONSTANTS
    Missing = Missing
    Stores <- SomeStores
    Records <- SomeRecords
    VersionInventories <- SomeVersionInventories
    SnapshotInventories <- SomeSnapshotInventories
    Texts <- SomeTexts
    SeqMax = 4
    DedupeMax = 2
    DiagRetries = 1
    MaxBoots = 3
    MaxFaults = 2
INVARIANTS
    NumbersAreFresh
    OldRecordIsBackedUp
    JobEndsConfirmed
    RecoveryIsRestartable
    RecordsSurviveUpgrade
    DigestsNameContent
PROPERTIES
    UnreadableIsKept
