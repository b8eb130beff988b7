SPECIFICATION Spec
CHECK_DEADLOCK FALSE
CONSTANTS
    Missing = Missing
    HashOf <- Text
    Stores <- SomeStores
    Configs <- SomeConfigs
    MaxBoots = 2
    MaxNumber = 5
INVARIANTS
    TypeOK
    LegacyKeptUntilMarked
    RecordsSurviveRestarts
    BusinessFieldsAreKept
    OpensOnlyWhenReady
PROPERTIES
    StopsInOrder
    SignalEndsProcess
