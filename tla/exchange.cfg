SPECIFICATION Spec
CHECK_DEADLOCK FALSE
CONSTANTS
    Nothing = Nothing
    step = step
    w1 = w1
    w2 = w2
    Stepper = step
    Workers = {w1}
    RequestsOf <- SomeRequests
    MaxInFlight = 1
    FailureCodes = {"0304", "0305", "0306", "0309", "0310", "none of these"}
INVARIANTS
    AnswerIsOwn
    InFlightIsBounded
    NoEntryLeaks
    ReleasedIsQuiet
PROPERTIES
    StopReleases
