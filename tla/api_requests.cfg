SPECIFICATION FairSpec
CONSTANTS
    r1 = r1
    r2 = r2
    same = same
    Requests = {r1, r2}
    Ids = {same}
    IdOf <- SameId
    MaxResources = 2
    Nobody = Nobody
    Inputs <- SampleInputs
    Timeout = TRUE
    Faults = {"query"}
    MaxRuns = 3
INVARIANTS TypeOK ContextsAreFreed OuterTimerFirst PlainSessionsAreClosed
PROPERTIES EveryRequestIsAnswered EveryHandlerEnds
CHECK_DEADLOCK FALSE
