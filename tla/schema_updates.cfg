SPECIFICATION FairSpec
CONSTANTS
    LastVersion = 2
    Fetches = {f1, f2}
    Modes = {"poll", "stale", "static"}
    Accessors = {types, primitives}
    Defaults = {primitives}
    Users = {app}
    Faults = {"fetch", "stop", "query", "upload"}
    NoData = NoData
    Nothing = Nothing
    Unused = Unused
    Unanswered = Unanswered
    App = app
    Listening = 1
    Republishing = {"stale"}
    Types = types
    Buildable = {2}
    Constraints = {unique, index, broken}
    Indexes = {index}
    Wanted <- WantedBy
    Refused = {broken}
    MaxUploads = 1
    MaxRuns = 2
    app = app
    types = types
    primitives = primitives
    index = index
    unique = unique
    broken = broken
INVARIANTS TypeOK CacheIsCurrent ServesCurrent ConstraintsInPlace
PROPERTIES ImplementsReplica CatchesUp
CHECK_DEADLOCK FALSE
