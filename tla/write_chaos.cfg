SPECIFICATION Spec
CONSTANTS
    Requests = {r1, r2}
    Codes = {c1, c2}
    MayCreate = {r1, r2}
    Origin = Origin
    NoText = NoText
    DeleteMarker = DeleteMarker
    NoRecord = NoRecord
    d1 = d1
    d2 = d2
    t1 = t1
    t2 = t2
    DocNames = {d1}
    Texts = {t1}
    Drafts <- OneText
    Overlap <- AllTogether
    Faults = {"get", "put", "mark", "drop", "graph", "timeout", "crash", "lost"}
SYMMETRY Symmetry
INVARIANTS TypeOK AcknowledgedWritesSurvive
PROPERTIES OnlyOwnUndoErases
CHECK_DEADLOCK FALSE
