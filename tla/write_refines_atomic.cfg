SPECIFICATION Spec
CONSTANTS
    Requests = {r1, r2}
    Codes = {c1, c2}
    MayCreate = {r1, r2}
    Origin = Origin
    NoText = NoText
    DeleteMarker = DeleteMarker
    NoRecord = NoRecord
    d1 = d1
    d2 = d2
    t1 = t1
    t2 = t2
    DocNames = {d1, d2}
    Texts = {t1, t2}
    Drafts <- TwoDrafts
    Overlap <- PostsTogether
    Faults = {"get", "graph"}
SYMMETRY Symmetry
INVARIANTS AcknowledgedDocumentsStored NoOrphanDocuments
PROPERTIES ImplementsAtomicRecords
CHECK_DEADLOCK FALSE
