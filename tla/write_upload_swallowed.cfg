SPECIFICATION Spec
CONSTANTS
    Requests = {r1}
    Codes = {c1, c2}
    MayCreate = {r1}
    Origin = Origin
    NoText = NoText
    DeleteMarker = DeleteMarker
    NoRecord = NoRecord
    d1 = d1
    d2 = d2
    t1 = t1
    t2 = t2
    DocNames = {d1}
    Texts = {t1}
    Drafts <- OneText
    Overlap <- Alone
    Faults = {"put"}
INVARIANTS AcknowledgedDocumentsStored
CHECK_DEADLOCK FALSE
