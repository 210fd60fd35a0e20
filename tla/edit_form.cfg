SPECIFICATION Spec
CONSTANTS
    r1 = r1
    self = self
    NoCode = NoCode
    Codes = {r1, self}
    Self = self
    CodeEntries = {r1, self}
    Options = {"high", "low"}
    ApiZone = "Z"
    MaxLinks = 1
    Layouts <- SampleLayouts
    Texts <- SampleTexts
    ShortTexts = {}
    Found <- SampleFound
    Exact <- SampleExact
    ClientId = "biz-ops-admin"
    Others = {"importer"}
INVARIANTS TypeOK PickedOnce
PROPERTIES UntouchedFieldsKept SavedIsStored ErrorKeepsEntries
