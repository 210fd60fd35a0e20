SPECIFICATION Spec
CONSTANTS
    CamelWords = {"alpha", "beta", "gamma", "when", "level", "levels", "code", "hello"}
    Properties <- SomeProperties
    PrimitiveTypes <- Primitives
    Enums <- Levels
    TypeNames = {"Child"}
    Blacklist = {"locked"}
    Documents <- AllDocuments
    YesWords = {"yes"}
    NoWords = {"no"}
    DateWords = {"monday"}
    NumberWords = {"two"}
    CommentWords = {"<!---->"}
    RejectedWords = {"bad"}
INVARIANTS CleanParseIsFaithful EverySectionAccounted NoValueBesideItsError DefinitionsReadByLine
PROPERTIES ProblemsAreKept
CHECK_DEADLOCK FALSE
