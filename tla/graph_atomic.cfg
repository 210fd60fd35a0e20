SPECIFICATION Spec
CONSTANTS
    m1 = m1
    m2 = m2
    c1 = c1
    c2 = c2
    x = x
    y = y
    v1 = v1
    s1 = s1
    s2 = s2
    children = children
    deprecatedChildren = deprecatedChildren
    isChildOf = isChildOf
    favouriteChild = favouriteChild
    isFavouriteChildOf = isFavouriteChildOf
    youngerSiblings = youngerSiblings
    olderSiblings = olderSiblings
    Code = Code
    Null = Null
    NoClient = NoClient
    AllFields = AllFields
    Unnamed = Unnamed
    Codes = {m1, m2, c1, c2}
    Plain = {s1, s2}
    Values = {v1}
    RelNames = {children, favouriteChild, isFavouriteChildOf, youngerSiblings, olderSiblings}
    Clients = {x, y}
    TypeOf <- TypeOfCode
    Def <- RelSchema
    Requests = {r1, r2}
    Workloads <- AtomicWorkloads
SYMMETRY Symmetry
INVARIANTS TypeOK ToOneHolds
PROPERTIES LockedFieldsKept OnlyChangesAreAnnounced ImplementsAtomicGraph
