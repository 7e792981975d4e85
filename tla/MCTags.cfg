SPECIFICATION Spec
CONSTANTS
    a = a
    A = A
    b = b
    c = c
    d = d
    o1 = o1
    r1 = r1
    r2 = r2
    Names <- SmallNames
    Lower <- LowerCase
    Objects = {o1}
    FirstTags <- TwoTags
    FirstPairs <- OnePair
    MaxTag = 6
    Requests = {r1, r2}
    Bodies <- AllBodies
    NoRow = NoRow
    NoTag = NoTag
INVARIANTS
    NamesAreUnique
    PairsHaveEnds
    RefusalsHaveCause
    PagesAddUp
PROPERTIES
    TagsAreAsNamed
    UnpublishedTagsAreForAdmins
    RequestsEnd
CHECK_DEADLOCK FALSE
