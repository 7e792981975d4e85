SPECIFICATION Spec
CONSTANTS
    r1 = r1
    r2 = r2
    u = u
    w = w
    MaxId = 7
    MaxNew = 2
    Users = {u, w}
    Admins = {w}
    Editors = {u}
    First <- Start
    FirstId = 3
    Taggable = {2}
    Requests = {r1, r2}
    Bodies <- AllBodies
    Unset = Unset
    NoSpec = NoSpec
    NoOne = NoOne
INVARIANTS
    ObjectsAreWhole
    ContentsAreAsAsked
    RefusalsHaveCause
PROPERTIES
    SharedSubobjectsSurvive
    OwnersKeepTheirObjects
    ViewsAreExact
    RequestsAreAtomic
    RequestsEnd
CHECK_DEADLOCK FALSE
