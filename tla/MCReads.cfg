SPECIFICATION Spec
CONSTANTS
    c1 = c1
    c2 = c2
    c3 = c3
    c4 = c4
    l1 = l1
    t1 = t1
    Composites = {c1, c2, c3, c4}
    Leaves = {l1}
    Tags = {t1}
    Links <- MCLinks
    FirstObjects = {c1, c2, c3, l1}
    FirstMatching = {c1, c3}
    FirstIndexed <- MCIndexed
    FirstHidden = {c2}
    MaxDepth = 3
    Queries <- MCQueries
    MaxRows = 2
    MaxChanges = 2
INVARIANTS
    HierarchyIsBracketed
    PagesAreBracketed
