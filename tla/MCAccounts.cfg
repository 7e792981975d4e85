SPECIFICATION Spec
CONSTANTS
    l1 = l1
    l2 = l2
    l3 = l3
    n1 = n1
    n2 = n2
    n3 = n3
    p1 = p1
    p2 = p2
    r1 = r1
    r2 = r2
    Logins = {l1, l2, l3}
    Usernames = {n1, n2, n3}
    Passwords = {p1, p2}
    MaxUser = 4
    FirstUsers <- TwoUsers
    FirstAllowed = "yes"
    Requests = {r1, r2}
    Bodies <- AllBodies
    Keep = Keep
    NoRow = NoRow
    NoUser = NoUser
INVARIANTS
    NamesAreUnique
    RefusalsHaveCause
PROPERTIES
    AuthorityIsRecent
    RequestsAreAtomic
    RequestsEnd
CHECK_DEADLOCK FALSE
