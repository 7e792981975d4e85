SPECIFICATION Spec
CONSTANTS
    a1 = a1
    u1 = u1
    k1 = k1
    k2 = k2
    k3 = k3
    k4 = k4
    k5 = k5
    s1 = s1
    s2 = s2
    r1 = r1
    r2 = r2
    r3 = r3
    r4 = r4
    NoUser = NoUser
    NoToken = NoToken
    NoLimit = NoLimit
    NoSession = NoSession
    Users = {u1}
    Admins = {}
    Tokens = {k1, k2, k3}
    FirstSessions <- NoSessions
    Senders = {s1}
    Requests = {r1, r2, r3}
    Routes = {"login"}
    Lifetime = 2
    FreeAttempts = 1
    Delays <- OneDelay
    LongestDelay = 2
    Past = 1
    Retention = 1
    MaxTime = 3
SYMMETRY RequestSymmetry
INVARIANTS
    RefusalsLeaveALimit
    FailuresAreCounted
PROPERTIES
    DelaysOnlyGrow
CHECK_DEADLOCK FALSE
