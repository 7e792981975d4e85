SPECIFICATION FairSpec
CONSTANTS
    a1 = a1
    u1 = u1
    k1 = k1
    k2 = k2
    k3 = k3
    k4 = k4
    k5 = k5
    s1 = s1
    s2 = s2
    r1 = r1
    r2 = r2
    r3 = r3
    r4 = r4
    NoUser = NoUser
    NoToken = NoToken
    NoLimit = NoLimit
    NoSession = NoSession
    Users = {a1, u1}
    Admins = {a1}
    Tokens = {k1, k2, k3, k4}
    FirstSessions <- SessionsOfBoth
    Senders = {s1}
    Requests = {r1, r2}
    Routes = {"login", "logout", "users_update", "settings_view", "other"}
    Lifetime = 1
    FreeAttempts = 1
    Delays <- NoDelays
    LongestDelay = 1
    Past = 1
    Retention = 1
    MaxTime = 2
INVARIANTS
    IInv
    DisabledSessionsSlipped
    TimesLapse
PROPERTIES
    DeadTokensStayDead
    RequestsEnd
CHECK_DEADLOCK FALSE
