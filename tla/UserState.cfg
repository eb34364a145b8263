\* Three requests of one user, one token, two actions, three ticks; the store remembers one id.
SPECIFICATION Spec
CONSTANTS
    r1 = r1
    r2 = r2
    r3 = r3
    a = a
    b = b
    token = token
    Requests = {r1, r2, r3}
    Tokens = {token}
    TokenOf <- MCTokenOf
    Ttl = 2
    MaxTime = 3
    Actions = {a, b}
    KindOf <- MCKindOf
    NoAction = NoAction
    NoProfile = NoProfile
    SeenLimit = 1
    RecentLimit = 1
    Asked <- MCAsked
CHECK_DEADLOCK FALSE
INVARIANTS TypeOK RevokedServedBriefly StaleOnlyByOverlap FirstReportStands
