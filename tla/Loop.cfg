\* A watch loop, a turn that may supersede it, and a background loop.
SPECIFICATION Spec
CONSTANTS
    u1 = u1
    w1 = w1
    b1 = b1
    c1 = c1
    Users = {u1}
    Requests = {w1, b1, c1}
    NoRequest = NoRequest
    UserOf <- MCUserOf
    Background = {b1}
    Conversations = {c1}
    MaxIterations = 2
    MaxActions <- MCRounds
    Cancellable = {NoRequest}
    MaxCancels = 1
    LongRounds = {}
INVARIANTS TypeOK OneRoundAfterStop EndedLoopReleased
PROPERTIES ReportIsLast LoopEnds
CHECK_DEADLOCK FALSE
