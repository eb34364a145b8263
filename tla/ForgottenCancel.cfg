\* The same for a watch loop with max_seconds above the ttl and rounds that outlast it.
SPECIFICATION Spec
CONSTANTS
    u1 = u1
    w1 = w1
    b1 = b1
    c1 = c1
    Users = {u1}
    Requests = {w1}
    NoRequest = NoRequest
    UserOf <- MCUserOf
    Background = {}
    Conversations = {}
    MaxIterations = 2
    MaxActions <- MCRounds
    Cancellable = {NoRequest}
    MaxCancels = 1
    LongRounds = {w1}
INVARIANTS CancelStopsLoop
CHECK_DEADLOCK FALSE
