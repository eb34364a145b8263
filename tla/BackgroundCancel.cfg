\* What the loop's docstring says of cancellation, for a background loop.
SPECIFICATION Spec
CONSTANTS
    u1 = u1
    w1 = w1
    b1 = b1
    c1 = c1
    Users = {u1}
    Requests = {w1, b1}
    NoRequest = NoRequest
    UserOf <- MCUserOf
    Background = {b1}
    Conversations = {}
    MaxIterations = 2
    MaxActions <- MCShortRounds
    Cancellable = {NoRequest, b1}
    MaxCancels = 1
    LongRounds = {}
INVARIANTS CancelStopsLoop
CHECK_DEADLOCK FALSE
