\* Liveness, and server actions: one action per turn.
SPECIFICATION Spec
CONSTANTS
    u1 = u1
    r1 = r1
    r2 = r2
    a1 = a1
    a2 = a2
    a3 = a3
    Users = {u1}
    Requests = {r1, r2}
    ActionIds = {a1, a2}
    NoRequest = NoRequest
    NoAction = NoAction
    NoAnswer = NoAnswer
    ClientStatuses = {"completed"}
    ServerStatuses = {"completed"}
    Cancellable = {NoRequest, r1}
    MaxCancels = 1
    UserOf <- MCUserOf
    Script <- MCShortScript
    EagerTurns = {r2}
PROPERTIES CancelledTurnEnds
