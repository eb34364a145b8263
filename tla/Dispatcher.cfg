\* Two users and two requests: results, waiters, cancellations.
SPECIFICATION Spec
CONSTANTS
    Users = {u1, u2}
    Requests = {r1, r2}
    ActionIds = {a1, a2}
    ClientStatuses = {"completed", "failed"}
    ServerStatuses = {"completed"}
    PollLimits = {1}
INVARIANTS TypeOK HandedOnce NoStrandedWaiter
PROPERTIES OnlyRuntimeRevises DispatchReturns
