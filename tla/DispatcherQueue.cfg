\* One user's queue of three actions under partial polls.
SPECIFICATION Spec
CONSTANTS
    Users = {u1}
    Requests = {r1, r2}
    ActionIds = {a1, a2, a3}
    ClientStatuses = {"completed"}
    ServerStatuses = {"completed"}
    PollLimits = {1, 2}
SYMMETRY Symmetry
INVARIANTS NothingLost HandedInOrder
PROPERTIES HandoffSpec
