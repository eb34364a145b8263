\* One turn on each route, three events of a core stream, two steps of a plan, two actions at once.
SPECIFICATION Spec
CONSTANTS
    Turns <- MCTurns
    ActionLists <- MCActionLists
    Plans = {0, 1, 2}
    Statuses = {"completed", "timeout"}
    MaxChunks = 3
CHECK_DEADLOCK FALSE
INVARIANTS TypeOK DispatchedOnce AlwaysAnswered ResultsTold
