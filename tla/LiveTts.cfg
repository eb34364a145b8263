\* Five kinds of stream, two listeners.
SPECIFICATION Spec
CONSTANTS
    Listeners = {l1, l2}
    Streams <- MCStreams
INVARIANTS TypeOK NothingLostOnTheWay SharedInOrder HeardInFull EndIsMarked
PROPERTIES AudioEnds
CHECK_DEADLOCK FALSE
