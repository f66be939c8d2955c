\* Two requests for the same two seats, which may lock them in opposite orders,
\* a confirmation and a cancellation; processes die and Redis throws.
SPECIFICATION FairSpec
CONSTANTS
    Null = Null
    Seats = {s1, s2}
    Creates = {c1, c2}
    Ops = {c1, c2, e1}
    Requests = {{s1, s2}}
    Kinds = {"confirmGroup", "cancelOne"}
    Toggled = {}
    Timeout = 1
    MaxTime = 2
    Faults = {"crash", "redis"}
\* Each operation is one call: all of them may be over.
CHECK_DEADLOCK FALSE
PROPERTIES OperationsFinish ReservationsEnd
