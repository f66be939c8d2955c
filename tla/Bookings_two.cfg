\* Two seats, asked for together or one by one, calls for whole codes, and a
\* database that fails.
SPECIFICATION Spec
CONSTANTS
    Null = Null
    Seats = {s1, s2}
    Creates = {c1, c2}
    Ops = {c1, c2, e1, e2}
    Requests <- AllRequests
    Kinds <- GroupKinds
    Toggled = {}
    Timeout = 1
    MaxTime = 2
    Faults = {"db"}
\* Each operation is one call: all of them may be over.
CHECK_DEADLOCK FALSE
SYMMETRY BookingsSymmetry
INVARIANTS TypeOK ExclusiveWork NoKeyLeftBehind CreateAllOrNothing
           GroupUniform PaymentRecorded
PROPERTIES ImplementsSeatMutex ImplementsReservations
