\* The race for one seat, which is switched off and on: two reservations and two
\* other calls of any kind.
SPECIFICATION Spec
CONSTANTS
    Null = Null
    Seats = {s1}
    Creates = {c1, c2}
    Ops = {c1, c2, e1, e2}
    Requests <- AllRequests
    Kinds <- AllKinds
    Toggled = {s1}
    Timeout = 1
    MaxTime = 3
    Faults = {}
\* Each operation is one call: all of them may be over.
CHECK_DEADLOCK FALSE
SYMMETRY BookingsSymmetry
INVARIANTS ConfirmedIsPaid
PROPERTIES InsertOnlyWhenFree DoubleBookingNeedsLateConfirm OnlyHolderDecides
           PaymentWipedByOldEntity
