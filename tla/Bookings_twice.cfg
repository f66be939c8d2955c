\* Two confirmations of one booking are both charged.
SPECIFICATION Spec
CONSTANTS
    Null = Null
    Seats = {s1}
    Creates = {c1, c2}
    Ops = {c1, c2, e1, e2}
    Requests <- AllRequests
    Kinds <- AllKinds
    Toggled = {}
    Timeout = 1
    MaxTime = 3
    Faults = {}
\* Each operation is one call: all of them may be over.
CHECK_DEADLOCK FALSE
SYMMETRY BookingsSymmetry
PROPERTIES ConfirmedNotChargedAgain
