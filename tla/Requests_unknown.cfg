\* A confirmation code that reads as a number.
SPECIFICATION Spec
CONSTANTS
    r1 = r1
    r2 = r2
    s1 = s1
    s2 = s2
    p1 = p1
    p2 = p2
    Null = Null
    Requests = {r1, r2}
    Seats = {s1, s2}
    Lanes = {p1, p2}
    SeatsOf <- TwoSeatsOf
    LaneOf <- TwoLaneOf
    MaxFailures = 1
    MaxSends = 2
\* Every request may have been handled.
CHECK_DEADLOCK FALSE
INVARIANT CodeIsReported
