-------------------------- MODULE MCBookingRequests ---------------------------
(* BookingRequests with two lanes: r1 and r2 want the same seat through     *)
(* different lanes.                                                         *)
EXTENDS BookingRequests, TLC

CONSTANTS r1, r2, s1, s2, p1, p2

TwoSeatsOf == (r1 :> {s1, s2}) @@ (r2 :> {s2})
TwoLaneOf  == (r1 :> p1) @@ (r2 :> p2)
==============================================================================
