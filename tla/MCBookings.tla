------------------------------ MODULE MCBookings ------------------------------
(***************************************************************************)
(* Bookings on small instances.  Which seats may be asked for together,    *)
(* which calls are made and which faults happen is chosen in the .cfg by   *)
(* naming one of the definitions below.                                    *)
(***************************************************************************)
EXTENDS Bookings, TLC

AllRequests  == (SUBSET Seats) \ {{}}
AllKinds     == ConfirmKinds \cup CancelKinds

\* Creates, other operations and seats are interchangeable.
BookingsSymmetry ==
    Permutations(Creates) \cup Permutations(Edits) \cup Permutations(Seats)
==============================================================================
