------------------------------ MODULE SeatMutex ------------------------------
(***************************************************************************)
(* What the distributed seat locks of the booking system promise to their  *)
(* callers: an operation holds either every seat it asked for or none, and *)
(* no seat is held by two operations at a time.  How the promise is kept,  *)
(* one Redis key at a time, is the business of module SeatLocks.           *)
(***************************************************************************)
CONSTANTS Seats, Ops

VARIABLE held      \* held[o] is the set of seats operation o holds

\* Nobody holds anything.
Init == held = [o \in Ops |-> {}]

\* Operation o obtains all the seats of S at once.
Take(o, S) ==
    /\ held[o] = {}
    /\ \A p \in Ops : S \cap held[p] = {}
    /\ held' = [held EXCEPT ![o] = S]

\* Operation o gives back everything it holds.
Give(o) ==
    /\ held[o] # {}
    /\ held' = [held EXCEPT ![o] = {}]

Next == \E o \in Ops : Give(o) \/ \E S \in SUBSET Seats : Take(o, S)

Spec == Init /\ [][Next]_held
==============================================================================
