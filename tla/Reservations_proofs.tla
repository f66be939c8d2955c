------------------------- MODULE Reservations_proofs -------------------------
(***************************************************************************)
(* BookingsService keeps the promise of module SeatReservations, for any   *)
(* number of seats, customers and calls and whatever fails, as long as no  *)
(* lock lapses under its owner; and what follows from the promise: seats   *)
(* have one occupant at a time if no confirmation is late.                 *)
(***************************************************************************)
EXTENDS Bookings_proofs
------------------------------------------------------------------------------
(* What is asked for.                                                      *)

\* A call asks for seats when it begins, and for some.
Asking ==
    \A o \in Ops : /\ pc[o] = "idle" => want[o] = {}
                   /\ pc[o] \notin {"idle", "done"} => want[o] # {}

\* A call under way does not change what it wants.
LEMMA WantKept ==
    ASSUME NEW o \in Ops, Step(o) \/ Fault(o)
    PROVE  want' = want
  BY DEF Step, AcquireSeat, AcquireLock, ReleaseSeat, ReleaseLock, FindSeats,
         FindActiveBookings, InsertBookings, ExpireFound, ProcessPayment,
         WriteBookings, Fault, Crash, CrashLocks, RedisFails, RedisError, Forget,
         DbFails, locksVars

\* The beginning of a call: it asks for some seats, or is over at once.
LEMMA BeginWants ==
    ASSUME NEW o \in Ops, TypeOK, Begin(o)
    PROVE  /\ pc[o] = "idle"
           /\ pc'[o] \in {"lock", "expire", "done"}
           /\ \E S \in SUBSET Seats : /\ want' = [want EXCEPT ![o] = S]
                                      /\ pc'[o] # "done" => S # {}
           /\ o \in Creates => pc'[o] = "lock"
           /\ UNCHANGED <<booking, now>>
  <1>1. CASE CreateBooking(o)
    BY <1>1, BookingsAssumption DEF TypeOK, CreateBooking, StartLocking
  <1>2. CASE o \in Edits /\ NotFound(o)
    <2>1. want[o] \in SUBSET Seats /\ want' = [want EXCEPT ![o] = want[o]]
      BY <1>2 DEF TypeOK, LocksTypeOK, NotFound, locksVars
    <2> QED BY <1>2, <2>1 DEF TypeOK, NotFound, Edits
  <1>3. ASSUME o \in Edits, NEW k \in Kinds, NEW c \in Creates,
               NEW S \in Selections(k, c), LookupRefused(o, k, c, S)
        PROVE  /\ pc[o] = "idle"
               /\ pc'[o] = "done"
               /\ want[o] \in SUBSET Seats /\ want' = [want EXCEPT ![o] = want[o]]
               /\ UNCHANGED <<booking, now>>
    BY <1>3 DEF TypeOK, LocksTypeOK, LookupRefused, Lookup, locksVars
  <1>4. ASSUME o \in Edits, NEW k \in Kinds, NEW c \in Creates,
               NEW S \in Selections(k, c),
               LookupOverdue(o, k, c, S) \/ LookupAccepted(o, k, c, S)
        PROVE  /\ pc[o] = "idle"
               /\ pc'[o] \in {"lock", "expire"}
               /\ \E T \in SUBSET Seats : T # {} /\ want' = [want EXCEPT ![o] = T]
               /\ UNCHANGED <<booking, now>>
    <2>1. Lookup(o, k, c, S)
      BY <1>4 DEF LookupOverdue, LookupAccepted
    <2>2. S \in SUBSET Seats /\ OverdueSeats(k, c, S) \in SUBSET Seats
      BY <2>1, LookupType
    <2> QED BY <1>4, <2>1, <2>2
            DEF TypeOK, LookupOverdue, LookupAccepted, Lookup, StartLocking
  <1> QED BY <1>1, <1>2, <1>3, <1>4 DEF Begin, Edits

LEMMA AskingStep ==
    ASSUME TypeOK, Asking, [Next]_vars
    PROVE  Asking'
  <1> USE DEF TypeOK, LocksTypeOK
  <1>1. ASSUME NEW o \in Ops, Begin(o)
        PROVE  Asking'
    <2>1. Others(o)
      BY <1>1, BeginOthers
    <2>2. pc'[o] # "idle" /\ (pc'[o] # "done" => want'[o] # {})
      BY <1>1, BeginWants
    <2> QED BY <2>1, <2>2 DEF Asking, Others
  <1>2. ASSUME NEW o \in Ops, Step(o) \/ Fault(o)
        PROVE  pc[o] \notin {"idle", "done"}
    BY <1>2 DEF Step, AcquireSeat, ReleaseSeat, FindSeats, FindActiveBookings,
                InsertBookings, ExpireFound, ProcessPayment, WriteBookings,
                Fault, Crash, RedisFails, DbFails
  <1>3. ASSUME NEW o \in Ops, Step(o) \/ Fault(o)
        PROVE  Asking'
    <2>1. Others(o)
      BY <1>3, StepOthers, FaultOthers
    <2>2. want' = want
      BY <1>3, WantKept
    <2>3. pc'[o] # "idle"
      BY <1>2, <1>3, NotIdleAgain DEF Next
    <2> QED BY <1>2, <1>3, <2>1, <2>2, <2>3 DEF Asking, Others
  <1>4. CASE UNCHANGED <<pc, want>>
    BY <1>4 DEF Asking
  <1> QED BY <1>1, <1>3, <1>4
          DEF Next, Tick, ExpireBookings, ToggleSeat, Lapse, LapseLock, vars,
              opVars, locksVars

\* The invariant of this module.
PromiseInv == Inv /\ CreateInv /\ Asking

THEOREM PromiseInvariance == ASSUME Timely PROVE Spec => []PromiseInv
  <1>1. Init => Asking
    BY DEF Init, LocksInit, Asking
  <1>2. TypeOK /\ Asking /\ [Next]_vars => Asking'
    BY AskingStep
  <1> QED BY <1>1, <1>2, TypeCorrect, Invariance, CreateInvariance, PTL
          DEF Spec, PromiseInv
------------------------------------------------------------------------------
(* The seats of a code, as a customer sees them.                           *)

\* The entries of the functions that the abstract state is made of.
LEMMA Entries ==
    ASSUME NEW c \in Creates
    PROVE  /\ askedSeats[c] = want[c]
           /\ bookedSeats[c] = StoredSeats(c)
           /\ reservedSeats[c] = {s \in Seats : /\ booking[c][s].status = "pending"
                                               /\ booking[c][s].expiresAt > now}
           /\ soldSeats[c] = {s \in Seats : booking[c][s].status = "confirmed"}
           /\ askedSeats'[c] = want'[c]
           /\ bookedSeats'[c] = StoredSeats(c)'
           /\ reservedSeats'[c] = {s \in Seats : /\ booking'[c][s].status = "pending"
                                                /\ booking'[c][s].expiresAt > now'}
           /\ soldSeats'[c] = {s \in Seats : booking'[c][s].status = "confirmed"}
  BY DEF askedSeats, bookedSeats, reservedSeats, soldSeats

\* A step that changes the entry of one code is an update of the function.
LEMMA AskedUpdate ==
    ASSUME NEW c \in Creates, NEW V, askedSeats'[c] = V,
           \A d \in Creates \ {c} : askedSeats'[d] = askedSeats[d]
    PROVE  askedSeats' = [askedSeats EXCEPT ![c] = V]
  BY DEF askedSeats

LEMMA BookedUpdate ==
    ASSUME NEW c \in Creates, NEW V, bookedSeats'[c] = V,
           \A d \in Creates \ {c} : bookedSeats'[d] = bookedSeats[d]
    PROVE  bookedSeats' = [bookedSeats EXCEPT ![c] = V]
  BY DEF bookedSeats

LEMMA ReservedUpdate ==
    ASSUME NEW c \in Creates, NEW V, reservedSeats'[c] = V,
           \A d \in Creates \ {c} : reservedSeats'[d] = reservedSeats[d]
    PROVE  reservedSeats' = [reservedSeats EXCEPT ![c] = V]
  BY DEF reservedSeats

LEMMA SoldUpdate ==
    ASSUME NEW c \in Creates, NEW V, soldSeats'[c] = V,
           \A d \in Creates \ {c} : soldSeats'[d] = soldSeats[d]
    PROVE  soldSeats' = [soldSeats EXCEPT ![c] = V]
  BY DEF soldSeats

\* Where what is asked for does not change, the function does not either; the
\* same for what is booked and sold.
LEMMA SameSeats ==
    /\ (\A c \in Creates : askedSeats'[c] = askedSeats[c]) => UNCHANGED askedSeats
    /\ (\A c \in Creates : bookedSeats'[c] = bookedSeats[c]) => UNCHANGED bookedSeats
    /\ (\A c \in Creates : soldSeats'[c] = soldSeats[c]) => UNCHANGED soldSeats
  BY DEF askedSeats, bookedSeats, soldSeats
------------------------------------------------------------------------------
(* The writes.                                                             *)

\* A write of an operation concerns the rows of its code.
LEMMA OtherCodes ==
    ASSUME NEW o \in Ops, booking' = Written(o), now' = now,
           NEW d \in Creates, d # code[o]
    PROVE  /\ bookedSeats'[d] = bookedSeats[d]
           /\ reservedSeats'[d] = reservedSeats[d]
           /\ soldSeats'[d] = soldSeats[d]
  <1>1. \A s \in Seats : booking'[d][s] = booking[d][s]
    BY WrittenRow
  <1> QED BY <1>1 DEF bookedSeats, reservedSeats, soldSeats, StoredSeats

\* The insert grants all the seats of the request, which nobody has.
LEMMA InsertImplements ==
    ASSUME PromiseInv, NEW o \in Ops, pc[o] = "insert", booking' = Written(o),
           now' = now, want' = want
    PROVE  Promise!Next
  <1>1. o \in Creates /\ code[o] = o /\ kind[o] = "create"
    BY DEF PromiseInv, CreateInv, OwnCode, PhaseFits
  <1>2. want[o] \in SUBSET Seats /\ want[o] # {}
    BY DEF PromiseInv, Asking, CreateInv, TypeOK, LocksTypeOK
  <1>3. StoredSeats(o) = {} /\ StoredSeats(o)' = want[o]
    BY <1>1, InsertStores DEF PromiseInv, CreateInv, Stage
  <1>4. \A s \in Seats : booking[o][s].status = "absent"
    BY <1>3 DEF StoredSeats
  <1>5. \A s \in Seats : booking'[o][s] = IF s \in want[o] THEN entity[o]
                                                         ELSE booking[o][s]
    BY <1>1, WrittenRow DEF NewRow, GroupKinds
  <1>6. entity[o].status = "pending"
    BY DEF PromiseInv, Inv, Deadlines
  <1>7. \E T \in {{}, want[o]} : reservedSeats'[o] = T
    <2>1. CASE entity[o].expiresAt > now
      <3>1. \A s \in Seats :
               /\ booking'[o][s].status = "pending"
               /\ booking'[o][s].expiresAt > now'
               <=> s \in want[o]
        BY <1>4, <1>5, <1>6, <2>1
      <3>2. reservedSeats'[o] = want[o]
        BY <1>1, <1>2, <3>1, Entries
      <3> QED BY <3>2
    <2>2. CASE ~(entity[o].expiresAt > now)
      <3>1. reservedSeats'[o] = {}
        BY <1>1, <1>2, <1>4, <1>5, <1>6, <2>2, Entries
      <3> QED BY <3>1
    <2> QED BY <2>1, <2>2
  <1>8. soldSeats'[o] = soldSeats[o]
    <2>1. \A s \in Seats : /\ booking[o][s].status # "confirmed"
                           /\ booking'[o][s].status # "confirmed"
      BY <1>4, <1>5, <1>6
    <2> QED BY <1>1, <2>1 DEF soldSeats
  <1>9. \A d \in Creates \ {o} : /\ bookedSeats'[d] = bookedSeats[d]
                                 /\ reservedSeats'[d] = reservedSeats[d]
                                 /\ soldSeats'[d] = soldSeats[d]
    BY <1>1, OtherCodes
  <1>10. UNCHANGED <<askedSeats, soldSeats>>
    BY <1>8, <1>9, SameSeats, Entries
  <1>11. bookedSeats' = [bookedSeats EXCEPT ![o] = askedSeats[o]]
    BY <1>1, <1>3, <1>9, BookedUpdate, Entries
  <1>12. \E T \in {{}, askedSeats[o]} : reservedSeats' = [reservedSeats EXCEPT ![o] = T]
    BY <1>1, <1>7, <1>9, ReservedUpdate, Entries
  <1>13. ASSUME NEW g \in Creates
         PROVE  askedSeats[o] \cap Promise!Taken(g) = {}
    <2>1. \A s \in want[o] : ~Occupies(g, s)
      BY DEF PromiseInv, Inv, StillFree, Free
    <2> QED BY <1>1, <1>2, <2>1, Entries DEF Promise!Taken, Occupies
  <1>14. Promise!Reserve(o)
    BY <1>1, <1>2, <1>3, <1>10, <1>11, <1>12, <1>13, Entries DEF Promise!Reserve
  <1> QED BY <1>1, <1>14 DEF Promise!Next

\* The other writes sell seats of a code or take some from it.
LEMMA WriteImplements ==
    ASSUME PromiseInv, NEW o \in Ops, pc[o] \in {"expire", "write"},
           booking' = Written(o), now' = now, want' = want
    PROVE  Promise!Next
  <1> DEFINE c == code[o]
  <1>1. c \in Creates /\ want[o] \in SUBSET Seats
    BY DEF PromiseInv, Inv, PhaseFits, TypeOK, LocksTypeOK
  <1>2. kind[o] # "create" /\ \A s \in want[o] : booking[c][s].status # "absent"
    BY DEF PromiseInv, Inv, PhaseFits, RowsStored
  <1>3. \A s \in want[o] : booking'[c][s] = NewRow(o, booking[c][s])
    BY <1>1, WrittenRow
  <1>4. \A s \in Seats \ want[o] : booking'[c][s] = booking[c][s]
    BY <1>1, WrittenRow
  <1>5. \A s \in want[o] : booking[c][s] \in Row
    BY <1>1 DEF PromiseInv, Inv, TypeOK
  <1>6. \A s \in want[o] : booking'[c][s].status \notin {"absent", "pending"}
    BY <1>3, <1>5, NewRowStatus DEF PromiseInv, Inv
  <1>7. \A d \in Creates \ {c} : /\ bookedSeats'[d] = bookedSeats[d]
                                 /\ reservedSeats'[d] = reservedSeats[d]
                                 /\ soldSeats'[d] = soldSeats[d]
    BY OtherCodes
  <1> HIDE DEF c
  <1>8. bookedSeats'[c] = bookedSeats[c]
    <2>1. \A s \in Seats : booking'[c][s].status # "absent" <=>
                           booking[c][s].status # "absent"
      BY <1>2, <1>4, <1>6
    <2> QED BY <1>1, <2>1 DEF bookedSeats, StoredSeats
  <1>9. UNCHANGED <<askedSeats, bookedSeats>>
    BY <1>7, <1>8, SameSeats, Entries
  <1>10. reservedSeats' = [reservedSeats EXCEPT ![c] = @ \ want[o]]
    <2>1. reservedSeats'[c] = reservedSeats[c] \ want[o]
      BY <1>1, <1>4, <1>6, Entries
    <2> QED BY <1>1, <1>7, <2>1, ReservedUpdate
  <1>11. CASE \A s \in want[o] : booking'[c][s].status = "confirmed"
    <2>1. soldSeats'[c] = soldSeats[c] \cup want[o]
      BY <1>1, <1>4, <1>11, Entries
    <2>2. soldSeats' = [soldSeats EXCEPT ![c] = @ \cup want[o]]
      BY <1>1, <1>7, <2>1, SoldUpdate
    <2>3. want[o] \subseteq bookedSeats[c]
      BY <1>1, <1>2, Entries DEF StoredSeats
    <2>4. Promise!Sell(c, want[o])
      BY <1>9, <1>10, <2>2, <2>3 DEF Promise!Sell
    <2> QED BY <1>1, <2>4 DEF Promise!Next
  <1>12. CASE \A s \in want[o] : booking'[c][s].status # "confirmed"
    <2>1. soldSeats'[c] = soldSeats[c] \ want[o]
      BY <1>1, <1>4, <1>12, Entries
    <2>2. soldSeats' = [soldSeats EXCEPT ![c] = @ \ want[o]]
      BY <1>1, <1>7, <2>1, SoldUpdate
    <2>3. Promise!Withdraw(c, want[o])
      BY <1>9, <1>10, <2>2 DEF Promise!Withdraw
    <2> QED BY <1>1, <2>3 DEF Promise!Next
  <1>13. \/ \A s \in want[o] : booking'[c][s].status = "confirmed"
         \/ \A s \in want[o] : booking'[c][s].status # "confirmed"
    <2>1. CASE pc[o] = "expire"
      BY <1>3, <1>5, <2>1, NewRowStatus DEF PromiseInv, Inv
    <2>2. CASE pc[o] = "write" /\ kind[o] \in ConfirmKinds
      <3>1. ASSUME NEW s \in want[o]
            PROVE  NewRow(o, booking[c][s]).status = "confirmed"
        BY <1>5, <2>2, <3>1, NewRowStatus DEF PromiseInv, Inv, NewRow, ConfirmedRow
      <3> QED BY <1>3, <3>1
    <2>3. CASE pc[o] = "write" /\ kind[o] \notin ConfirmKinds
      <3>1. ASSUME NEW s \in want[o]
            PROVE  NewRow(o, booking[c][s]).status # "confirmed"
        BY <1>5, <2>3, <3>1, ConfirmedRowPaid DEF PromiseInv, Inv
      <3> QED BY <1>3, <3>1
    <2> QED BY <2>1, <2>2, <2>3
  <1> QED BY <1>11, <1>12, <1>13
------------------------------------------------------------------------------
(* The other steps, and the refinement.                                    *)

\* The beginning of a create asks for its seats; that of another call is
\* invisible.
LEMMA BeginImplements ==
    ASSUME PromiseInv, NEW o \in Ops, Begin(o)
    PROVE  Promise!Next \/ UNCHANGED Promise!vars
  <1>1. UNCHANGED <<booking, now>> /\ pc[o] = "idle"
    BY BeginWants DEF PromiseInv, CreateInv
  <1>2. UNCHANGED <<bookedSeats, reservedSeats, soldSeats>>
    BY <1>1 DEF bookedSeats, reservedSeats, soldSeats, StoredSeats
  <1>3. PICK S \in SUBSET Seats : want' = [want EXCEPT ![o] = S]
    BY BeginWants DEF PromiseInv, CreateInv
  <1>4. want \in [Ops -> SUBSET Seats] /\ Creates \subseteq Ops
    BY BookingsAssumption DEF PromiseInv, CreateInv, TypeOK, LocksTypeOK
  <1>5. \A c \in Creates \ {o} : askedSeats'[c] = askedSeats[c]
    BY <1>3, <1>4, Entries
  <1>6. CASE o \notin Creates
    BY <1>2, <1>5, <1>6, SameSeats DEF Promise!vars
  <1>7. CASE o \in Creates
    <2>1. askedSeats[o] = {} /\ askedSeats'[o] = S
      BY <1>1, <1>3, <1>4, <1>7, Entries DEF PromiseInv, Asking
    <2>2. Promise!Ask(o, S)
      BY <1>2, <1>5, <1>7, <2>1, AskedUpdate DEF Promise!Ask
    <2> QED BY <1>7, <2>2 DEF Promise!Next
  <1> QED BY <1>6, <1>7

\* Reservations that time or the cron job ends lapse; nothing else changes.
LEMMA LapseImplements ==
    ASSUME want' = want,
           \A c \in Creates :
              /\ bookedSeats'[c] = bookedSeats[c]
              /\ reservedSeats'[c] \subseteq reservedSeats[c]
              /\ soldSeats'[c] = soldSeats[c]
    PROVE  Promise!Next
  <1>1. UNCHANGED <<askedSeats, bookedSeats, soldSeats>>
    BY SameSeats, Entries
  <1>2. reservedSeats' \in [Creates -> SUBSET Seats]
    BY DEF reservedSeats
  <1>3. Promise!Lapse
    BY <1>1, <1>2 DEF Promise!Lapse
  <1> QED BY <1>3 DEF Promise!Next

LEMMA TimeImplements ==
    ASSUME PromiseInv, [Next]_vars, want' = want, booking' = booking
    PROVE  Promise!Next
  <1>1. now' >= now /\ now \in Nat /\ now' \in Nat
    BY ClockStep DEF PromiseInv, CreateInv, TypeOK
  <1>2. ASSUME NEW c \in Creates
        PROVE  /\ bookedSeats'[c] = bookedSeats[c]
               /\ soldSeats'[c] = soldSeats[c]
    BY <1>2 DEF bookedSeats, soldSeats, StoredSeats
  <1>3. ASSUME NEW c \in Creates, NEW s \in Seats,
               booking[c][s].status = "pending", booking[c][s].expiresAt > now'
        PROVE  booking[c][s].expiresAt > now
    <2>1. booking[c][s].expiresAt \in Nat
      BY <1>3 DEF PromiseInv, CreateInv, Deadlines
    <2> QED BY <1>1, <1>3, <2>1
  <1>4. ASSUME NEW c \in Creates
        PROVE  reservedSeats'[c] \subseteq reservedSeats[c]
    BY <1>3, <1>4, Entries
  <1> QED BY <1>2, <1>4, LapseImplements

LEMMA ExpiryImplements ==
    ASSUME PromiseInv, ExpireBookings
    PROVE  Promise!Next
  <1>1. want' = want /\ now' = now
    BY DEF ExpireBookings, locksVars
  <1>2. ASSUME NEW c \in Creates, NEW s \in Seats
        PROVE  \/ booking'[c][s] = booking[c][s]
               \/ booking'[c][s].status = "expired" /\ booking[c][s].status = "pending"
    BY <1>2, ExpiredRow DEF PromiseInv, CreateInv
  <1>3. ASSUME NEW c \in Creates
        PROVE  bookedSeats'[c] = bookedSeats[c] /\ soldSeats'[c] = soldSeats[c]
    <2>1. \A s \in Seats :
             /\ booking'[c][s].status # "absent" <=> booking[c][s].status # "absent"
             /\ booking'[c][s].status = "confirmed" <=> booking[c][s].status = "confirmed"
      BY <1>2
    <2> QED BY <2>1 DEF bookedSeats, soldSeats, StoredSeats
  <1>4. ASSUME NEW c \in Creates
        PROVE  reservedSeats'[c] \subseteq reservedSeats[c]
    BY <1>1, <1>2, Entries
  <1> QED BY <1>1, <1>3, <1>4, LapseImplements

\* BookingsService keeps the promise: whatever calls, faults and clock do in
\* between, seats are granted as a whole and to one code only, sold or taken
\* back by the calls for that code, and lapse without touching what is sold.
THEOREM BookingsImplementReservations ==
    ASSUME Timely PROVE Spec => ImplementsReservations
  <1>1. Init => Promise!Init
    BY BookingsAssumption
       DEF Init, LocksInit, Promise!Init, askedSeats, bookedSeats, reservedSeats,
           soldSeats, StoredSeats, Absent
  <1>2. PromiseInv /\ [Next]_vars => [Promise!Next]_(Promise!vars)
    <2> SUFFICES ASSUME PromiseInv, [Next]_vars
                 PROVE  Promise!Next \/ UNCHANGED Promise!vars
      OBVIOUS
    <2>1. CASE \E o \in Ops : Begin(o)
      BY <2>1, BeginImplements
    <2>2. CASE ~(\E o \in Ops : Begin(o))
      <3>1. want' = want
        BY <2>2, WantKept DEF Next, Tick, ExpireBookings, ToggleSeat, Lapse,
                              LapseLock, vars, locksVars
      <3>2. ASSUME NEW o \in Ops, pc[o] \in {"insert", "expire", "write"},
                   booking' = Written(o), now' = now
            PROVE  Promise!Next
        BY <3>1, <3>2, InsertImplements, WriteImplements
      <3>3. TypeOK
        BY DEF PromiseInv, CreateInv
      <3> QED BY <3>1, <3>2, <3>3, TimeImplements, ExpiryImplements, TableStep
    <2> QED BY <2>1, <2>2
  <1> QED BY <1>1, <1>2, PromiseInvariance, PTL
      DEF Spec, ImplementsReservations, Promise!Spec
------------------------------------------------------------------------------
(* What follows.                                                           *)

\* Every confirmation is written while the reservation is still in time.
ConfirmsReserved == \A c \in Creates, s \in Seats :
                       booking'[c][s].status = "confirmed" => Occupies(c, s)
ConfirmedInTime  == [][ConfirmsReserved]_vars

\* The promise of the README, with the one condition it lacks: no seat is ever
\* booked twice unless a confirmation is written after its reservation ended.
THEOREM OneBookingIfInTime ==
    ASSUME Timely PROVE Spec /\ ConfirmedInTime => []OneBookingPerSeat
  <1>1. [ConfirmsReserved]_vars => [Promise!SellsReserved]_(Promise!vars)
    <2>1. CASE UNCHANGED vars
      BY <2>1 DEF vars, locksVars, Promise!vars, askedSeats, bookedSeats,
                  reservedSeats, soldSeats, StoredSeats
    <2>2. CASE ConfirmsReserved
      BY <2>2, Entries DEF ConfirmsReserved, Promise!SellsReserved, Promise!Taken,
                           Occupies
    <2> QED BY <2>1, <2>2
  <1>2. ConfirmedInTime => Promise!SalesInTime
    BY <1>1, PTL DEF ConfirmedInTime, Promise!SalesInTime
  <1>3. Promise!OneHolderPerSeat => OneBookingPerSeat
    BY Entries
       DEF Promise!OneHolderPerSeat, Promise!Taken, OneBookingPerSeat, OneOccupant,
           Occupies
  <1>4. Spec => Promise!Spec
    BY Timely, BookingsImplementReservations DEF ImplementsReservations
  <1> QED BY <1>2, <1>3, <1>4, Promise!OneHolderIfInTime, PTL
==============================================================================
