---------------------------- MODULE Bookings_proofs ----------------------------
(***************************************************************************)
(* What module Bookings promises for any number of seats, customers and    *)
(* operations, any timeout and any mixture of faults, as long as no lock   *)
(* lapses under its owner.                                                 *)
(***************************************************************************)
EXTENDS Bookings, SeatLocks_proofs, TLAPS
------------------------------------------------------------------------------
(* Types.                                                                  *)

\* The rows that the pending write of an operation stores are rows.
LEMMA NewRowType ==
    ASSUME NEW o \in Ops, NEW r \in Row, TypeOK
    PROVE  NewRow(o, r) \in Row
  BY DEF NewRow, ConfirmedRow, CancelledRow, TypeOK, Row, Statuses

LEMMA WrittenType ==
    ASSUME NEW o \in Ops, TypeOK
    PROVE  Written(o) \in [Creates -> [Seats -> Row]]
  <1>1. \A c \in Creates, s \in Seats : booking[c][s] \in Row
    BY DEF TypeOK
  <1> QED BY <1>1, NewRowType DEF Written, WrittenSeats

\* A lookup picks a set of existing seats and a row of the table.
LEMMA LookupType ==
    ASSUME NEW e \in Ops, NEW k \in Kinds, NEW c \in Creates,
           NEW S \in Selections(k, c), TypeOK, Lookup(e, k, c, S)
    PROVE  /\ S \in SUBSET Seats
           /\ OverdueSeats(k, c, S) \in SUBSET Seats
           /\ entity' \in [Ops -> Row]
           /\ kind' \in [Ops -> Kinds \cup {"create", "none"}]
           /\ code' \in [Ops -> Creates \cup {Null}]
           /\ UNCHANGED <<now, active, booking, charged>>
  <1>1. S \in SUBSET Seats
    BY DEF Selections, StoredSeats
  <1>2. OverdueSeats(k, c, S) \in SUBSET Seats
    BY <1>1 DEF OverdueSeats
  <1>3. (CHOOSE s \in S : TRUE) \in Seats
    BY <1>1 DEF Lookup
  <1>4. entity' \in [Ops -> Row]
    BY <1>3 DEF TypeOK, Lookup
  <1> QED BY <1>1, <1>2, <1>4 DEF TypeOK, Lookup

\* The beginning of an operation keeps the types.
LEMMA BeginType ==
    ASSUME NEW o \in Ops, TypeOK, Begin(o)
    PROVE  TypeOK'
  <1>1. ASSUME o \in Creates, CreateBooking(o)
        PROVE  TypeOK'
    <2>1. PICK S \in Requests : StartLocking(o, S)
      BY <1>1 DEF CreateBooking
    <2>2. LocksTypeOK'
      BY <2>1, StartLockingType, BookingsAssumption DEF TypeOK
    <2> QED BY <1>1, <2>2 DEF TypeOK, CreateBooking, Phases
  <1>2. ASSUME NotFound(o)
        PROVE  TypeOK'
    BY <1>2 DEF TypeOK, NotFound, Phases, Results, LocksTypeOK, locksVars
  <1>3. ASSUME NEW k \in Kinds, NEW c \in Creates, NEW S \in Selections(k, c),
               LookupRefused(o, k, c, S)
        PROVE  TypeOK'
    <2>1. Lookup(o, k, c, S)
      BY <1>3 DEF LookupRefused
    <2> QED BY <1>3, <2>1, LookupType
            DEF TypeOK, LookupRefused, Phases, Results, LocksTypeOK, locksVars
  <1>4. ASSUME NEW k \in Kinds, NEW c \in Creates, NEW S \in Selections(k, c),
               LookupOverdue(o, k, c, S)
        PROVE  TypeOK'
    <2>1. Lookup(o, k, c, S)
      BY <1>4 DEF LookupOverdue
    <2>2. LocksTypeOK'
      BY <1>4, <2>1, LookupType DEF TypeOK, LookupOverdue, LocksTypeOK
    <2> QED BY <1>4, <2>1, <2>2, LookupType DEF TypeOK, LookupOverdue, Phases
  <1>5. ASSUME NEW k \in Kinds, NEW c \in Creates, NEW S \in Selections(k, c),
               LookupAccepted(o, k, c, S)
        PROVE  TypeOK'
    <2>1. Lookup(o, k, c, S)
      BY <1>5 DEF LookupAccepted
    <2>2. LocksTypeOK'
      BY <1>5, <2>1, LookupType, StartLockingType DEF TypeOK, LookupAccepted
    <2> QED BY <1>5, <2>1, <2>2, LookupType DEF TypeOK, LookupAccepted, Phases
  <1> QED BY <1>1, <1>2, <1>3, <1>4, <1>5 DEF Begin

\* The steps of an operation keep the types.
LEMMA StepType ==
    ASSUME NEW o \in Ops, TypeOK, Step(o)
    PROVE  TypeOK'
  <1>1. ASSUME NEW s \in Seats, AcquireSeat(o, s)
        PROVE  TypeOK'
    <2>1. LocksTypeOK'
      BY <1>1, AcquireLockType DEF TypeOK, AcquireSeat
    <2>2. pc' \in [Ops -> Phases] /\ result' \in [Ops -> Results]
      BY <1>1 DEF TypeOK, AcquireSeat, FirstUnderLock, AfterRefusal, Phases, Results
    <2> QED BY <1>1, <2>1, <2>2 DEF TypeOK, AcquireSeat
  <1>2. ASSUME NEW s \in Seats, ReleaseSeat(o, s)
        PROVE  TypeOK'
    <2>1. LocksTypeOK'
      BY <1>2, ReleaseLockType DEF TypeOK, ReleaseSeat
    <2> QED BY <1>2, <2>1 DEF TypeOK, ReleaseSeat, Phases
  <1>3. ASSUME FindSeats(o)
        PROVE  TypeOK'
    BY <1>3 DEF TypeOK, FindSeats, Leave, Phases, Results, LocksTypeOK, locksVars
  <1>4. ASSUME FindActiveBookings(o)
        PROVE  TypeOK'
    <2>1. [status |-> "pending", expiresAt |-> now + Timeout, txn |-> Null] \in Row
      BY BookingsAssumption DEF TypeOK, Row, Statuses
    <2>2. entity' \in [Ops -> Row]
      BY <1>4, <2>1 DEF TypeOK, FindActiveBookings
    <2> QED BY <1>4, <2>2
            DEF TypeOK, FindActiveBookings, Leave, Phases, Results, LocksTypeOK, locksVars
  <1>5. ASSUME InsertBookings(o) \/ ExpireFound(o) \/ WriteBookings(o)
        PROVE  TypeOK'
    <2>1. booking' = Written(o)
      BY <1>5 DEF InsertBookings, ExpireFound, WriteBookings
    <2> QED BY <1>5, <2>1, WrittenType
            DEF TypeOK, InsertBookings, ExpireFound, WriteBookings, Leave, Phases,
                Results, LocksTypeOK, locksVars
  <1>6. ASSUME ProcessPayment(o)
        PROVE  TypeOK'
    BY <1>6 DEF TypeOK, ProcessPayment, Leave, Phases, Results, LocksTypeOK, locksVars
  <1> QED BY <1>1, <1>2, <1>3, <1>4, <1>5, <1>6 DEF Step

\* The faults keep the types.
LEMMA FaultType ==
    ASSUME NEW o \in Ops, TypeOK, Fault(o)
    PROVE  TypeOK'
  <1>1. ASSUME Crash(o)
        PROVE  TypeOK'
    BY <1>1, CrashLocksType DEF TypeOK, Crash, Phases
  <1>2. ASSUME RedisFails(o)
        PROVE  TypeOK'
    BY <1>2, RedisErrorType DEF TypeOK, RedisFails, Phases, Results
  <1>3. ASSUME DbFails(o)
        PROVE  TypeOK'
    <2>1. booking' \in [Creates -> [Seats -> Row]]
      BY <1>3, WrittenType DEF TypeOK, DbFails, AfterDbError
    <2>2. pc' \in [Ops -> Phases] /\ result' \in [Ops -> Results]
      BY <1>3 DEF TypeOK, DbFails, Phases, Results
    <2> QED BY <1>3, <2>1, <2>2 DEF TypeOK, DbFails, LocksTypeOK, locksVars
  <1> QED BY <1>1, <1>2, <1>3 DEF Fault

\* Time, the cron job, the administrator and lapsing keys keep the types.
LEMMA EnvironmentType ==
    ASSUME TypeOK,
           \/ Tick
           \/ ExpireBookings
           \/ \E s \in Toggled : ToggleSeat(s)
           \/ \E s \in Seats : Lapse(s)
    PROVE  TypeOK'
  <1>1. ASSUME Tick
        PROVE  TypeOK'
    BY <1>1 DEF TypeOK, Tick, opVars, LocksTypeOK, locksVars
  <1>2. ASSUME ExpireBookings
        PROVE  TypeOK'
    <2>1. \A r \in Row : [r EXCEPT !.status = "expired"] \in Row
      BY DEF Row, Statuses
    <2>2. \A c \in Creates, s \in Seats : booking[c][s] \in Row
      BY DEF TypeOK
    <2>3. booking' \in [Creates -> [Seats -> Row]]
      BY <1>2, <2>1, <2>2 DEF ExpireBookings
    <2> QED BY <1>2, <2>3 DEF TypeOK, ExpireBookings, opVars, LocksTypeOK, locksVars
  <1>3. ASSUME NEW s \in Toggled, ToggleSeat(s)
        PROVE  TypeOK'
    BY <1>3, BookingsAssumption DEF TypeOK, ToggleSeat, opVars, LocksTypeOK, locksVars
  <1>4. ASSUME NEW s \in Seats, Lapse(s)
        PROVE  TypeOK'
    BY <1>4, LapseLockType DEF TypeOK, Lapse, opVars
  <1> QED BY <1>1, <1>2, <1>3, <1>4

\* Type correctness of the whole system.
THEOREM TypeCorrect == Spec => []TypeOK
  <1>1. Init => TypeOK
    BY DEF Init, LocksInit, TypeOK, LocksTypeOK, Phases, Results, Row, Statuses,
           Absent
  <1>2. TypeOK /\ [Next]_vars => TypeOK'
    <2> SUFFICES ASSUME TypeOK, [Next]_vars
                 PROVE  TypeOK'
      OBVIOUS
    <2>1. CASE UNCHANGED vars
      BY <2>1 DEF TypeOK, LocksTypeOK, vars, opVars, locksVars
    <2> QED BY <2>1, BeginType, StepType, FaultType, EnvironmentType DEF Next
  <1> QED BY <1>1, <1>2, PTL DEF Spec
------------------------------------------------------------------------------
(* The inductive invariant.                                                *)

\* The keys of all its seats are in the hands of an operation that works.
KeysHeld == \A o \in Ops : InWork(o) => mine[o] = want[o]

\* Creates go one way through their phases, the other calls another way.
PhaseFits ==
    \A o \in Ops :
        /\ pc[o] \in {"seats", "bookings", "insert"} => kind[o] = "create"
        /\ pc[o] = "pay" => kind[o] \in ConfirmKinds
        /\ pc[o] \in {"expire", "write"} => kind[o] # "create"
        /\ pc[o] = "lock" => kind[o] \in {"create"} \cup Kinds
        /\ pc[o] \notin {"idle", "release", "done", "crashed"} => code[o] \in Creates

\* A call that works on bookings found them in the table, and no booking is
\* ever deleted.
RowsStored ==
    \A o \in Ops :
        /\ pc[o] \in {"lock", "expire", "pay", "write"}
        /\ kind[o] # "create"
        => \A s \in want[o] : booking[code[o]][s].status # "absent"

\* A pending row has a deadline, and so has a row about to be inserted.
Deadlines ==
    /\ \A c \in Creates, s \in Seats :
          booking[c][s].status = "pending" => booking[c][s].expiresAt \in Nat
    /\ \A o \in Ops : pc[o] = "insert" =>
          entity[o].status = "pending" /\ entity[o].expiresAt \in Nat

\* Nobody takes a seat between the check of a create and its insert.
StillFree == \A o \in Ops : pc[o] = "insert" => \A s \in want[o] : Free(s)

Inv == /\ TypeOK
       /\ TokensValid
       /\ KeysHeld
       /\ PhaseFits
       /\ RowsStored
       /\ Deadlines
       /\ StillFree
------------------------------------------------------------------------------
(* Locks.                                                                  *)

\* Bookings does nothing to the locks that SeatLocks does not do, except that
\* a confirmation that found overdue rows notes their seats in want.
LEMMA TokensStep ==
    ASSUME Timely, TypeOK, TokensValid, [Next]_vars
    PROVE  TokensValid'
  <1>1. CASE UNCHANGED <<lock, mine>>
    BY <1>1 DEF TokensValid
  <1>2. ASSUME NEW o \in Ops, Begin(o)
        PROVE  TokensValid'
    <2>1. UNCHANGED <<lock, mine>>
      BY <1>2 DEF Begin, CreateBooking, NotFound, LookupRefused, LookupOverdue,
                  LookupAccepted, StartLocking, locksVars
    <2> QED BY <1>1, <2>1
  <1>3. ASSUME NEW o \in Ops, Step(o)
        PROVE  TokensValid'
    <2>1. ASSUME NEW s \in Seats, AcquireSeat(o, s)
          PROVE  TokensValid'
      BY <2>1, AcquireLockTokens DEF AcquireSeat, LocksInv, TypeOK
    <2>2. ASSUME NEW s \in Seats, ReleaseSeat(o, s)
          PROVE  TokensValid'
      BY <2>2, ReleaseLockTokens DEF ReleaseSeat, LocksInv, TypeOK
    <2>3. CASE \/ FindSeats(o) \/ FindActiveBookings(o) \/ InsertBookings(o)
               \/ ExpireFound(o) \/ ProcessPayment(o) \/ WriteBookings(o)
      BY <1>1, <2>3 DEF FindSeats, FindActiveBookings, InsertBookings,
                        ExpireFound, ProcessPayment, WriteBookings, locksVars
    <2> QED BY <1>3, <2>1, <2>2, <2>3 DEF Step
  <1>4. ASSUME NEW o \in Ops, Fault(o)
        PROVE  TokensValid'
    <2>1. CASE Crash(o)
      BY <2>1, CrashLocksTokens DEF Crash, LocksInv, TypeOK
    <2>2. CASE RedisFails(o)
      BY <2>2, RedisErrorTokens DEF RedisFails, LocksInv, TypeOK
    <2>3. CASE DbFails(o)
      BY <1>1, <2>3 DEF DbFails, locksVars
    <2> QED BY <1>4, <2>1, <2>2, <2>3 DEF Fault
  <1>5. ASSUME NEW s \in Seats, Lapse(s)
        PROVE  TokensValid'
    BY <1>5, LapseLockTokens DEF Lapse, LocksInv, TypeOK
  <1>6. CASE Tick \/ ExpireBookings \/ \E s \in Toggled : ToggleSeat(s)
    BY <1>1, <1>6 DEF Tick, ExpireBookings, ToggleSeat, locksVars
  <1>7. CASE UNCHANGED vars
    BY <1>1, <1>7 DEF vars, locksVars
  <1> QED BY <1>2, <1>3, <1>4, <1>5, <1>6, <1>7 DEF Next

\* What a step of operation o leaves alone of the other operations.
Others(o) ==
    \A p \in Ops \ {o} : /\ pc'[p] = pc[p]
                         /\ kind'[p] = kind[p]
                         /\ code'[p] = code[p]
                         /\ entity'[p] = entity[p]
                         /\ want'[p] = want[p]
                         /\ mine'[p] = mine[p]

LEMMA BeginOthers ==
    ASSUME NEW o \in Ops, TypeOK, Begin(o)
    PROVE  Others(o)
  <1>1. CASE CreateBooking(o) \/ NotFound(o)
    BY <1>1 DEF Others, TypeOK, LocksTypeOK, CreateBooking, NotFound,
                StartLocking, locksVars
  <1>2. ASSUME NEW k \in Kinds, NEW c \in Creates, NEW S \in Selections(k, c),
               Lookup(o, k, c, S)
        PROVE  \A p \in Ops \ {o} : /\ kind'[p] = kind[p]
                                    /\ code'[p] = code[p]
                                    /\ entity'[p] = entity[p]
    BY <1>2 DEF TypeOK, Lookup
  <1>3. ASSUME NEW k \in Kinds, NEW c \in Creates, NEW S \in Selections(k, c),
               \/ LookupRefused(o, k, c, S)
               \/ LookupOverdue(o, k, c, S)
               \/ LookupAccepted(o, k, c, S)
        PROVE  Others(o)
    <2>1. Lookup(o, k, c, S)
      BY <1>3 DEF LookupRefused, LookupOverdue, LookupAccepted
    <2>2. \A p \in Ops \ {o} : /\ pc'[p] = pc[p]
                              /\ want'[p] = want[p]
                              /\ mine'[p] = mine[p]
      BY <1>3 DEF TypeOK, LocksTypeOK, LookupRefused, LookupOverdue,
                  LookupAccepted, StartLocking, locksVars
    <2> QED BY <1>2, <2>1, <2>2 DEF Others
  <1> QED BY <1>1, <1>3 DEF Begin

LEMMA StepOthers ==
    ASSUME NEW o \in Ops, TypeOK, Step(o)
    PROVE  Others(o)
  <1>1. ASSUME NEW s \in Seats, AcquireSeat(o, s) \/ ReleaseSeat(o, s)
        PROVE  Others(o)
    BY <1>1 DEF Others, TypeOK, LocksTypeOK, AcquireSeat, AcquireLock,
                ReleaseSeat, ReleaseLock
  <1>2. CASE \/ FindSeats(o) \/ FindActiveBookings(o) \/ InsertBookings(o)
             \/ ExpireFound(o) \/ ProcessPayment(o) \/ WriteBookings(o)
    BY <1>2 DEF Others, TypeOK, LocksTypeOK, FindSeats, FindActiveBookings,
                InsertBookings, ExpireFound, ProcessPayment, WriteBookings,
                Leave, locksVars
  <1> QED BY <1>1, <1>2 DEF Step

LEMMA FaultOthers ==
    ASSUME NEW o \in Ops, TypeOK, Fault(o)
    PROVE  Others(o)
  BY DEF Others, TypeOK, LocksTypeOK, Fault, Crash, CrashLocks, RedisFails,
         RedisError, Forget, DbFails, locksVars
------------------------------------------------------------------------------
(* Control.                                                                *)

\* Where an operation is after a step of its own, as far as the invariant can
\* tell: every way into a phase of the work is listed here.
LEMMA BeginPhase ==
    ASSUME NEW o \in Ops, TypeOK, Begin(o)
    PROVE  /\ pc'[o] \in {"lock", "done", "expire"}
           /\ pc'[o] = "lock" => kind'[o] \in {"create"} \cup Kinds
           /\ pc'[o] = "expire" => kind'[o] \in Kinds
           /\ pc'[o] \in {"lock", "expire"} => code'[o] \in Creates
           /\ pc'[o] \in {"lock", "expire"} /\ kind'[o] # "create" =>
                 \A s \in want'[o] : booking'[code'[o]][s].status # "absent"
  <1>1. CASE o \in Creates /\ CreateBooking(o)
    BY <1>1 DEF TypeOK, CreateBooking
  <1>2. CASE NotFound(o)
    BY <1>2 DEF TypeOK, NotFound
  <1>3. ASSUME NEW k \in Kinds, NEW c \in Creates, NEW S \in Selections(k, c),
               \/ LookupRefused(o, k, c, S)
               \/ LookupOverdue(o, k, c, S)
               \/ LookupAccepted(o, k, c, S)
        PROVE  /\ pc'[o] \in {"lock", "done", "expire"}
               /\ kind'[o] = k /\ code'[o] = c
               /\ pc'[o] \in {"lock", "expire"} =>
                     \A s \in want'[o] : booking'[code'[o]][s].status # "absent"
    <2>1. kind'[o] = k /\ code'[o] = c /\ booking' = booking
      BY <1>3 DEF TypeOK, LookupRefused, LookupOverdue, LookupAccepted, Lookup
    <2>2. S \subseteq StoredSeats(c)
      BY DEF Selections
    <2>3. OverdueSeats(k, c, S) \subseteq StoredSeats(c)
      BY <2>2 DEF OverdueSeats
    <2>4. CASE LookupRefused(o, k, c, S)
      BY <2>1, <2>4 DEF TypeOK, LookupRefused
    <2>5. CASE LookupOverdue(o, k, c, S)
      <3>1. want'[o] = OverdueSeats(k, c, S) /\ pc'[o] = "expire"
        BY <2>5 DEF TypeOK, LocksTypeOK, LookupOverdue
      <3> QED BY <2>1, <2>3, <3>1 DEF StoredSeats
    <2>6. CASE LookupAccepted(o, k, c, S)
      <3>1. want'[o] = S /\ pc'[o] = "lock"
        BY <2>6 DEF TypeOK, LocksTypeOK, LookupAccepted, StartLocking
      <3> QED BY <2>1, <2>2, <3>1 DEF StoredSeats
    <2> QED BY <1>3, <2>1, <2>4, <2>5, <2>6
  <1> QED BY <1>1, <1>2, <1>3 DEF Begin

\* The work starts with all the keys in hand, and only the release loop gives
\* them back.
LEMMA KeysHeldStep ==
    ASSUME TypeOK, KeysHeld, [Next]_vars
    PROVE  KeysHeld'
  <1>1. ASSUME NEW o \in Ops, Others(o), InWork(o)' => mine'[o] = want'[o]
        PROVE  KeysHeld'
    BY <1>1 DEF KeysHeld, InWork, Others
  <1>2. ASSUME NEW o \in Ops, Begin(o)
        PROVE  KeysHeld'
    BY <1>1, <1>2, BeginOthers, BeginPhase DEF InWork
  <1>3. ASSUME NEW o \in Ops, Step(o)
        PROVE  KeysHeld'
    <2>1. ASSUME NEW s \in Seats, AcquireSeat(o, s)
          PROVE  InWork(o)' => mine'[o] = want'[o]
      BY <2>1 DEF TypeOK, AcquireSeat, AllLocked, AfterRefusal, InWork
    <2>2. ASSUME NEW s \in Seats, ReleaseSeat(o, s)
          PROVE  InWork(o)' => mine'[o] = want'[o]
      BY <2>2 DEF TypeOK, ReleaseSeat, InWork
    <2>3. ASSUME \/ FindSeats(o) \/ FindActiveBookings(o)
                 \/ InsertBookings(o) \/ ProcessPayment(o) \/ WriteBookings(o)
          PROVE  InWork(o)' => mine'[o] = want'[o]
      BY <2>3 DEF TypeOK, KeysHeld, InWork, FindSeats, FindActiveBookings,
                  InsertBookings, ProcessPayment, WriteBookings, locksVars
    <2>4. ASSUME ExpireFound(o)
          PROVE  InWork(o)' => mine'[o] = want'[o]
      BY <2>4 DEF TypeOK, InWork, ExpireFound
    <2> QED BY <1>1, <1>3, <2>1, <2>2, <2>3, <2>4, StepOthers DEF Step
  <1>4. ASSUME NEW o \in Ops, Fault(o)
        PROVE  KeysHeld'
    <2>1. ~InWork(o)'
      BY <1>4 DEF TypeOK, InWork, Fault, Crash, RedisFails, DbFails
    <2> QED BY <1>1, <1>4, <2>1, FaultOthers
  <1>5. CASE UNCHANGED <<pc, mine, want>>
    BY <1>5 DEF KeysHeld, InWork
  <1> QED BY <1>2, <1>3, <1>4, <1>5
          DEF Next, Tick, ExpireBookings, ToggleSeat, Lapse, LapseLock, vars,
              opVars, locksVars
\* Which phase follows which depends on the kind of the call.
LEMMA PhaseFitsStep ==
    ASSUME TypeOK, PhaseFits, [Next]_vars
    PROVE  PhaseFits'
  <1> DEFINE Fits(o) ==
          /\ pc[o] \in {"seats", "bookings", "insert"} => kind[o] = "create"
          /\ pc[o] = "pay" => kind[o] \in ConfirmKinds
          /\ pc[o] \in {"expire", "write"} => kind[o] # "create"
          /\ pc[o] = "lock" => kind[o] \in {"create"} \cup Kinds
          /\ pc[o] \notin {"idle", "release", "done", "crashed"} => code[o] \in Creates
  <1>1. ASSUME NEW o \in Ops, Others(o), Fits(o)'
        PROVE  PhaseFits'
    BY <1>1 DEF PhaseFits, Others
  <1>2. ASSUME NEW o \in Ops, Begin(o)
        PROVE  PhaseFits'
    BY <1>1, <1>2, BeginOthers, BeginPhase, BookingsAssumption
       DEF ConfirmKinds, CancelKinds
  <1>3. ASSUME NEW o \in Ops, Step(o)
        PROVE  PhaseFits'
    <2>1. ASSUME NEW s \in Seats, AcquireSeat(o, s) \/ ReleaseSeat(o, s)
          PROVE  Fits(o)'
      BY <2>1, BookingsAssumption
         DEF TypeOK, PhaseFits, AcquireSeat, ReleaseSeat, FirstUnderLock,
             AfterRefusal, ConfirmKinds, CancelKinds
    <2>2. ASSUME \/ FindSeats(o) \/ FindActiveBookings(o) \/ InsertBookings(o)
                 \/ ExpireFound(o) \/ ProcessPayment(o) \/ WriteBookings(o)
          PROVE  Fits(o)'
      BY <2>2 DEF TypeOK, PhaseFits, FindSeats, FindActiveBookings,
                  InsertBookings, ExpireFound, ProcessPayment, WriteBookings,
                  Leave, ConfirmKinds
    <2> QED BY <1>1, <1>3, <2>1, <2>2, StepOthers DEF Step
  <1>4. ASSUME NEW o \in Ops, Fault(o)
        PROVE  PhaseFits'
    <2>1. pc'[o] \in {"crashed", "done", "release"}
      BY <1>4 DEF TypeOK, Fault, Crash, RedisFails, DbFails
    <2> QED BY <1>1, <1>4, <2>1, FaultOthers
  <1>5. CASE UNCHANGED <<pc, kind, code>>
    BY <1>5 DEF PhaseFits
  <1> QED BY <1>2, <1>3, <1>4, <1>5
          DEF Next, Tick, ExpireBookings, ToggleSeat, Lapse, vars, opVars
------------------------------------------------------------------------------
(* The table.                                                              *)

\* What a write of an operation does to the rows it names.
LEMMA NewRowStatus ==
    ASSUME NEW o \in Ops, NEW r \in Row, TypeOK, PhaseFits, Deadlines,
           pc[o] \in {"insert", "expire", "write"}
    PROVE  /\ NewRow(o, r).status # "absent"
           /\ NewRow(o, r).status = "pending" =>
                 pc[o] = "insert" /\ NewRow(o, r).expiresAt \in Nat
           /\ pc[o] = "expire" => NewRow(o, r).status = "expired"
           /\ pc[o] = "write" => NewRow(o, r).status \in {"confirmed", "cancelled"}
           /\ pc[o] = "insert" => NewRow(o, r).status = "pending"
  <1>1. entity[o] \in Row
    BY DEF TypeOK
  <1>2. CASE pc[o] = "insert"
    <2>1. kind[o] = "create"
      BY <1>2 DEF PhaseFits
    <2>2. NewRow(o, r) = entity[o]
      BY <1>2, <2>1 DEF NewRow, GroupKinds
    <2> QED BY <1>2, <2>2 DEF Deadlines
  <1> DEFINE base == IF kind[o] \in GroupKinds THEN r ELSE entity[o]
  <1>3. /\ base \in Row
        /\ [base EXCEPT !.status = "expired"].status = "expired"
        /\ CancelledRow(base).status = "cancelled"
        /\ ConfirmedRow(o, base).status = "confirmed"
    <2>1. base \in Row
      BY <1>1
    <2> HIDE DEF base
    <2> QED BY <2>1 DEF Row, ConfirmedRow, CancelledRow
  <1>4. CASE pc[o] = "expire"
    <2>1. NewRow(o, r) = [base EXCEPT !.status = "expired"]
      BY <1>4 DEF NewRow
    <2> HIDE DEF base
    <2> QED BY <1>3, <1>4, <2>1
  <1>5. CASE pc[o] = "write"
    <2>1. NewRow(o, r) \in {ConfirmedRow(o, base), CancelledRow(base)}
      BY <1>5 DEF NewRow
    <2> HIDE DEF base
    <2> QED BY <1>3, <1>5, <2>1
  <1> QED BY <1>2, <1>4, <1>5

\* All the ways the table changes: the pending write of an operation, or the
\* cron job.
LEMMA TableStep ==
    ASSUME TypeOK, [Next]_vars
    PROVE  \/ booking' = booking
           \/ /\ now' = now
              /\ \E o \in Ops : /\ pc[o] \in {"insert", "expire", "write"}
                                /\ booking' = Written(o)
                                /\ Others(o)
                                /\ pc'[o] \in {"done", "release"}
           \/ ExpireBookings
  <1>1. ASSUME NEW o \in Ops, Begin(o)
        PROVE  booking' = booking
    BY <1>1 DEF Begin, CreateBooking, NotFound, LookupRefused, LookupOverdue,
                LookupAccepted, Lookup
  <1>2. ASSUME NEW o \in Ops, Step(o)
        PROVE  \/ booking' = booking
               \/ /\ now' = now
                  /\ pc[o] \in {"insert", "expire", "write"}
                  /\ booking' = Written(o)
                  /\ pc'[o] \in {"done", "release"}
    BY <1>2 DEF TypeOK, Step, AcquireSeat, ReleaseSeat, FindSeats,
                FindActiveBookings, InsertBookings, ExpireFound,
                ProcessPayment, WriteBookings, Leave
  <1>3. ASSUME NEW o \in Ops, Fault(o)
        PROVE  \/ booking' = booking
               \/ /\ now' = now
                  /\ pc[o] \in {"insert", "expire", "write"}
                  /\ booking' = Written(o)
                  /\ pc'[o] \in {"done", "release"}
    BY <1>3 DEF TypeOK, Fault, Crash, RedisFails, DbFails, AfterDbError
  <1>4. CASE Tick \/ (\E s \in Toggled : ToggleSeat(s)) \/ (\E s \in Seats : Lapse(s))
    BY <1>4 DEF Tick, ToggleSeat, Lapse
  <1>5. CASE UNCHANGED vars
    BY <1>5 DEF vars
  <1> QED BY <1>1, <1>2, <1>3, <1>4, <1>5, StepOthers, FaultOthers DEF Next

\* The row of a seat after a write of an operation.
LEMMA WrittenRow ==
    ASSUME NEW o \in Ops, NEW c \in Creates, NEW s \in Seats
    PROVE  Written(o)[c][s] = IF c = code[o] /\ s \in want[o]
                              THEN NewRow(o, booking[c][s])
                              ELSE booking[c][s]
  BY DEF Written, WrittenSeats

\* The row of a seat after the cron job.
LEMMA ExpiredRow ==
    ASSUME NEW c \in Creates, NEW s \in Seats, TypeOK, ExpireBookings
    PROVE  \/ booking'[c][s] = booking[c][s]
           \/ booking'[c][s].status = "expired" /\ booking[c][s].status = "pending"
  <1>1. booking[c][s] \in Row
    BY DEF TypeOK
  <1> QED BY <1>1 DEF ExpireBookings, Overdue, Row

\* No booking disappears from the table.
LEMMA NeverDeleted ==
    ASSUME NEW c \in Creates, NEW s \in Seats, TypeOK, PhaseFits, Deadlines,
           [Next]_vars, booking[c][s].status # "absent"
    PROVE  booking'[c][s].status # "absent"
  <1>1. booking[c][s] \in Row
    BY DEF TypeOK
  <1>2. ASSUME NEW o \in Ops, pc[o] \in {"insert", "expire", "write"},
               booking' = Written(o)
        PROVE  booking'[c][s].status # "absent"
    BY <1>1, <1>2, NewRowStatus, WrittenRow
  <1>3. CASE ExpireBookings
    BY <1>3, ExpiredRow
  <1> QED BY <1>2, <1>3, TableStep

\* What a call found in the table stays there.
LEMMA RowsStoredStep ==
    ASSUME TypeOK, PhaseFits, Deadlines, RowsStored, [Next]_vars
    PROVE  RowsStored'
  <1> DEFINE Editing(o) == /\ pc[o] \in {"lock", "expire", "pay", "write"}
                           /\ kind[o] # "create"
             Stored(o) == \A s \in want[o] : booking[code[o]][s].status # "absent"
  <1>1. ASSUME NEW o \in Ops, Editing(o), code'[o] = code[o], want'[o] = want[o]
        PROVE  Stored(o)'
    <2>1. code[o] \in Creates /\ want[o] \subseteq Seats
      BY <1>1 DEF TypeOK, LocksTypeOK, PhaseFits
    <2>2. \A s \in want[o] : booking[code[o]][s].status # "absent"
      BY <1>1 DEF RowsStored
    <2> QED BY <1>1, <2>1, <2>2, NeverDeleted
  <1>2. ASSUME NEW o \in Ops, Others(o), Editing(o)' => Stored(o)'
        PROVE  RowsStored'
    <2>1. ASSUME NEW p \in Ops \ {o}, Editing(p)'
          PROVE  Stored(p)'
      BY <1>1, <1>2, <2>1 DEF Others
    <2> QED BY <1>2, <2>1 DEF RowsStored
  <1>3. ASSUME NEW o \in Ops, Begin(o)
        PROVE  RowsStored'
    <2>1. Editing(o)' => Stored(o)'
      BY <1>3, BeginPhase
    <2> HIDE DEF Editing, Stored
    <2> QED BY <1>2, <1>3, <2>1, BeginOthers
  <1>4. ASSUME NEW o \in Ops, Step(o)
        PROVE  RowsStored'
    <2>1. Editing(o)' => Editing(o)
      BY <1>4 DEF TypeOK, PhaseFits, Step, AcquireSeat, ReleaseSeat, FindSeats,
                  FindActiveBookings, InsertBookings, ExpireFound,
                  ProcessPayment, WriteBookings, Leave, FirstUnderLock,
                  AfterRefusal, ConfirmKinds
    <2>2. code'[o] = code[o] /\ want'[o] = want[o]
      BY <1>4 DEF Step, AcquireSeat, AcquireLock, ReleaseSeat, ReleaseLock,
                  FindSeats, FindActiveBookings, InsertBookings, ExpireFound,
                  ProcessPayment, WriteBookings, locksVars
    <2> HIDE DEF Editing, Stored
    <2> QED BY <1>1, <1>2, <1>4, <2>1, <2>2, StepOthers
  <1>5. ASSUME NEW o \in Ops, Fault(o)
        PROVE  RowsStored'
    <2>1. ~Editing(o)'
      BY <1>5 DEF TypeOK, Fault, Crash, RedisFails, DbFails
    <2> HIDE DEF Editing, Stored
    <2> QED BY <1>2, <1>5, <2>1, FaultOthers
  <1>6. CASE UNCHANGED <<pc, kind, code, want>>
    <2>1. ASSUME NEW o \in Ops, Editing(o)'
          PROVE  Stored(o)'
      BY <1>1, <1>6, <2>1
    <2> QED BY <2>1 DEF RowsStored
  <1> QED BY <1>3, <1>4, <1>5, <1>6
          DEF Next, Tick, ExpireBookings, ToggleSeat, Lapse, LapseLock, vars,
              opVars, locksVars

\* A deadline is set with the reservation and removed only with its status.
LEMMA DeadlinesStep ==
    ASSUME TypeOK, PhaseFits, Deadlines, [Next]_vars
    PROVE  Deadlines'
  <1>1. ASSUME NEW c \in Creates, NEW s \in Seats, booking'[c][s].status = "pending"
        PROVE  booking'[c][s].expiresAt \in Nat
    <2>1. booking[c][s] \in Row
      BY DEF TypeOK
    <2>2. CASE booking'[c][s] = booking[c][s]
      BY <1>1, <2>2 DEF Deadlines
    <2>3. ASSUME NEW o \in Ops, pc[o] \in {"insert", "expire", "write"},
                 booking' = Written(o)
          PROVE  booking'[c][s].expiresAt \in Nat
      BY <1>1, <2>1, <2>2, <2>3, NewRowStatus, WrittenRow
    <2>4. CASE ExpireBookings
      BY <1>1, <2>2, <2>4, ExpiredRow
    <2> QED BY <2>2, <2>3, <2>4, TableStep
  <1>2. ASSUME NEW o \in Ops, pc'[o] = "insert"
        PROVE  entity'[o].status = "pending" /\ entity'[o].expiresAt \in Nat
    <2>1. CASE pc[o] = "insert" /\ entity'[o] = entity[o]
      BY <2>1 DEF Deadlines
    <2>2. ASSUME NEW p \in Ops, p # o, Others(p)
          PROVE  pc[o] = "insert" /\ entity'[o] = entity[o]
      BY <1>2, <2>2 DEF Others
    <2>3. CASE FindActiveBookings(o)
      BY <1>2, <2>3, BookingsAssumption DEF TypeOK, FindActiveBookings, Leave
    <2>4. ASSUME Begin(o) \/ Fault(o)
          PROVE  FALSE
      BY <1>2, <2>4, BeginPhase DEF TypeOK, Fault, Crash, RedisFails, DbFails
    <2>5. ASSUME Step(o), ~FindActiveBookings(o)
          PROVE  FALSE
      BY <1>2, <2>5 DEF TypeOK, Step, AcquireSeat, ReleaseSeat, FindSeats,
              InsertBookings, ExpireFound, ProcessPayment, WriteBookings, Leave,
              FirstUnderLock, AfterRefusal
    <2>6. CASE UNCHANGED <<pc, entity>>
      BY <1>2, <2>1, <2>6
    <2> QED BY <2>1, <2>2, <2>3, <2>4, <2>5, <2>6, BeginOthers, StepOthers, FaultOthers
            DEF Next, Tick, ExpireBookings, ToggleSeat, Lapse, vars, opVars
  <1> QED BY <1>1, <1>2 DEF Deadlines
------------------------------------------------------------------------------
(* Exclusion.                                                              *)

\* Two operations that work have different tokens under their seats' keys.
LEMMA WorkExcludes ==
    ASSUME TokensValid, KeysHeld
    PROVE  ExclusiveWork
  BY DEF TokensValid, KeysHeld, ExclusiveWork

\* Only a tick moves the clock.
LEMMA ClockStep ==
    ASSUME [Next]_vars
    PROVE  now' \in {now, now + 1}
  <1>1. ASSUME NEW o \in Ops, Begin(o)
        PROVE  now' = now
    BY <1>1 DEF Begin, CreateBooking, NotFound, LookupRefused, LookupOverdue,
                LookupAccepted, Lookup
  <1>2. ASSUME NEW o \in Ops, Step(o)
        PROVE  now' = now
    BY <1>2 DEF Step, AcquireSeat, ReleaseSeat, FindSeats, FindActiveBookings,
                InsertBookings, ExpireFound, ProcessPayment, WriteBookings
  <1>3. ASSUME NEW o \in Ops, Fault(o)
        PROVE  now' = now
    BY <1>3 DEF Fault, Crash, RedisFails, DbFails
  <1>4. CASE UNCHANGED vars
    BY <1>4 DEF vars
  <1> QED BY <1>1, <1>2, <1>3, <1>4
          DEF Next, Tick, ExpireBookings, ToggleSeat, Lapse

\* A seat is newly occupied by an insert or by a confirmation only.
LEMMA GainedBy ==
    ASSUME NEW c \in Creates, NEW s \in Seats, Inv, [Next]_vars,
           ~Occupies(c, s), Occupies(c, s)'
    PROVE  \E o \in Ops : /\ code[o] = c
                          /\ s \in want[o]
                          /\ InWork(o)
                          /\ booking' = Written(o)
                          /\ now' = now
                          /\ pc'[o] \in {"done", "release"}
                          /\ \/ pc[o] = "insert"
                             \/ /\ pc[o] = "write"
                                /\ booking[c][s].status # "absent"
                                /\ booking'[c][s].status = "confirmed"
  <1>1. booking[c][s] \in Row
    BY DEF Inv, TypeOK
  <1>2. CASE booking'[c][s] = booking[c][s]
    <2>1. now' \in {now, now + 1} /\ now \in Nat
      BY ClockStep DEF Inv, TypeOK
    <2>2. booking[c][s].status = "pending" => booking[c][s].expiresAt \in Nat
      BY DEF Inv, Deadlines
    <2> QED BY <1>2, <2>1, <2>2 DEF Occupies
  <1>3. ASSUME NEW o \in Ops, pc[o] \in {"insert", "expire", "write"},
               booking' = Written(o), now' = now, pc'[o] \in {"done", "release"},
               booking'[c][s] # booking[c][s]
        PROVE  /\ code[o] = c
               /\ s \in want[o]
               /\ InWork(o)
               /\ \/ pc[o] = "insert"
                  \/ /\ pc[o] = "write"
                     /\ booking[c][s].status # "absent"
                     /\ booking'[c][s].status = "confirmed"
    <2>1. code[o] = c /\ s \in want[o] /\ booking'[c][s] = NewRow(o, booking[c][s])
      BY <1>3, WrittenRow
    <2>2. pc[o] # "expire"
      BY <1>1, <1>3, <2>1, NewRowStatus DEF Inv, Occupies
    <2>3. pc[o] = "write" => booking[c][s].status # "absent"
      BY <2>1 DEF Inv, RowsStored, PhaseFits
    <2>4. pc[o] = "write" => booking'[c][s].status = "confirmed"
      BY <1>1, <1>3, <2>1, NewRowStatus DEF Inv, Occupies
    <2> QED BY <1>3, <2>1, <2>2, <2>3, <2>4 DEF InWork
  <1>4. ASSUME ExpireBookings, booking'[c][s] # booking[c][s]
        PROVE  FALSE
    BY <1>4, ExpiredRow DEF Inv, Occupies
  <1> QED BY <1>2, <1>3, <1>4, TableStep DEF Inv

\* Where an insert is due the seats are free and nobody else works on them, so
\* they stay free until the insert.
LEMMA StillFreeStep ==
    ASSUME Inv, [Next]_vars
    PROVE  StillFree'
  <1> SUFFICES ASSUME NEW c \in Ops, pc'[c] = "insert",
                      NEW s \in want'[c], NEW d \in Creates, Occupies(d, s)'
               PROVE  FALSE
    BY DEF StillFree, Free
  <1>1. CASE FindActiveBookings(c)
    <2>1. want'[c] = want[c] /\ booking' = booking /\ now' = now
      BY <1>1 DEF FindActiveBookings, locksVars
    <2>2. ~BlocksSeat(booking[d][s])
      BY <1>1, <2>1 DEF Inv, TypeOK, FindActiveBookings, Leave
    <2> QED BY <2>1, <2>2 DEF Occupies, BlocksSeat
  <1>2. CASE pc[c] = "insert" /\ want'[c] = want[c]
    <2>1. s \in Seats /\ ~Occupies(d, s)
      BY <1>2 DEF Inv, TypeOK, LocksTypeOK, StillFree, Free
    <2>2. PICK o \in Ops : /\ s \in want[o]
                           /\ InWork(o)
                           /\ pc'[o] \in {"done", "release"}
      BY <2>1, GainedBy
    <2>3. o # c /\ InWork(c)
      BY <1>2, <2>2 DEF InWork
    <2> QED BY <1>2, <2>2, <2>3, WorkExcludes DEF Inv, ExclusiveWork
  <1>3. ASSUME NEW p \in Ops, p # c, Others(p)
        PROVE  pc[c] = "insert" /\ want'[c] = want[c]
    BY <1>3 DEF Others
  <1>4. ASSUME Begin(c) \/ Fault(c)
        PROVE  FALSE
    BY <1>4, BeginPhase DEF Inv, TypeOK, Fault, Crash, RedisFails, DbFails
  <1>5. ASSUME Step(c), ~FindActiveBookings(c)
        PROVE  FALSE
    BY <1>5 DEF Inv, TypeOK, Step, AcquireSeat, ReleaseSeat, FindSeats,
            InsertBookings, ExpireFound, ProcessPayment, WriteBookings, Leave,
            FirstUnderLock, AfterRefusal
  <1>6. CASE UNCHANGED <<pc, want>>
    BY <1>2, <1>6
  <1> QED BY <1>1, <1>2, <1>3, <1>4, <1>5, <1>6, BeginOthers, StepOthers, FaultOthers
          DEF Inv, Next, Tick, ExpireBookings, ToggleSeat, Lapse, LapseLock, vars,
              opVars, locksVars

\* The invariant holds in every state of every behaviour with timely locks.
THEOREM Invariance == ASSUME Timely PROVE Spec => []Inv
  <1>1. Init => Inv
    <2>1. Init => TypeOK
      BY DEF Init, LocksInit, TypeOK, LocksTypeOK, Phases, Results, Row,
             Statuses, Absent
    <2> QED BY <2>1 DEF Init, LocksInit, Inv, TokensValid, KeysHeld, InWork,
                        PhaseFits, RowsStored, Deadlines, StillFree, Absent
  <1>2. Inv /\ TypeOK' /\ [Next]_vars => Inv'
    BY Timely, TokensStep, KeysHeldStep, PhaseFitsStep, RowsStoredStep,
       DeadlinesStep, StillFreeStep DEF Inv
  <1> QED BY <1>1, <1>2, TypeCorrect, PTL DEF Spec

\* Two calls past acquireMultipleLocks work on disjoint sets of seats, for any
\* mixture of crashes, Redis errors and database errors.
THEOREM ExclusiveWorkHolds == ASSUME Timely PROVE Spec => []ExclusiveWork
  <1>1. Inv => ExclusiveWork
    BY WorkExcludes DEF Inv
  <1> QED BY <1>1, Invariance, PTL

\* A create books only seats that nobody occupies at the moment of its commit.
THEOREM InsertsAreSafe == ASSUME Timely PROVE Spec => InsertOnlyWhenFree
  <1>1. ASSUME Inv, [Next]_vars, NEW c \in Creates, NEW s \in Seats,
               booking[c][s].status = "absent", booking'[c][s].status # "absent"
        PROVE  Free(s)
    <2>1. booking[c][s] \in Row
      BY <1>1 DEF Inv, TypeOK
    <2>2. PICK o \in Ops : /\ pc[o] \in {"insert", "expire", "write"}
                           /\ booking' = Written(o)
      BY <1>1, <2>1, TableStep, ExpiredRow DEF Inv
    <2>3. code[o] = c /\ s \in want[o]
      BY <1>1, <2>2, WrittenRow
    <2>4. pc[o] = "insert"
      BY <1>1, <2>2, <2>3 DEF Inv, RowsStored, PhaseFits
    <2> QED BY <1>1, <2>3, <2>4 DEF Inv, StillFree
  <1>2. Inv /\ [Next]_vars =>
           [\A c \in Creates, s \in Seats :
               /\ booking[c][s].status = "absent"
               /\ booking'[c][s].status # "absent"
               => Free(s)]_vars
    BY <1>1
  <1> QED BY <1>2, Invariance, PTL DEF Spec, InsertOnlyWhenFree

\* A seat gets a second occupant only by a late confirmation: without one the
\* locks and the check of the active bookings prevent double bookings.
THEOREM DoubleBookingsAreLate ==
    ASSUME Timely PROVE Spec => DoubleBookingNeedsLateConfirm
  <1>1. ASSUME Inv, [Next]_vars, NEW s \in Seats, OneOccupant(s), ~OneOccupant(s)'
        PROVE  \E c \in Creates : /\ ~Occupies(c, s)
                                  /\ booking[c][s].status # "absent"
                                  /\ booking'[c][s].status = "confirmed"
    <2>1. PICK c \in Creates, d \in Creates :
              c # d /\ Occupies(c, s)' /\ Occupies(d, s)' /\ ~Occupies(c, s)
      BY <1>1 DEF OneOccupant
    <2>2. PICK o \in Ops :
              /\ code[o] = c
              /\ s \in want[o]
              /\ booking' = Written(o)
              /\ now' = now
              /\ \/ pc[o] = "insert"
                 \/ /\ booking[c][s].status # "absent"
                    /\ booking'[c][s].status = "confirmed"
      BY <1>1, <2>1, GainedBy
    <2>3. CASE pc[o] = "insert"
      <3>1. ~Occupies(d, s)
        BY <1>1, <2>2, <2>3 DEF Inv, StillFree, Free
      <3>2. booking'[d][s] = booking[d][s]
        BY <2>1, <2>2, WrittenRow
      <3> QED BY <2>1, <2>2, <3>1, <3>2 DEF Occupies
    <2> QED BY <2>1, <2>2, <2>3
  <1>2. Inv /\ [Next]_vars =>
           [\A s \in Seats : OneOccupant(s) /\ ~OneOccupant(s)' =>
               \E c \in Creates : /\ ~Occupies(c, s)
                                  /\ booking[c][s].status # "absent"
                                  /\ booking'[c][s].status = "confirmed"]_vars
    BY <1>1
  <1> QED BY <1>2, Invariance, PTL DEF Spec, DoubleBookingNeedsLateConfirm

\* Reservations, confirmations and cancellations are written under the key of
\* their seat.
THEOREM DecisionsAreLocked == ASSUME Timely PROVE Spec => OnlyHolderDecides
  <1>1. ASSUME Inv, [Next]_vars, NEW c \in Creates, NEW s \in Seats,
               booking'[c][s] # booking[c][s], booking'[c][s].status # "expired"
        PROVE  lock[s] # Null /\ code[lock[s]] = c /\ s \in want[lock[s]]
    <2>1. booking[c][s] \in Row
      BY <1>1 DEF Inv, TypeOK
    <2>2. PICK o \in Ops : /\ pc[o] \in {"insert", "expire", "write"}
                           /\ booking' = Written(o)
      BY <1>1, TableStep, ExpiredRow DEF Inv
    <2>3. /\ code[o] = c /\ s \in want[o]
          /\ booking'[c][s] = NewRow(o, booking[c][s])
      BY <1>1, <2>2, WrittenRow
    <2>4. pc[o] # "expire"
      BY <1>1, <2>1, <2>2, <2>3, NewRowStatus DEF Inv
    <2>5. s \in mine[o]
      BY <1>1, <2>2, <2>3, <2>4 DEF Inv, KeysHeld, InWork
    <2>6. lock[s] = o /\ o # Null
      BY <1>1, <2>5, LocksAssumption DEF Inv, TokensValid
    <2> QED BY <2>3, <2>6
  <1>2. Inv /\ [Next]_vars =>
           [\A c \in Creates, s \in Seats :
               /\ booking'[c][s] # booking[c][s]
               /\ booking'[c][s].status # "expired"
               => lock[s] # Null /\ code[lock[s]] = c /\ s \in want[lock[s]]]_vars
    BY <1>1
  <1> QED BY <1>2, Invariance, PTL DEF Spec, OnlyHolderDecides
------------------------------------------------------------------------------
(* The locks of SeatLocks at work.                                         *)

\* All the ways the lock state changes: an action of SeatLocks run by an
\* operation in a phase of its own, or the note of a confirmation that found
\* overdue rows.
LEMMA LockSteps ==
    ASSUME TypeOK, [Next]_vars
    PROVE  \/ UNCHANGED locksVars
           \/ \E o \in Ops, S \in SUBSET Seats :
                 /\ pc[o] = "idle" /\ pc'[o] = "lock" /\ S # {}
                 /\ StartLocking(o, S)
           \/ \E o \in Ops, S \in SUBSET Seats :
                 /\ pc[o] = "idle" /\ pc'[o] = "expire"
                 /\ want' = [want EXCEPT ![o] = S]
                 /\ UNCHANGED <<lock, todo, mine>>
           \/ \E o \in Ops, s \in Seats :
                 /\ pc[o] # "idle"
                 /\ AcquireLock(o, s) \/ ReleaseLock(o, s)
           \/ \E o \in Ops : pc[o] # "idle" /\ (CrashLocks(o) \/ RedisError(o))
           \/ \E s \in Seats : LapseLock(s)
  <1>1. ASSUME NEW o \in Ops, CreateBooking(o)
        PROVE  \E S \in SUBSET Seats : /\ pc[o] = "idle" /\ pc'[o] = "lock"
                                       /\ S # {} /\ StartLocking(o, S)
    BY <1>1, BookingsAssumption DEF TypeOK, CreateBooking
  <1>2. ASSUME NEW o \in Ops, NEW k \in Kinds, NEW c \in Creates,
               NEW S \in Selections(k, c), LookupOverdue(o, k, c, S)
        PROVE  \E T \in SUBSET Seats : /\ pc[o] = "idle" /\ pc'[o] = "expire"
                                       /\ want' = [want EXCEPT ![o] = T]
                                       /\ UNCHANGED <<lock, todo, mine>>
    <2>1. Lookup(o, k, c, S)
      BY <1>2 DEF LookupOverdue
    <2>2. OverdueSeats(k, c, S) \in SUBSET Seats
      BY <2>1, LookupType
    <2> QED BY <1>2, <2>1, <2>2 DEF TypeOK, LookupOverdue, Lookup
  <1>3. ASSUME NEW o \in Ops, NEW k \in Kinds, NEW c \in Creates,
               NEW S \in Selections(k, c), LookupAccepted(o, k, c, S)
        PROVE  \E T \in SUBSET Seats : /\ pc[o] = "idle" /\ pc'[o] = "lock"
                                       /\ T # {} /\ StartLocking(o, T)
    <2>1. Lookup(o, k, c, S)
      BY <1>3 DEF LookupAccepted
    <2>2. S \in SUBSET Seats
      BY <2>1, LookupType
    <2> QED BY <1>3, <2>1, <2>2 DEF TypeOK, LookupAccepted, Lookup
  <1>4. ASSUME NEW o \in Ops, NEW s \in Seats, AcquireSeat(o, s) \/ ReleaseSeat(o, s)
        PROVE  pc[o] # "idle" /\ (AcquireLock(o, s) \/ ReleaseLock(o, s))
    BY <1>4 DEF AcquireSeat, ReleaseSeat
  <1>5. ASSUME NEW o \in Ops,
               \/ FindSeats(o) \/ FindActiveBookings(o) \/ InsertBookings(o)
               \/ ExpireFound(o) \/ ProcessPayment(o) \/ WriteBookings(o)
        PROVE  UNCHANGED locksVars
    BY <1>5 DEF FindSeats, FindActiveBookings, InsertBookings, ExpireFound,
                ProcessPayment, WriteBookings
  <1>6. ASSUME NEW o \in Ops, Fault(o)
        PROVE  \/ pc[o] # "idle" /\ (CrashLocks(o) \/ RedisError(o))
               \/ UNCHANGED locksVars
    BY <1>6 DEF Fault, Crash, RedisFails, DbFails
  <1>7. ASSUME NEW o \in Ops, Begin(o)
        PROVE  \/ UNCHANGED locksVars
               \/ CreateBooking(o)
               \/ \E k \in Kinds, c \in Creates : \E S \in Selections(k, c) :
                     LookupOverdue(o, k, c, S) \/ LookupAccepted(o, k, c, S)
    BY <1>7 DEF Begin, NotFound, LookupRefused
  <1>8. CASE \/ Tick \/ ExpireBookings \/ UNCHANGED vars
             \/ (\E s \in Toggled : ToggleSeat(s)) \/ (\E s \in Seats : Lapse(s))
    BY <1>8 DEF Tick, ExpireBookings, ToggleSeat, Lapse, vars
  <1>9. ASSUME NEW o \in Ops, Step(o)
        PROVE  \/ \E s \in Seats : AcquireSeat(o, s) \/ ReleaseSeat(o, s)
               \/ UNCHANGED locksVars
    BY <1>5, <1>9 DEF Step
  <1> HIDE DEF locksVars
  <1>10. ASSUME NEW o \in Ops, Begin(o)
         PROVE  \/ UNCHANGED locksVars
                \/ \E S \in SUBSET Seats :
                      /\ pc[o] = "idle" /\ pc'[o] = "lock" /\ S # {}
                      /\ StartLocking(o, S)
                \/ \E S \in SUBSET Seats :
                      /\ pc[o] = "idle" /\ pc'[o] = "expire"
                      /\ want' = [want EXCEPT ![o] = S]
                      /\ UNCHANGED <<lock, todo, mine>>
    BY <1>1, <1>2, <1>3, <1>7, <1>10
  <1>11. ASSUME NEW o \in Ops, Step(o)
         PROVE  \/ UNCHANGED locksVars
                \/ \E s \in Seats : /\ pc[o] # "idle"
                                    /\ AcquireLock(o, s) \/ ReleaseLock(o, s)
    BY <1>4, <1>9, <1>11
  <1>12. \/ \E o \in Ops : Begin(o) \/ Step(o) \/ Fault(o)
         \/ Tick \/ ExpireBookings \/ UNCHANGED vars
         \/ (\E s \in Toggled : ToggleSeat(s)) \/ (\E s \in Seats : Lapse(s))
    BY DEF Next
  <1>13. CASE \E o \in Ops : Begin(o)
    BY <1>10, <1>13, Zenon
  <1>14. CASE \E o \in Ops : Step(o)
    BY <1>11, <1>14, Zenon
  <1>15. CASE \E o \in Ops : Fault(o)
    BY <1>6, <1>15, Zenon
  <1> QED BY <1>8, <1>12, <1>13, <1>14, <1>15, Zenon

\* Also with the calls of the service on top no operation deletes the key of
\* another one.
THEOREM OwnersReleaseBookings == Spec => OnlyOwnerReleases
  <1>1. TypeOK /\ [Next]_vars => ReleasedByOwner
    BY LockSteps, AcquireLockOwner, ReleaseLockOwner, RedisErrorOwner,
       UnchangedOwner
       DEF TypeOK, StartLocking, CrashLocks, LapseLock, locksVars
  <1>2. TypeOK /\ [Next]_vars =>
           [\A s \in Seats : lock[s] # Null /\ lock'[s] # lock[s] =>
               \A p \in Ops \ {lock[s]} : mine'[p] = mine[p]]_locksVars
    BY <1>1 DEF ReleasedByOwner
  <1> QED BY <1>2, TypeCorrect, PTL DEF Spec, OnlyOwnerReleases

\* The loops stay within the seats asked for, and a call that has not begun has
\* no loop under way.
LoopsFit ==
    /\ WithinWanted
    /\ \A o \in Ops : pc[o] = "idle" => todo[o] = {} /\ mine[o] = {}

\* No call goes back to where it began.
LEMMA NotIdleAgain ==
    ASSUME NEW o \in Ops, TypeOK, [Next]_vars, pc'[o] = "idle"
    PROVE  pc[o] = "idle"
  <1>1. ASSUME NEW p \in Ops, p # o, Others(p)
        PROVE  pc[o] = "idle"
    BY <1>1 DEF Others
  <1>2. ASSUME Begin(o)
        PROVE  FALSE
    BY <1>2, BeginPhase
  <1>3. ASSUME Step(o)
        PROVE  FALSE
    BY <1>3 DEF TypeOK, Step, AcquireSeat, ReleaseSeat, FindSeats,
            FindActiveBookings, InsertBookings, ExpireFound, ProcessPayment,
            WriteBookings, Leave, FirstUnderLock, AfterRefusal
  <1>4. ASSUME Fault(o)
        PROVE  FALSE
    BY <1>4 DEF TypeOK, Fault, Crash, RedisFails, DbFails
  <1>5. CASE UNCHANGED pc
    BY <1>5
  <1> QED BY <1>1, <1>2, <1>3, <1>4, <1>5, BeginOthers, StepOthers, FaultOthers
          DEF Next, Tick, ExpireBookings, ToggleSeat, Lapse, vars, opVars

LEMMA LoopsFitStep ==
    ASSUME TypeOK, LoopsFit, [Next]_vars
    PROVE  LoopsFit'
  <1> USE DEF TypeOK, LocksTypeOK
  <1>1. CASE UNCHANGED locksVars
    BY <1>1, NotIdleAgain DEF LoopsFit, WithinWanted, locksVars
  <1>2. ASSUME NEW o \in Ops, NEW S \in SUBSET Seats, pc[o] = "idle", pc'[o] # "idle",
               want' = [want EXCEPT ![o] = S],
               todo' \in {todo, [todo EXCEPT ![o] = S]}, mine' = mine
        PROVE  LoopsFit'
    <2>1. todo'[o] \subseteq S /\ mine'[o] = {} /\ want'[o] = S
      BY <1>2 DEF LoopsFit
    <2>2. \A p \in Ops \ {o} : /\ todo'[p] = todo[p]
                              /\ mine'[p] = mine[p]
                              /\ want'[p] = want[p]
      BY <1>2
    <2> QED BY <1>2, <2>1, <2>2, NotIdleAgain DEF LoopsFit, WithinWanted
  <1>3. ASSUME NEW o \in Ops, NEW s \in Seats, pc[o] # "idle",
               AcquireLock(o, s) \/ ReleaseLock(o, s)
        PROVE  LoopsFit'
    <2>1. /\ todo'[o] \cup mine'[o] \subseteq todo[o] \cup mine[o]
          /\ \A p \in Ops \ {o} : todo'[p] = todo[p] /\ mine'[p] = mine[p]
          /\ want' = want
      BY <1>3 DEF AcquireLock, ReleaseLock
    <2> QED BY <1>3, <2>1, NotIdleAgain DEF LoopsFit, WithinWanted
  <1>4. ASSUME NEW o \in Ops, CrashLocks(o) \/ RedisError(o)
        PROVE  LoopsFit'
    <2>1. /\ todo'[o] = {} /\ mine'[o] = {}
          /\ \A p \in Ops \ {o} : todo'[p] = todo[p] /\ mine'[p] = mine[p]
          /\ want' = want
      BY <1>4 DEF CrashLocks, RedisError, Forget
    <2> QED BY <2>1, NotIdleAgain DEF LoopsFit, WithinWanted
  <1>5. ASSUME NEW s \in Seats, LapseLock(s)
        PROVE  LoopsFit'
    BY <1>5, NotIdleAgain DEF LoopsFit, WithinWanted, LapseLock
  <1> QED BY <1>1, <1>2, <1>3, <1>4, <1>5, LockSteps DEF StartLocking

\* With all its calls, crashes and errors the service still locks all the seats
\* of a call atomically and exclusively.
THEOREM BookingsImplementSeatMutex ==
    ASSUME Timely PROVE Spec => ImplementsSeatMutex
  <1>1. Init => Abstract!Init
    BY DEF Init, LocksInit, Abstract!Init, heldSeats, AllLocked
  <1>2. TypeOK /\ TokensValid /\ LoopsFit /\ [Next]_vars
            => [Abstract!Next]_heldSeats
    <2> SUFFICES ASSUME TypeOK, TokensValid, LoopsFit, [Next]_vars
                 PROVE  Abstract!Next \/ UNCHANGED heldSeats
      OBVIOUS
    <2>1. CASE UNCHANGED locksVars
      BY <2>1, HeldFrame, HeldSame DEF locksVars
    <2>2. ASSUME NEW o \in Ops, NEW S \in SUBSET Seats,
                 pc[o] = "idle", S # {}, StartLocking(o, S)
          PROVE  UNCHANGED heldSeats
      BY <2>2, StartImplements DEF TypeOK, LoopsFit
    <2>3. ASSUME NEW o \in Ops, NEW S \in SUBSET Seats, pc[o] = "idle",
                 want' = [want EXCEPT ![o] = S], UNCHANGED <<lock, todo, mine>>
          PROVE  UNCHANGED heldSeats
      <3>1. \A p \in Ops \ {o} : heldSeats'[p] = heldSeats[p]
        BY <2>3, HeldFrame DEF TypeOK, LocksTypeOK
      <3>2. heldSeats'[o] = heldSeats[o]
        BY <2>3, HeldEntry DEF LoopsFit, AllLocked
      <3> QED BY <3>1, <3>2, HeldSame
    <2>4. ASSUME NEW o \in Ops, NEW s \in Seats, AcquireLock(o, s)
          PROVE  Abstract!Next \/ UNCHANGED heldSeats
      BY <2>4, AcquireImplements DEF TypeOK, LocksInv
    <2>5. ASSUME NEW o \in Ops, NEW s \in Seats, ReleaseLock(o, s)
          PROVE  Abstract!Next \/ UNCHANGED heldSeats
      BY <2>5, ReleaseImplements DEF TypeOK, LoopsFit
    <2>6. ASSUME NEW o \in Ops, CrashLocks(o) \/ RedisError(o)
          PROVE  Abstract!Next \/ UNCHANGED heldSeats
      BY <2>6, ForgetImplements DEF TypeOK, CrashLocks, RedisError
    <2>7. ASSUME NEW s \in Seats, LapseLock(s)
          PROVE  UNCHANGED heldSeats
      BY <2>7, HeldFrame, HeldSame DEF LapseLock
    <2> QED BY <2>1, <2>2, <2>3, <2>4, <2>5, <2>6, <2>7, LockSteps
  <1>3. Init => LoopsFit
    BY DEF Init, LocksInit, LoopsFit, WithinWanted
  <1>4. TypeOK /\ LoopsFit /\ [Next]_vars => LoopsFit'
    BY LoopsFitStep
  <1>5. Spec => []LoopsFit
    BY <1>3, <1>4, TypeCorrect, PTL DEF Spec
  <1>6. Inv => TokensValid
    BY DEF Inv
  <1> QED BY <1>1, <1>2, <1>5, <1>6, TypeCorrect, Invariance, PTL
      DEF Spec, ImplementsSeatMutex, Abstract!Spec
------------------------------------------------------------------------------
(* Payments.  Nothing here depends on the locks.                           *)

\* A confirmation writes only after its payment went through.
PaidFirst ==
    \A o \in Ops : pc[o] = "write" /\ kind[o] \in ConfirmKinds => o \in charged

PaymentInv == /\ TypeOK
              /\ PhaseFits
              /\ Deadlines
              /\ PaidFirst
              /\ ConfirmedIsPaid

\* Payments are not taken back.
LEMMA ChargedStep ==
    ASSUME [Next]_vars
    PROVE  charged \subseteq charged'
  <1>1. ASSUME NEW o \in Ops, Begin(o)
        PROVE  charged' = charged
    BY <1>1 DEF Begin, CreateBooking, NotFound, LookupRefused, LookupOverdue,
                LookupAccepted, Lookup
  <1>2. ASSUME NEW o \in Ops, Step(o)
        PROVE  charged \subseteq charged'
    BY <1>2 DEF Step, AcquireSeat, ReleaseSeat, FindSeats, FindActiveBookings,
                InsertBookings, ExpireFound, ProcessPayment, WriteBookings
  <1>3. ASSUME NEW o \in Ops, Fault(o)
        PROVE  charged' = charged
    BY <1>3 DEF Fault, Crash, RedisFails, DbFails
  <1> QED BY <1>1, <1>2, <1>3
          DEF Next, Tick, ExpireBookings, ToggleSeat, Lapse, vars

LEMMA PaidFirstStep ==
    ASSUME TypeOK, PhaseFits, PaidFirst, [Next]_vars
    PROVE  PaidFirst'
  <1>1. ASSUME NEW o \in Ops, pc'[o] = "write", kind'[o] \in ConfirmKinds,
               ~(pc[o] = "write" /\ kind[o] \in ConfirmKinds)
        PROVE  o \in charged'
    <2>1. ASSUME NEW p \in Ops, p # o, Others(p)
          PROVE  FALSE
      BY <1>1, <2>1 DEF Others
    <2>2. CASE Begin(o) \/ Fault(o)
      BY <1>1, <2>2, BeginPhase DEF TypeOK, Fault, Crash, RedisFails, DbFails
    <2>3. CASE ProcessPayment(o)
      BY <1>1, <2>3 DEF TypeOK, ProcessPayment, Leave
    <2>4. ASSUME Step(o), ~ProcessPayment(o)
          PROVE  FALSE
      BY <1>1, <2>4 DEF TypeOK, Step, AcquireSeat, ReleaseSeat, FindSeats,
              FindActiveBookings, InsertBookings, ExpireFound, WriteBookings,
              Leave, FirstUnderLock, AfterRefusal
    <2>5. ~(UNCHANGED <<pc, kind>>)
      BY <1>1
    <2> QED BY <2>1, <2>2, <2>3, <2>4, <2>5, BeginOthers, StepOthers, FaultOthers
            DEF Next, Tick, ExpireBookings, ToggleSeat, Lapse, vars, opVars
  <1> QED BY <1>1, ChargedStep DEF PaidFirst

\* A row that turns confirmed gets the transaction of the call that writes it.
LEMMA ConfirmedRowPaid ==
    ASSUME NEW o \in Ops, NEW r \in Row, TypeOK, PhaseFits, Deadlines,
           pc[o] \in {"insert", "expire", "write"},
           NewRow(o, r).status = "confirmed"
    PROVE  /\ pc[o] = "write" /\ kind[o] \in ConfirmKinds
           /\ NewRow(o, r).txn = o
           /\ NewRow(o, r).expiresAt = Null
  <1> DEFINE base == IF kind[o] \in GroupKinds THEN r ELSE entity[o]
  <1>1. base \in Row
    BY DEF TypeOK
  <1>2. pc[o] = "write"
    BY NewRowStatus
  <1>3. NewRow(o, r) = IF kind[o] \in ConfirmKinds THEN ConfirmedRow(o, base)
                                                   ELSE CancelledRow(base)
    BY <1>2 DEF NewRow
  <1> HIDE DEF base
  <1>4. CancelledRow(base).status = "cancelled"
    BY <1>1 DEF CancelledRow, Row
  <1>5. ConfirmedRow(o, base).txn = o /\ ConfirmedRow(o, base).expiresAt = Null
    BY <1>1 DEF ConfirmedRow, Row
  <1> QED BY <1>2, <1>3, <1>4, <1>5

LEMMA ConfirmedIsPaidStep ==
    ASSUME PaymentInv, [Next]_vars
    PROVE  ConfirmedIsPaid'
  <1> SUFFICES ASSUME NEW c \in Creates, NEW s \in Seats,
                      booking'[c][s].status = "confirmed"
               PROVE  booking'[c][s].txn \in charged' /\ booking'[c][s].expiresAt = Null
    BY DEF ConfirmedIsPaid
  <1>1. booking[c][s] \in Row
    BY DEF PaymentInv, TypeOK
  <1>2. CASE booking'[c][s] = booking[c][s]
    BY <1>2, ChargedStep DEF PaymentInv, ConfirmedIsPaid
  <1>3. ASSUME NEW o \in Ops, pc[o] \in {"insert", "expire", "write"},
               booking' = Written(o), booking'[c][s] # booking[c][s]
        PROVE  booking'[c][s].txn \in charged' /\ booking'[c][s].expiresAt = Null
    <2>1. booking'[c][s] = NewRow(o, booking[c][s])
      BY <1>3, WrittenRow
    <2>2. /\ pc[o] = "write" /\ kind[o] \in ConfirmKinds
          /\ booking'[c][s].txn = o
          /\ booking'[c][s].expiresAt = Null
      BY <1>1, <1>3, <2>1, ConfirmedRowPaid DEF PaymentInv
    <2> QED BY <2>2, ChargedStep DEF PaymentInv, PaidFirst
  <1>4. CASE ExpireBookings
    BY <1>2, <1>4, ExpiredRow DEF PaymentInv
  <1> QED BY <1>2, <1>3, <1>4, TableStep DEF PaymentInv

\* Every confirmed booking names a payment that went through and has no
\* deadline any more, whatever fails and however short the keys live.
THEOREM ConfirmedIsPaidHolds == Spec => []ConfirmedIsPaid
  <1>1. Init => PaymentInv
    <2>1. Init => TypeOK
      BY DEF Init, LocksInit, TypeOK, LocksTypeOK, Phases, Results, Row,
             Statuses, Absent
    <2> QED BY <2>1 DEF Init, PaymentInv, PhaseFits, Deadlines, PaidFirst,
                        ConfirmedIsPaid, Absent
  <1>2. PaymentInv /\ TypeOK' /\ [Next]_vars => PaymentInv'
    BY PhaseFitsStep, DeadlinesStep, PaidFirstStep, ConfirmedIsPaidStep
       DEF PaymentInv
  <1>3. PaymentInv => ConfirmedIsPaid
    BY DEF PaymentInv
  <1> QED BY <1>1, <1>2, <1>3, TypeCorrect, PTL DEF Spec
------------------------------------------------------------------------------
(* Keys.                                                                   *)

\* The token under a key is in the lockTokens map of its owner, unless the
\* owner died; a call that is over, or was never at its locks, has no tokens.
KeysAccounted ==
    /\ \A o \in Ops, s \in Seats : lock[s] = o => s \in mine[o] \/ pc[o] = "crashed"
    /\ \A o \in Ops : pc[o] \in {"idle", "expire", "done"} => mine[o] = {}

LEMMA KeysAccountedStep ==
    ASSUME "redis" \notin Faults, TypeOK, KeysAccounted, [Next]_vars
    PROVE  KeysAccounted'
  <1> USE DEF TypeOK, LocksTypeOK
  <1>1. ASSUME NEW o \in Ops, UNCHANGED <<lock, mine>>, Others(o),
               pc[o] # "crashed" \/ pc'[o] = "crashed",
               pc'[o] \in {"idle", "expire", "done"} =>
                   pc[o] \in {"idle", "expire", "done"}
        PROVE  KeysAccounted'
    BY <1>1 DEF KeysAccounted, Others
  <1>2. ASSUME NEW o \in Ops, Begin(o)
        PROVE  KeysAccounted'
    <2>1. pc[o] = "idle" /\ UNCHANGED <<lock, mine>>
      BY <1>2 DEF Begin, CreateBooking, NotFound, LookupRefused, LookupOverdue,
                  LookupAccepted, Lookup, StartLocking, locksVars
    <2> QED BY <1>1, <1>2, <2>1, BeginOthers
  <1>3. ASSUME NEW o \in Ops, NEW t \in Seats, AcquireSeat(o, t)
        PROVE  KeysAccounted'
    <2>1. pc[o] = "lock" /\ AcquireLock(o, t)
      BY <1>3 DEF AcquireSeat
    <2>2. pc'[o] = "done" => mine'[o] = {}
      BY <1>3 DEF AcquireSeat, FirstUnderLock, AfterRefusal
    <2>3. pc'[o] \notin {"idle", "expire", "crashed"}
      BY <1>3 DEF AcquireSeat, FirstUnderLock, AfterRefusal
    <2>4. \A s \in Seats, p \in Ops : lock'[s] = p =>
              s \in mine'[p] \/ lock[s] = p
      BY <2>1 DEF AcquireLock, Token
    <2>5. \A p \in Ops : mine[p] \subseteq mine'[p]
      BY <2>1 DEF AcquireLock
    <2>6. Others(o)
      BY <1>3, StepOthers DEF Step
    <2>7. ASSUME NEW p \in Ops, NEW s \in Seats, lock'[s] = p
          PROVE  s \in mine'[p] \/ pc'[p] = "crashed"
      BY <2>1, <2>4, <2>5, <2>6, <2>7 DEF KeysAccounted, Others
    <2>8. ASSUME NEW p \in Ops, pc'[p] \in {"idle", "expire", "done"}
          PROVE  mine'[p] = {}
      BY <2>2, <2>3, <2>6, <2>8 DEF KeysAccounted, Others
    <2> QED BY <2>7, <2>8 DEF KeysAccounted
  <1>4. ASSUME NEW o \in Ops, NEW t \in Seats, ReleaseSeat(o, t)
        PROVE  KeysAccounted'
    <2>1. pc[o] = "release" /\ ReleaseLock(o, t)
      BY <1>4 DEF ReleaseSeat
    <2>2. /\ pc'[o] \in {"release", "done"}
          /\ pc'[o] = "done" => mine'[o] = {}
      BY <1>4 DEF ReleaseSeat
    <2>3. \A s \in Seats, p \in Ops : lock'[s] = p =>
              lock[s] = p /\ (s \in mine[p] => s \in mine'[p])
      BY <2>1, LocksAssumption DEF ReleaseLock, Owns
    <2>4. Others(o)
      BY <1>4, StepOthers DEF Step
    <2>5. ASSUME NEW p \in Ops, NEW s \in Seats, lock'[s] = p
          PROVE  s \in mine'[p] \/ pc'[p] = "crashed"
      BY <2>1, <2>3, <2>4, <2>5 DEF KeysAccounted, Others
    <2>6. ASSUME NEW p \in Ops, pc'[p] \in {"idle", "expire", "done"}
          PROVE  mine'[p] = {}
      BY <2>2, <2>4, <2>6 DEF KeysAccounted, Others
    <2> QED BY <2>5, <2>6 DEF KeysAccounted
  <1>5. ASSUME NEW o \in Ops,
               \/ FindSeats(o) \/ FindActiveBookings(o) \/ InsertBookings(o)
               \/ ExpireFound(o) \/ ProcessPayment(o) \/ WriteBookings(o)
        PROVE  KeysAccounted'
    <2>1. /\ UNCHANGED <<lock, mine>>
          /\ pc[o] \in Phases \ {"crashed"}
          /\ pc'[o] \in {"idle", "expire", "done"} =>
                 pc[o] \in {"idle", "expire", "done"}
      BY <1>5 DEF FindSeats, FindActiveBookings, InsertBookings, ExpireFound,
                  ProcessPayment, WriteBookings, Leave, locksVars
    <2>2. Others(o)
      BY <1>5, StepOthers DEF Step
    <2> QED BY <1>1, <2>1, <2>2
  <1>6. ASSUME NEW o \in Ops, Crash(o)
        PROVE  KeysAccounted'
    <2>1. Others(o)
      BY <1>6, FaultOthers DEF Fault
    <2>2. pc'[o] = "crashed" /\ lock' = lock
      BY <1>6 DEF Crash, CrashLocks
    <2> QED BY <2>1, <2>2 DEF KeysAccounted, Others
  <1>7. ASSUME NEW o \in Ops, DbFails(o)
        PROVE  KeysAccounted'
    <2>1. Others(o)
      BY <1>7, FaultOthers DEF Fault
    <2>2. /\ UNCHANGED <<lock, mine>>
          /\ pc[o] # "crashed"
          /\ pc'[o] \in {"idle", "expire", "done"} => pc[o] = "expire"
      BY <1>7 DEF DbFails, locksVars
    <2> QED BY <1>1, <2>1, <2>2
  <1>8. ASSUME NEW t \in Seats, Lapse(t)
        PROVE  KeysAccounted'
    <2>1. /\ UNCHANGED <<pc, mine>>
          /\ \A s \in Seats, p \in Ops : lock'[s] = p => lock[s] = p
      BY <1>8, LocksAssumption DEF Lapse, LapseLock, opVars
    <2> QED BY <2>1 DEF KeysAccounted
  <1>9. CASE UNCHANGED <<lock, mine, pc>>
    BY <1>9 DEF KeysAccounted
  <1> QED BY <1>2, <1>3, <1>4, <1>5, <1>6, <1>7, <1>8, <1>9
          DEF Next, Step, Fault, RedisFails, Tick, ExpireBookings, ToggleSeat,
              vars, opVars, locksVars

\* A call that is over left no key behind, on whichever path it ended, as long
\* as Redis answers; crashes of other calls, errors of the database and keys
\* that lapse early make no difference.
THEOREM NoKeyLeft ==
    ASSUME "redis" \notin Faults PROVE Spec => []NoKeyLeftBehind
  <1>1. Init => KeysAccounted
    BY LocksAssumption DEF Init, LocksInit, KeysAccounted
  <1>2. TypeOK /\ KeysAccounted /\ [Next]_vars => KeysAccounted'
    BY KeysAccountedStep
  <1>3. KeysAccounted => NoKeyLeftBehind
    BY DEF KeysAccounted, NoKeyLeftBehind
  <1> QED BY <1>1, <1>2, <1>3, TypeCorrect, PTL DEF Spec
------------------------------------------------------------------------------
(* Creates.  Nothing here depends on the locks either.                     *)

\* A create works on the code it drew itself.
OwnCode ==
    \A o \in Ops :
        /\ pc[o] \in {"lock", "seats", "bookings", "insert"}
        /\ kind[o] = "create"
        => o \in Creates /\ code[o] = o

\* A create stores nothing before its insert, and then everything it wants; its
\* result tells which it was.
Stage(c) ==
    /\ pc[c] \notin {"expire", "pay", "write"}
    /\ pc[c] \in {"lock", "seats", "bookings", "insert"} => kind[c] = "create"
    /\ pc[c] \in {"idle", "lock", "seats", "bookings", "insert"} =>
          StoredSeats(c) = {} /\ result[c] = "none"
    /\ StoredSeats(c) \in {{}, want[c]}
    /\ result[c] \in {"conflict", "rejected"} => StoredSeats(c) = {}
    /\ result[c] = "ok" => StoredSeats(c) = want[c]

CreateInv == /\ TypeOK
             /\ PhaseFits
             /\ Deadlines
             /\ RowsStored
             /\ OwnCode
             /\ \A c \in Creates : Stage(c)

\* A step of an operation does not decide the result of another one.
LEMMA OthersResult ==
    ASSUME NEW o \in Ops, TypeOK, Begin(o) \/ Step(o) \/ Fault(o)
    PROVE  \A p \in Ops \ {o} : result'[p] = result[p]
  <1>1. CASE Begin(o)
    BY <1>1 DEF TypeOK, Begin, CreateBooking, NotFound, LookupRefused,
                LookupOverdue, LookupAccepted
  <1>2. CASE Step(o)
    BY <1>2 DEF TypeOK, Step, AcquireSeat, ReleaseSeat, FindSeats,
                FindActiveBookings, InsertBookings, ExpireFound, ProcessPayment,
                WriteBookings, Leave
  <1>3. CASE Fault(o)
    BY <1>3 DEF TypeOK, Fault, Crash, RedisFails, DbFails
  <1> QED BY <1>1, <1>2, <1>3

LEMMA OwnCodeStep ==
    ASSUME TypeOK, OwnCode, [Next]_vars
    PROVE  OwnCode'
  <1> DEFINE Creating(o) == /\ pc[o] \in {"lock", "seats", "bookings", "insert"}
                            /\ kind[o] = "create"
             Own(o) == o \in Creates /\ code[o] = o
  <1>1. ASSUME NEW o \in Ops, Others(o), Creating(o)' => Own(o)'
        PROVE  OwnCode'
    BY <1>1 DEF OwnCode, Others
  <1>2. ASSUME NEW o \in Ops, Begin(o)
        PROVE  OwnCode'
    <2>1. Creating(o)' => Own(o)'
      BY <1>2, BookingsAssumption
         DEF TypeOK, Begin, CreateBooking, NotFound, LookupRefused,
             LookupOverdue, LookupAccepted, Lookup, ConfirmKinds, CancelKinds
    <2> HIDE DEF Creating, Own
    <2> QED BY <1>1, <1>2, <2>1, BeginOthers
  <1>3. ASSUME NEW o \in Ops, Step(o)
        PROVE  OwnCode'
    <2>1. Creating(o)' => Creating(o)
      BY <1>3 DEF TypeOK, Step, AcquireSeat, ReleaseSeat, FindSeats,
                  FindActiveBookings, InsertBookings, ExpireFound,
                  ProcessPayment, WriteBookings, Leave
    <2>2. code' = code
      BY <1>3 DEF Step, AcquireSeat, ReleaseSeat, FindSeats,
                  FindActiveBookings, InsertBookings, ExpireFound,
                  ProcessPayment, WriteBookings
    <2>3. Creating(o)' => Own(o)'
      BY <2>1, <2>2 DEF OwnCode
    <2> HIDE DEF Creating, Own
    <2> QED BY <1>1, <1>3, <2>3, StepOthers
  <1>4. ASSUME NEW o \in Ops, Fault(o)
        PROVE  OwnCode'
    <2>1. ~Creating(o)'
      BY <1>4 DEF TypeOK, Fault, Crash, RedisFails, DbFails
    <2> HIDE DEF Creating, Own
    <2> QED BY <1>1, <1>4, <2>1, FaultOthers
  <1>5. CASE UNCHANGED <<pc, kind, code>>
    BY <1>5 DEF OwnCode
  <1> QED BY <1>2, <1>3, <1>4, <1>5
          DEF Next, Tick, ExpireBookings, ToggleSeat, Lapse, vars, opVars

\* Rows are added under a code by the insert of its own create only.
LEMMA StoredSeatsStep ==
    ASSUME NEW c \in Creates, CreateInv, [Next]_vars
    PROVE  \/ StoredSeats(c)' = StoredSeats(c)
           \/ /\ pc[c] = "insert"
              /\ booking' = Written(c)
              /\ pc'[c] \in {"done", "release"}
  <1> DEFINE Same == \A s \in Seats : booking'[c][s].status = "absent" <=>
                                      booking[c][s].status = "absent"
  <1>1. ASSUME Same
        PROVE  StoredSeats(c)' = StoredSeats(c)
    BY <1>1 DEF StoredSeats
  <1>2. \A s \in Seats : booking[c][s] \in Row
    BY DEF CreateInv, TypeOK
  <1>3. CASE ExpireBookings
    BY <1>1, <1>3, ExpiredRow DEF CreateInv
  <1>4. ASSUME NEW o \in Ops, pc[o] \in {"insert", "expire", "write"},
               booking' = Written(o), o # c \/ pc[o] # "insert"
        PROVE  Same
    <2> SUFFICES ASSUME NEW s \in Seats
                 PROVE  booking'[c][s].status = "absent" <=>
                        booking[c][s].status = "absent"
      OBVIOUS
    <2>1. CASE ~(c = code[o] /\ s \in want[o])
      BY <1>4, <2>1, WrittenRow
    <2>2. CASE c = code[o] /\ s \in want[o]
      <3>1. pc[o] # "insert"
        BY <1>4, <2>2 DEF CreateInv, OwnCode, PhaseFits
      <3>2. booking[c][s].status # "absent"
        BY <1>4, <2>2, <3>1 DEF CreateInv, RowsStored, PhaseFits
      <3>3. booking'[c][s].status # "absent"
        BY <1>2, <1>4, <2>2, WrittenRow, NewRowStatus DEF CreateInv
      <3> QED BY <3>2, <3>3
    <2> QED BY <2>1, <2>2
  <1>5. CASE booking' = booking
    BY <1>1, <1>5
  <1> HIDE DEF Same
  <1> QED BY <1>1, <1>3, <1>4, <1>5, TableStep DEF CreateInv

\* The insert stores every seat the create wants.
LEMMA InsertStores ==
    ASSUME NEW c \in Creates, CreateInv, pc[c] = "insert", booking' = Written(c)
    PROVE  StoredSeats(c)' = want[c]
  <1>1. c \in Ops /\ code[c] = c /\ want[c] \subseteq Seats
    BY BookingsAssumption DEF CreateInv, TypeOK, LocksTypeOK, OwnCode, PhaseFits
  <1>2. \A s \in Seats : booking[c][s] \in Row /\ booking[c][s].status = "absent"
    BY DEF CreateInv, TypeOK, Stage, StoredSeats
  <1>3. ASSUME NEW s \in want[c]
        PROVE  booking'[c][s].status # "absent"
    <2>1. booking'[c][s] = NewRow(c, booking[c][s])
      BY <1>1, <1>3, WrittenRow
    <2> QED BY <1>1, <1>2, <1>3, <2>1, NewRowStatus DEF CreateInv
  <1>4. ASSUME NEW s \in Seats, s \notin want[c]
        PROVE  booking'[c][s].status = "absent"
    BY <1>1, <1>2, <1>4, WrittenRow
  <1> QED BY <1>1, <1>3, <1>4 DEF StoredSeats

LEMMA StageStep ==
    ASSUME NEW c \in Creates, CreateInv, [Next]_vars
    PROVE  Stage(c)'
  <1>0. c \in Ops /\ Stage(c) /\ TypeOK
    BY BookingsAssumption DEF CreateInv
  <1>1. CASE /\ pc'[c] = pc[c] /\ kind'[c] = kind[c] /\ want'[c] = want[c]
             /\ result'[c] = result[c]
    BY <1>0, <1>1, StoredSeatsStep DEF Stage
  <1>2. ASSUME NEW p \in Ops, p # c, Begin(p) \/ Step(p) \/ Fault(p)
        PROVE  Stage(c)'
    <2>1. Others(p) /\ result'[c] = result[c]
      BY <1>0, <1>2, BeginOthers, StepOthers, FaultOthers, OthersResult
    <2> QED BY <1>0, <1>1, <1>2, <2>1 DEF Others
  <1>3. CASE Begin(c)
    <2>1. CreateBooking(c)
      BY <1>3 DEF Begin, Edits
    <2>2. pc[c] = "idle" /\ pc'[c] = "lock" /\ kind'[c] = "create"
          /\ result'[c] = result[c]
      BY <1>0, <2>1 DEF TypeOK, CreateBooking
    <2> QED BY <1>0, <2>2, StoredSeatsStep DEF Stage
  <1>4. ASSUME want'[c] = want[c], kind'[c] = kind[c],
               pc[c] \in {"lock", "seats", "bookings"},
               \/ /\ pc'[c] \in {"lock", "seats", "bookings", "insert"}
                  /\ result'[c] = result[c]
               \/ /\ pc'[c] \in {"release", "done", "crashed"}
                  /\ result'[c] # "ok"
        PROVE  Stage(c)'
    BY <1>0, <1>4, StoredSeatsStep DEF Stage
  <1>5. ASSUME want'[c] = want[c], pc[c] \in {"release", "insert"},
               pc'[c] \in {"release", "done", "crashed"},
               StoredSeats(c)' = StoredSeats(c),
               result'[c] \in {result[c], "error"}
        PROVE  Stage(c)'
    BY <1>0, <1>5 DEF Stage
  <1>6. Step(c) \/ Fault(c) => want'[c] = want[c] /\ kind'[c] = kind[c]
    BY DEF Step, Fault, AcquireSeat, AcquireLock, ReleaseSeat, ReleaseLock,
           FindSeats, FindActiveBookings, InsertBookings, ExpireFound,
           ProcessPayment, WriteBookings, Crash, CrashLocks, RedisFails,
           RedisError, Forget, DbFails, locksVars
  <1>7. ASSUME Step(c)
        PROVE  Stage(c)'
    <2>1. CASE pc[c] = "lock"
      <3>1. PICK s \in Seats : AcquireSeat(c, s)
        BY <1>7, <2>1 DEF Step, ReleaseSeat, FindSeats, FindActiveBookings,
                          InsertBookings, ExpireFound, ProcessPayment, WriteBookings
      <3>2. \/ /\ pc'[c] \in {"lock", "seats"}
               /\ result'[c] = result[c]
            \/ pc'[c] \in {"release", "done"} /\ result'[c] # "ok"
        <4>1. FirstUnderLock(c) = "seats"
          BY <1>0, <2>1 DEF Stage, FirstUnderLock, ConfirmKinds
        <4>2. AfterRefusal(mine'[c]) \in {"release", "done"}
          BY DEF AfterRefusal
        <4> QED BY <1>0, <2>1, <3>1, <4>1, <4>2 DEF TypeOK, AcquireSeat
      <3> QED BY <1>4, <1>6, <1>7, <2>1, <3>2
    <2>2. CASE pc[c] \in {"seats", "bookings"}
      <3>1. FindSeats(c) \/ FindActiveBookings(c)
        BY <1>7, <2>2 DEF Step, AcquireSeat, ReleaseSeat, InsertBookings,
                          ExpireFound, ProcessPayment, WriteBookings
      <3>2. \/ /\ pc'[c] \in {"bookings", "insert"}
               /\ result'[c] = result[c]
            \/ pc'[c] = "release" /\ result'[c] # "ok"
        BY <1>0, <2>2, <3>1 DEF TypeOK, FindSeats, FindActiveBookings, Leave
      <3> QED BY <1>4, <1>6, <1>7, <2>2, <3>2
    <2>3. CASE pc[c] = "insert"
      <3>1. InsertBookings(c)
        BY <1>7, <2>3 DEF Step, AcquireSeat, ReleaseSeat, FindSeats,
                FindActiveBookings, ExpireFound, ProcessPayment, WriteBookings
      <3>2. booking' = Written(c) /\ pc'[c] = "release" /\ result'[c] = "ok"
        BY <1>0, <3>1 DEF TypeOK, InsertBookings, Leave
      <3> QED BY <1>6, <1>7, <2>3, <3>2, InsertStores DEF Stage
    <2>4. CASE pc[c] = "release"
      <3>1. PICK s \in Seats : ReleaseSeat(c, s)
        BY <1>7, <2>4 DEF Step, AcquireSeat, FindSeats, FindActiveBookings,
                          InsertBookings, ExpireFound, ProcessPayment, WriteBookings
      <3>2. pc'[c] \in {"release", "done"} /\ result'[c] = result[c]
        BY <1>0, <2>4, <3>1 DEF TypeOK, ReleaseSeat
      <3> QED BY <1>5, <1>6, <1>7, <2>4, <3>2, StoredSeatsStep
    <2>5. pc[c] \in {"lock", "seats", "bookings", "insert", "release"}
      BY <1>0, <1>7 DEF Stage, Step, AcquireSeat, ReleaseSeat, FindSeats,
              FindActiveBookings, InsertBookings, ExpireFound, ProcessPayment,
              WriteBookings
    <2> QED BY <2>1, <2>2, <2>3, <2>4, <2>5
  <1>8. ASSUME Fault(c)
        PROVE  Stage(c)'
    <2>1. /\ pc[c] \in {"lock", "seats", "bookings", "insert", "release"}
          /\ pc'[c] \in {"release", "done", "crashed"}
          /\ result'[c] \in {result[c], "error"}
      BY <1>0, <1>8 DEF TypeOK, Stage, Phases, Fault, Crash, RedisFails, DbFails
    <2>2. pc[c] # "release" => result[c] = "none"
      BY <1>0, <2>1 DEF Stage
    <2>3. CASE pc[c] \in {"lock", "seats", "bookings"}
      BY <1>4, <1>6, <1>8, <2>1, <2>2, <2>3
    <2>4. CASE pc[c] \in {"insert", "release"} /\ StoredSeats(c)' = StoredSeats(c)
      BY <1>5, <1>6, <1>8, <2>1, <2>4
    <2>5. CASE pc[c] = "insert" /\ booking' = Written(c)
      <3>1. result'[c] \in {"none", "error"}
        BY <2>1, <2>2, <2>5
      <3> QED BY <1>6, <1>8, <2>1, <2>5, <3>1, InsertStores DEF Stage
    <2> QED BY <2>1, <2>3, <2>4, <2>5, StoredSeatsStep
  <1>9. CASE UNCHANGED <<pc, kind, want, result>>
    BY <1>1, <1>9
  <1>10. ASSUME NEW o \in Ops, Begin(o) \/ Step(o) \/ Fault(o)
         PROVE  Stage(c)'
    BY <1>2, <1>3, <1>7, <1>8, <1>10
  <1>11. CASE \/ Tick \/ ExpireBookings \/ UNCHANGED vars
              \/ (\E s \in Toggled : ToggleSeat(s)) \/ (\E s \in Seats : Lapse(s))
    BY <1>9, <1>11 DEF Tick, ExpireBookings, ToggleSeat, Lapse, LapseLock, vars,
                       opVars, locksVars
  <1> QED BY <1>10, <1>11 DEF Next

\* The invariant of the creates holds in every state.
THEOREM CreateInvariance == Spec => []CreateInv
  <1>1. Init => CreateInv
    <2>1. Init => TypeOK
      BY DEF Init, LocksInit, TypeOK, LocksTypeOK, Phases, Results, Row,
             Statuses, Absent
    <2> QED BY <2>1, BookingsAssumption
            DEF Init, LocksInit, CreateInv, PhaseFits, Deadlines, RowsStored,
                OwnCode, Stage, StoredSeats, Absent
  <1>2. CreateInv /\ TypeOK' /\ [Next]_vars => CreateInv'
    BY PhaseFitsStep, DeadlinesStep, RowsStoredStep, OwnCodeStep, StageStep
       DEF CreateInv
  <1> QED BY <1>1, <1>2, TypeCorrect, PTL DEF Spec

\* createBooking books all the seats of a request or none, and its result tells
\* which, whatever fails and however short the keys live.
THEOREM AllOrNothing == Spec => []CreateAllOrNothing
  <1>1. CreateInv => CreateAllOrNothing
    BY DEF CreateInv, Stage, CreateAllOrNothing
  <1> QED BY <1>1, CreateInvariance, PTL
------------------------------------------------------------------------------
(* Payments on record.  Nothing here depends on the locks either.          *)

\* A call for a single booking keeps the entity it accepted: pending, or
\* confirmed with its payment.
EntityKept ==
    \A o \in Ops :
        /\ pc[o] \in {"lock", "expire", "pay", "write"}
        /\ kind[o] \notin GroupKinds \cup {"create"}
        => /\ entity[o].status \in {"pending", "confirmed"}
           /\ entity[o].status = "confirmed" => entity[o].txn # Null

\* What is not in the table was not paid for.
AbsentUnpaid ==
    \A c \in Creates, s \in Seats :
        booking[c][s].status = "absent" => booking[c][s].txn = Null

RecordInv == EntityKept /\ AbsentUnpaid

\* The entity is loaded by the lookup and not loaded again.
LEMMA EntityKeptStep ==
    ASSUME TypeOK, PhaseFits, ConfirmedIsPaid, EntityKept, [Next]_vars
    PROVE  EntityKept'
  <1> DEFINE Working(o) == /\ pc[o] \in {"lock", "expire", "pay", "write"}
                           /\ kind[o] \notin GroupKinds \cup {"create"}
             Good(o) == /\ entity[o].status \in {"pending", "confirmed"}
                        /\ entity[o].status = "confirmed" => entity[o].txn # Null
  <1>1. ASSUME NEW o \in Ops, Others(o), Working(o)' => Good(o)'
        PROVE  EntityKept'
    BY <1>1 DEF EntityKept, Others
  <1>2. ASSUME NEW o \in Ops, Begin(o)
        PROVE  EntityKept'
    <2>1. CASE CreateBooking(o) \/ NotFound(o)
      <3>1. ~Working(o)'
        BY <2>1, BookingsAssumption DEF TypeOK, CreateBooking, NotFound
      <3> QED BY <1>1, <1>2, <3>1, BeginOthers
    <2>2. ASSUME NEW k \in Kinds, NEW c \in Creates, NEW S \in Selections(k, c),
                 \/ LookupRefused(o, k, c, S)
                 \/ LookupOverdue(o, k, c, S)
                 \/ LookupAccepted(o, k, c, S)
          PROVE  Working(o)' => Good(o)'
      <3> SUFFICES ASSUME Working(o)'
                   PROVE  Good(o)'
        OBVIOUS
      <3>1. Lookup(o, k, c, S) /\ kind'[o] = k
        BY <2>2 DEF TypeOK, LookupRefused, LookupOverdue, LookupAccepted, Lookup
      <3>2. \A s \in S : ~Refused(k, booking[c][s])
        BY <2>2 DEF TypeOK, LookupRefused, LookupOverdue, LookupAccepted
      <3>3. k \notin GroupKinds /\ k \in ConfirmKinds \cup CancelKinds
        BY <3>1, BookingsAssumption
      <3>4. PICK s \in S : s = CHOOSE t \in S : TRUE
        BY <3>1 DEF Lookup
      <3>5. s \in Seats /\ entity'[o] = booking[c][s]
        BY <3>1, <3>3, <3>4 DEF TypeOK, Lookup, Selections, StoredSeats
      <3>6. booking[c][s].status \in {"pending", "confirmed"}
        BY <3>2, <3>4 DEF Refused
      <3>7. booking[c][s].status = "confirmed" => booking[c][s].txn # Null
        BY <3>5, LocksAssumption DEF ConfirmedIsPaid, TypeOK
      <3> QED BY <3>5, <3>6, <3>7
    <2> HIDE DEF Working, Good
    <2> QED BY <1>1, <1>2, <2>1, <2>2, BeginOthers DEF Begin
  <1>3. ASSUME NEW o \in Ops, Step(o)
        PROVE  EntityKept'
    <2>1. Working(o)' => Working(o) /\ entity'[o] = entity[o]
      <3>1. ASSUME NEW s \in Seats, AcquireSeat(o, s) \/ ReleaseSeat(o, s)
            PROVE  Working(o)' => Working(o) /\ entity'[o] = entity[o]
        BY <3>1 DEF TypeOK, AcquireSeat, ReleaseSeat, FirstUnderLock, AfterRefusal
      <3>2. CASE \/ FindSeats(o) \/ FindActiveBookings(o) \/ InsertBookings(o)
                 \/ ExpireFound(o) \/ ProcessPayment(o) \/ WriteBookings(o)
        BY <3>2 DEF TypeOK, FindSeats, FindActiveBookings, InsertBookings,
                    ExpireFound, ProcessPayment, WriteBookings, Leave
      <3> HIDE DEF Working
      <3> QED BY <1>3, <3>1, <3>2 DEF Step
    <2>2. Working(o) => Good(o)
      BY DEF EntityKept
    <2>3. Working(o)' => Good(o)'
      BY <2>1, <2>2
    <2> HIDE DEF Working, Good
    <2> QED BY <1>1, <1>3, <2>3, StepOthers
  <1>4. ASSUME NEW o \in Ops, Fault(o)
        PROVE  EntityKept'
    <2>1. ~Working(o)'
      BY <1>4 DEF TypeOK, Fault, Crash, RedisFails, DbFails
    <2> HIDE DEF Working, Good
    <2> QED BY <1>1, <1>4, <2>1, FaultOthers
  <1>5. CASE UNCHANGED <<pc, kind, entity>>
    BY <1>5 DEF EntityKept
  <1> QED BY <1>2, <1>3, <1>4, <1>5
          DEF Next, Tick, ExpireBookings, ToggleSeat, Lapse, vars, opVars

\* Rows are inserted without a payment, and what was not inserted has none.
LEMMA AbsentUnpaidStep ==
    ASSUME TypeOK, PhaseFits, Deadlines, AbsentUnpaid, [Next]_vars
    PROVE  AbsentUnpaid'
  <1> SUFFICES ASSUME NEW c \in Creates, NEW s \in Seats,
                      booking'[c][s].status = "absent"
               PROVE  booking'[c][s].txn = Null
    BY DEF AbsentUnpaid
  <1>1. booking[c][s] \in Row
    BY DEF TypeOK
  <1>2. ASSUME NEW o \in Ops, pc[o] \in {"insert", "expire", "write"},
               booking' = Written(o)
        PROVE  booking'[c][s] = booking[c][s]
    BY <1>1, <1>2, NewRowStatus, WrittenRow
  <1>3. ExpireBookings => booking'[c][s] = booking[c][s]
    BY ExpiredRow
  <1> QED BY <1>2, <1>3, TableStep DEF AbsentUnpaid

\* The only way in which a payment on record disappears.
THEOREM PaymentsWipedByOldEntities == Spec => PaymentWipedByOldEntity
  <1>1. Init => RecordInv
    BY DEF Init, RecordInv, EntityKept, AbsentUnpaid, Absent
  <1>2. TypeOK /\ PhaseFits /\ Deadlines /\ ConfirmedIsPaid /\ RecordInv
           /\ [Next]_vars => RecordInv'
    BY EntityKeptStep, AbsentUnpaidStep DEF RecordInv
  <1>3. ASSUME CreateInv, RecordInv, [Next]_vars, NEW c \in Creates, NEW s \in Seats,
               booking[c][s].txn # Null, booking'[c][s].txn = Null
        PROVE  \E e \in Edits : /\ code[e] = c /\ s \in want[e]
                                /\ kind[e] \notin GroupKinds
                                /\ pc[e] \in {"expire", "write"}
                                /\ entity[e].status = "pending"
    <2>1. booking[c][s] \in Row /\ booking[c][s].status # "absent"
      BY <1>3 DEF CreateInv, TypeOK, RecordInv, AbsentUnpaid
    <2>2. ~ExpireBookings
      BY <1>3, <2>1 DEF ExpireBookings, Row
    <2>3. PICK o \in Ops : /\ pc[o] \in {"insert", "expire", "write"}
                           /\ booking' = Written(o)
      BY <1>3, <2>2, TableStep DEF CreateInv
    <2>4. /\ code[o] = c /\ s \in want[o]
          /\ booking'[c][s] = NewRow(o, booking[c][s])
      BY <1>3, <2>3, WrittenRow
    <2>5. pc[o] # "insert"
      BY <1>3, <2>1, <2>3, <2>4 DEF CreateInv, PhaseFits, OwnCode, Stage, StoredSeats
    <2>6. o \in Edits
      BY <1>3, <2>3, <2>5 DEF CreateInv, Stage, Edits
    <2> DEFINE base == IF kind[o] \in GroupKinds THEN booking[c][s] ELSE entity[o]
    <2>7. base \in Row /\ base.txn = Null
      <3>1. base \in Row
        BY <1>3, <2>1 DEF CreateInv, TypeOK
      <3>2. NewRow(o, booking[c][s]) \in
               {[base EXCEPT !.status = "expired"], ConfirmedRow(o, base),
                CancelledRow(base)}
        BY <2>3, <2>5 DEF NewRow
      <3> HIDE DEF base
      <3>3. /\ [base EXCEPT !.status = "expired"].txn = base.txn
            /\ CancelledRow(base).txn = base.txn
            /\ ConfirmedRow(o, base).txn = o
        BY <3>1 DEF Row, CancelledRow, ConfirmedRow
      <3> QED BY <1>3, <2>4, <3>1, <3>2, <3>3, LocksAssumption
    <2>8. kind[o] \notin GroupKinds /\ entity[o].txn = Null
      BY <1>3, <2>7
    <2>9. kind[o] \notin GroupKinds \cup {"create"}
      BY <1>3, <2>3, <2>5, <2>8 DEF CreateInv, PhaseFits
    <2>10. entity[o].status = "pending"
      BY <1>3, <2>3, <2>5, <2>8, <2>9 DEF RecordInv, EntityKept
    <2> QED BY <2>3, <2>4, <2>5, <2>6, <2>8, <2>10
  <1>4. CreateInv /\ RecordInv /\ [Next]_vars =>
           [\A c \in Creates, s \in Seats :
              booking[c][s].txn # Null /\ booking'[c][s].txn = Null =>
                 \E e \in Edits : /\ code[e] = c /\ s \in want[e]
                                  /\ kind[e] \notin GroupKinds
                                  /\ pc[e] \in {"expire", "write"}
                                  /\ entity[e].status = "pending"]_vars
    BY <1>3
  <1>5. CreateInv => TypeOK /\ PhaseFits /\ Deadlines
    BY DEF CreateInv
  <1>6. Spec => []RecordInv
    BY <1>1, <1>2, <1>5, CreateInvariance, ConfirmedIsPaidHolds, PTL DEF Spec
  <1> QED BY <1>4, <1>6, CreateInvariance, PTL DEF Spec, PaymentWipedByOldEntity
================================================================================
