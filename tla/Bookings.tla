------------------------------ MODULE Bookings -------------------------------
(***************************************************************************)
(* BookingsService: reservation of seats, confirmation with payment,       *)
(* cancellation, and the cron job that expires unpaid reservations, over   *)
(* the seat locks of module SeatLocks.                                     *)
(*                                                                         *)
(* An operation is one call of the service.  It yields at every await, so  *)
(* each database, Redis or payment call is a step of its own and pc[o] is  *)
(* the call it is waiting in:                                              *)
(*    "lock"      acquireMultipleLocks, one key at a time                  *)
(*    "seats"     the find of the seats in the transaction of a create     *)
(*    "bookings"  the find of the active bookings, same transaction        *)
(*    "insert"    save and commit of the new bookings                      *)
(*    "expire"    the write that marks as expired what a confirm found so  *)
(*    "pay"       processPayment                                           *)
(*    "write"     the write of a confirmation or a cancellation            *)
(*    "release"   releaseMultipleLocks, one key at a time                  *)
(* The code after an await runs up to the next await in the same step.     *)
(*                                                                         *)
(* A confirmation code is the create that drew it; the bookings of a code  *)
(* are keyed by their seat.  E-mail, name, phone and price are left out:   *)
(* a client that gives a wrong id, code or e-mail gets NotFound.           *)
(***************************************************************************)
EXTENDS SeatLocks, Naturals

CONSTANTS
    Creates,   \* the operations that are calls of createBooking
    Requests,  \* the sets of seats a client may ask for
    Kinds,     \* the calls the other operations may be
    Toggled,   \* the seats an administrator deactivates and activates
    Timeout,   \* reservationTimeoutMs, in ticks of the clock
    MaxTime    \* bound of the runs: the clock stops there

Edits        == Ops \ Creates
ConfirmKinds == {"confirmGroup", "confirmOne"}
CancelKinds  == {"cancelGroup", "cancelOne"}
GroupKinds   == {"confirmGroup", "cancelGroup"}

ASSUME BookingsAssumption ==
    /\ Creates \subseteq Ops
    /\ Requests \subseteq (SUBSET Seats) \ {{}}
    /\ Kinds \subseteq ConfirmKinds \cup CancelKinds
    /\ Toggled \subseteq Seats
    /\ Timeout \in Nat
    /\ MaxTime \in Nat
    /\ Null \notin Nat

VARIABLES
    now,       \* the clock, shared by the service and the database
    active,    \* seats that exist with isActive = true
    booking,   \* booking[c][s]: the row of seat s under the code of create c
    pc,        \* where each operation is
    kind,      \* which call each operation is
    code,      \* the confirmation code an operation works on
    entity,    \* the Booking object an operation built or loaded
    result,    \* what an operation returns or throws
    charged    \* operations whose payment went through

opVars == <<pc, kind, code, entity, result>>
vars   == <<locksVars, now, active, booking, opVars, charged>>

Statuses == {"absent", "pending", "confirmed", "cancelled", "expired"}
Phases   == {"idle", "lock", "seats", "bookings", "insert", "expire", "pay",
             "write", "release", "done", "crashed"}
Results  == {"none", "ok", "conflict", "rejected", "error"}

Row == [status : Statuses, expiresAt : Nat \cup {Null}, txn : Ops \cup {Null}]

Absent == [status |-> "absent", expiresAt |-> Null, txn |-> Null]

TypeOK ==
    /\ LocksTypeOK
    /\ now \in Nat
    /\ active \subseteq Seats
    /\ booking \in [Creates -> [Seats -> Row]]
    /\ pc \in [Ops -> Phases]
    /\ kind \in [Ops -> Kinds \cup {"create", "none"}]
    /\ code \in [Ops -> Creates \cup {Null}]
    /\ entity \in [Ops -> Row]
    /\ result \in [Ops -> Results]
    /\ charged \subseteq Ops

Init ==
    /\ LocksInit
    /\ now = 0
    /\ active = Seats
    /\ booking = [c \in Creates |-> [s \in Seats |-> Absent]]
    /\ pc = [o \in Ops |-> "idle"]
    /\ kind = [o \in Ops |-> "none"]
    /\ code = [o \in Ops |-> Null]
    /\ entity = [o \in Ops |-> Absent]
    /\ result = [o \in Ops |-> "none"]
    /\ charged = {}
------------------------------------------------------------------------------
(* Locking, shared by all calls.                                           *)

\* The first call made under the locks.
FirstUnderLock(o) ==
    CASE kind[o] = "create"        -> "seats"
      [] kind[o] \in ConfirmKinds  -> "pay"
      [] OTHER                     -> "write"

\* What is left after a refused acquisition: give back the keys obtained, or
\* throw at once if there are none.
AfterRefusal(keys) == IF keys = {} THEN "done" ELSE "release"

\* One key of acquireMultipleLocks, and its outcome when it was the last.
AcquireSeat(o, s) ==
    /\ pc[o] = "lock"
    /\ AcquireLock(o, s)
    /\ \/ todo'[o] # {} /\ UNCHANGED <<pc, result>>
       \/ AllLocked(o)' /\ pc' = [pc EXCEPT ![o] = FirstUnderLock(o)] /\ UNCHANGED result
       \/ /\ todo'[o] = {} /\ ~AllLocked(o)'
          /\ pc' = [pc EXCEPT ![o] = AfterRefusal(mine'[o])]
          /\ result' = [result EXCEPT ![o] = "conflict"]
    /\ UNCHANGED <<now, active, booking, kind, code, entity, charged>>

\* One key of a release loop; after the last the call returns or throws.
ReleaseSeat(o, s) ==
    /\ pc[o] = "release"
    /\ ReleaseLock(o, s)
    /\ pc' = IF mine'[o] = {} THEN [pc EXCEPT ![o] = "done"] ELSE pc
    /\ UNCHANGED <<now, active, booking, kind, code, entity, result, charged>>

\* The call leaves its try block with this outcome and enters finally.
\* (Mutant: the finally block is missing.)
LeaveMutant(o, outcome) ==
    /\ pc' = [pc EXCEPT ![o] = "done"]
    /\ result' = [result EXCEPT ![o] = outcome]
Leave(o, outcome) ==
    /\ pc' = [pc EXCEPT ![o] = "release"]
    /\ result' = [result EXCEPT ![o] = outcome]
------------------------------------------------------------------------------
(* createBooking.                                                          *)

\* A request arrives and starts to lock its seats.
CreateBooking(c) ==
    /\ pc[c] = "idle"
    /\ \E S \in Requests : StartLocking(c, S)
    /\ pc' = [pc EXCEPT ![c] = "lock"]
    /\ kind' = [kind EXCEPT ![c] = "create"]
    /\ code' = [code EXCEPT ![c] = c]
    /\ UNCHANGED <<now, active, booking, entity, result, charged>>

\* All the seats must exist and be active.
FindSeats(c) ==
    /\ pc[c] = "seats"
    /\ \/ /\ want[c] \subseteq active
          /\ pc' = [pc EXCEPT ![c] = "bookings"]
          /\ UNCHANGED result
       \/ ~(want[c] \subseteq active) /\ Leave(c, "rejected")
    /\ UNCHANGED <<locksVars, now, active, booking, kind, code, entity, charged>>

\* The rows the query for active bookings returns.  (Mutants: confirmed rows
\* are not asked for; the deadline is compared the wrong way round.)
ConfirmedIgnored(r) == r.status = "pending" /\ r.expiresAt > now
DeadlineSwapped(r) == \/ r.status = "confirmed"
                      \/ r.status = "pending" /\ r.expiresAt < now
BlocksSeat(r) == \/ r.status = "confirmed"
                 \/ r.status = "pending" /\ r.expiresAt > now

\* No seat may be taken; then the new Booking objects are built.
FindActiveBookings(c) ==
    /\ pc[c] = "bookings"
    /\ \/ /\ \A s \in want[c], d \in Creates : ~BlocksSeat(booking[d][s])
          /\ entity' = [entity EXCEPT ![c] =
                [status |-> "pending", expiresAt |-> now + Timeout, txn |-> Null]]
          /\ pc' = [pc EXCEPT ![c] = "insert"]
          /\ UNCHANGED result
       \/ /\ \E s \in want[c], d \in Creates : BlocksSeat(booking[d][s])
          /\ Leave(c, "conflict")
          /\ UNCHANGED entity
    /\ UNCHANGED <<locksVars, now, active, booking, kind, code, charged>>
------------------------------------------------------------------------------
(* The writes.  save() writes the loaded entity back, stale columns         *)
(* included; update() sets the named columns of the row as it is.           *)

\* (Mutant: the transaction id is not stored.)
ConfirmedRowMutant(o, r) == [r EXCEPT !.status = "confirmed", !.expiresAt = Null]
ConfirmedRow(o, r) ==
    [r EXCEPT !.status = "confirmed", !.expiresAt = Null, !.txn = o]

\* (Mutants: the status is misspelt; what was paid is cleared with it.)
CancelledRowMutant(r) == [r EXCEPT !.status = "canceled"]
ClearedRowMutant(r)   == [r EXCEPT !.status = "cancelled", !.txn = Null]
CancelledRow(r) == [r EXCEPT !.status = "cancelled"]

\* The row that o's pending write stores in place of row r.
NewRow(o, r) ==
    LET base == IF kind[o] \in GroupKinds THEN r ELSE entity[o]
    IN  IF pc[o] = "insert" THEN base
        ELSE IF pc[o] = "expire" THEN [base EXCEPT !.status = "expired"]
        ELSE IF kind[o] \in ConfirmKinds THEN ConfirmedRow(o, base)
        ELSE CancelledRow(base)

\* The seats whose rows the write names.  (Mutant: a group is confirmed or
\* cancelled one row at a time and only the first row is reached.)
WrittenSeatsMutant(o) ==
    IF pc[o] = "insert" THEN want[o] ELSE {CHOOSE s \in want[o] : TRUE}
WrittenSeats(o) == want[o]

\* The bookings table after o's pending write.
Written(o) ==
    [c \in Creates |-> [s \in Seats |->
        IF c = code[o] /\ s \in WrittenSeats(o)
        THEN NewRow(o, booking[c][s]) ELSE booking[c][s]]]

\* save and commitTransaction of a create.
InsertBookings(c) ==
    /\ pc[c] = "insert"
    /\ booking' = Written(c)
    /\ Leave(c, "ok")
    /\ UNCHANGED <<locksVars, now, active, kind, code, entity, charged>>

\* A confirm marks what it found overdue, without a lock, and throws.
ExpireFound(e) ==
    /\ pc[e] = "expire"
    /\ booking' = Written(e)
    /\ pc' = [pc EXCEPT ![e] = "done"]
    /\ result' = [result EXCEPT ![e] = "rejected"]
    /\ UNCHANGED <<locksVars, now, active, kind, code, entity, charged>>

\* The rows become confirmed or cancelled.
WriteBookings(e) ==
    /\ pc[e] = "write"
    /\ booking' = Written(e)
    /\ Leave(e, "ok")
    /\ UNCHANGED <<locksVars, now, active, kind, code, entity, charged>>
------------------------------------------------------------------------------
(* confirmBooking(s)WithPayment and cancelBooking(s)By...                  *)

\* The seats of the rows stored under a code.
StoredSeats(c) == {s \in Seats : booking[c][s].status # "absent"}

\* The rows a call of this kind may look up: a whole code or one booking.
Selections(k, c) ==
    IF k \in GroupKinds THEN {StoredSeats(c)} ELSE {{s} : s \in StoredSeats(c)}

\* Statuses that make the call throw BadRequest.
Refused(k, r) ==
    IF k \in ConfirmKinds THEN r.status # "pending"
                          ELSE r.status \notin {"pending", "confirmed"}

\* The selected seats whose reservation is over, of interest to a confirm.
OverdueSeats(k, c, S) ==
    {s \in S : k \in ConfirmKinds /\ booking[c][s].expiresAt < now}

\* The id, the code or the e-mail matches no booking.
NotFound(e) ==
    /\ pc[e] = "idle"
    /\ pc' = [pc EXCEPT ![e] = "done"]
    /\ result' = [result EXCEPT ![e] = "rejected"]
    /\ UNCHANGED <<locksVars, now, active, booking, kind, code, entity, charged>>

\* The rows are read and the checks made on them: this is the last the call
\* sees of the table before it writes.
Lookup(e, k, c, S) ==
    /\ pc[e] = "idle"
    /\ S \in Selections(k, c) /\ S # {}
    /\ kind' = [kind EXCEPT ![e] = k]
    /\ code' = [code EXCEPT ![e] = c]
    /\ entity' = IF k \in GroupKinds THEN entity
                 ELSE [entity EXCEPT ![e] = booking[c][CHOOSE s \in S : TRUE]]
    /\ UNCHANGED <<now, active, booking, charged>>

\* Some row has a status the call does not accept.
LookupRefused(e, k, c, S) ==
    /\ Lookup(e, k, c, S)
    /\ \E s \in S : Refused(k, booking[c][s])
    /\ pc' = [pc EXCEPT ![e] = "done"]
    /\ result' = [result EXCEPT ![e] = "rejected"]
    /\ UNCHANGED locksVars

\* A confirm finds overdue rows, which it will mark as expired.
LookupOverdue(e, k, c, S) ==
    /\ Lookup(e, k, c, S)
    /\ \A s \in S : ~Refused(k, booking[c][s])
    /\ OverdueSeats(k, c, S) # {}
    /\ want' = [want EXCEPT ![e] = OverdueSeats(k, c, S)]
    /\ pc' = [pc EXCEPT ![e] = "expire"]
    /\ UNCHANGED <<lock, todo, mine, result>>

\* The call goes on to lock the seats.
LookupAccepted(e, k, c, S) ==
    /\ Lookup(e, k, c, S)
    /\ \A s \in S : ~Refused(k, booking[c][s])
    /\ OverdueSeats(k, c, S) = {}
    /\ StartLocking(e, S)
    /\ pc' = [pc EXCEPT ![e] = "lock"]
    /\ UNCHANGED result

\* processPayment succeeds or declines, at random.
ProcessPayment(e) ==
    /\ pc[e] = "pay"
    /\ \/ /\ charged' = charged \cup {e}
          /\ pc' = [pc EXCEPT ![e] = "write"]
          /\ UNCHANGED result
       \/ /\ Leave(e, "rejected")
          /\ UNCHANGED charged
    /\ UNCHANGED <<locksVars, now, active, booking, kind, code, entity>>
------------------------------------------------------------------------------
(* Time, the cron job, the administrator and the faults.                   *)

Tick ==
    /\ now < MaxTime
    /\ now' = now + 1
    /\ UNCHANGED <<locksVars, active, booking, opVars, charged>>

\* The WHERE clause of the cron job.  (Mutant: the deadline is compared the
\* wrong way round.)
NotYetOverdue(r) == r.status = "pending" /\ r.expiresAt > now
Overdue(r) == r.status = "pending" /\ r.expiresAt < now

\* expireBookings: one UPDATE, every minute, with no lock.
ExpireBookings ==
    /\ \E c \in Creates, s \in Seats : Overdue(booking[c][s])
    /\ booking' = [c \in Creates |-> [s \in Seats |->
          IF Overdue(booking[c][s])
          THEN [booking[c][s] EXCEPT !.status = "expired"] ELSE booking[c][s]]]
    /\ UNCHANGED <<locksVars, now, active, opVars, charged>>

\* An administrator deactivates or activates a seat.
ToggleSeat(s) ==
    /\ active' = IF s \in active THEN active \ {s} ELSE active \cup {s}
    /\ UNCHANGED <<locksVars, now, booking, opVars, charged>>

Lapse(s) == LapseLock(s) /\ UNCHANGED <<now, active, booking, opVars, charged>>

\* The process running o dies; an open transaction is rolled back.
Crash(o) ==
    /\ "crash" \in Faults
    /\ pc[o] \notin {"idle", "done", "crashed"}
    /\ CrashLocks(o)
    /\ pc' = [pc EXCEPT ![o] = "crashed"]
    /\ UNCHANGED <<now, active, booking, kind, code, entity, result, charged>>

\* Redis throws out of a lock or release loop, possibly in a finally block,
\* where it replaces the result of the call.
RedisFails(o) ==
    /\ "redis" \in Faults
    /\ pc[o] \in {"lock", "release"}
    /\ RedisError(o)
    /\ pc' = [pc EXCEPT ![o] = "done"]
    /\ result' = [result EXCEPT ![o] = "error"]
    /\ UNCHANGED <<now, active, booking, kind, code, entity, charged>>

\* A database call throws.  A write or a commit may have taken effect.
\* (Mutant: the rows of a create are saved outside a transaction.)
AfterDbErrorMutant(o) ==
    {booking} \cup IF pc[o] = "insert"
                   THEN {[booking EXCEPT ![code[o]][s] = NewRow(o, @)] : s \in want[o]}
                   ELSE {}
AfterDbError(o) ==
    {booking} \cup IF pc[o] \in {"insert", "expire", "write"} THEN {Written(o)} ELSE {}

DbFails(o) ==
    /\ "db" \in Faults
    /\ pc[o] \in {"seats", "bookings", "insert", "expire", "write"}
    /\ booking' \in AfterDbError(o)
    /\ pc' = [pc EXCEPT ![o] = IF @ = "expire" THEN "done" ELSE "release"]
    /\ result' = [result EXCEPT ![o] = "error"]
    /\ UNCHANGED <<locksVars, now, active, kind, code, entity, charged>>
------------------------------------------------------------------------------
\* A client or a message starts an operation.
Begin(o) ==
    \/ o \in Creates /\ CreateBooking(o)
    \/ o \in Edits /\ NotFound(o)
    \/ /\ o \in Edits
       /\ \E k \in Kinds, c \in Creates : \E S \in Selections(k, c) :
             \/ LookupRefused(o, k, c, S)
             \/ LookupOverdue(o, k, c, S)
             \/ LookupAccepted(o, k, c, S)

\* An operation under way takes its next step.
Step(o) ==
    \/ \E s \in Seats : AcquireSeat(o, s) \/ ReleaseSeat(o, s)
    \/ FindSeats(o) \/ FindActiveBookings(o) \/ InsertBookings(o)
    \/ ExpireFound(o) \/ ProcessPayment(o) \/ WriteBookings(o)

Fault(o) == Crash(o) \/ RedisFails(o) \/ DbFails(o)

Next ==
    \/ \E o \in Ops : Begin(o) \/ Step(o) \/ Fault(o)
    \/ Tick
    \/ ExpireBookings
    \/ \E s \in Toggled : ToggleSeat(s)
    \/ \E s \in Seats : Lapse(s)

Spec == Init /\ [][Next]_vars

\* Time passes, the event loop resumes every operation whose call has answered,
\* Redis drops keys in time and the cron job runs every minute.  Clients,
\* administrators and faults are under no obligation.
Fairness ==
    /\ WF_vars(Tick)
    /\ \A o \in Ops : WF_vars(Step(o))
    /\ \A s \in Seats : WF_vars(Lapse(s))
    /\ WF_vars(ExpireBookings)

FairSpec == Spec /\ Fairness
------------------------------------------------------------------------------
(***************************************************************************)
(* What the properties speak of.  They have their own notion of a taken    *)
(* seat, from the API's promise: paid for, or reserved and still in time.  *)
(***************************************************************************)
Occupies(c, s) ==
    \/ booking[c][s].status = "confirmed"
    \/ booking[c][s].status = "pending" /\ booking[c][s].expiresAt > now

Free(s)        == \A c \in Creates : ~Occupies(c, s)
OneOccupant(s) == \A c, d \in Creates : Occupies(c, s) /\ Occupies(d, s) => c = d

\* An operation has all its seats locked and has not left its try block.
InWork(o) == pc[o] \in {"seats", "bookings", "insert", "pay", "write"}

\* acquireMultipleLocks is all or nothing and exclusive: two calls that got
\* past it at the same time work on disjoint sets of seats.
ExclusiveWork ==
    \A o, p \in Ops : InWork(o) /\ InWork(p) /\ o # p => want[o] \cap want[p] = {}

\* The check of the active bookings is still true when the new bookings are
\* committed, several awaits later: a create never books a seat that another
\* code occupies at that moment.
InsertOnlyWhenFree ==
    [][\A c \in Creates, s \in Seats :
          /\ booking[c][s].status = "absent"
          /\ booking'[c][s].status # "absent"
          => Free(s)]_vars

\* A seat gets a second occupant in one way only: a confirmation writes a row
\* that had stopped occupying the seat (overdue, expired or cancelled) after
\* confirmBooking(s)WithPayment had checked it.
DoubleBookingNeedsLateConfirm ==
    [][\A s \in Seats : OneOccupant(s) /\ ~OneOccupant(s)' =>
          \E c \in Creates : /\ ~Occupies(c, s)
                             /\ booking[c][s].status # "absent"
                             /\ booking'[c][s].status = "confirmed"]_vars

\* Every decision on a seat (reserve, confirm, cancel) is written by an
\* operation whose token is in Redis under the seat's key at that moment.
\* Expiry is the exception: neither the cron job nor a confirmation that finds
\* its row overdue takes the lock.
OnlyHolderDecides ==
    [][\A c \in Creates, s \in Seats :
          /\ booking'[c][s] # booking[c][s]
          /\ booking'[c][s].status # "expired"
          => lock[s] # Null /\ code[lock[s]] = c /\ s \in want[lock[s]]]_vars

\* A finished call left no key of its own in Redis, whichever way it left its
\* try block (Redis itself answering and the process surviving).
NoKeyLeftBehind == \A o \in Ops, s \in Seats : pc[o] = "done" => lock[s] # o

\* createBooking books all the seats of a request or none; it books none when
\* it refuses, and all when it answers normally.
CreateAllOrNothing ==
    \A c \in Creates :
        /\ StoredSeats(c) \in {{}, want[c]}
        /\ result[c] \in {"conflict", "rejected"} => StoredSeats(c) = {}
        /\ pc[c] = "done" /\ result[c] = "ok" => StoredSeats(c) = want[c]

\* The other calls made for a code are all calls for the whole code.
GroupCallsOnly(c) == \A e \in Edits : code[e] = c => kind[e] \in GroupKinds

\* As long as the bookings of a code are confirmed and cancelled together, they
\* go through their life together, whatever races with whatever.
GroupUniform ==
    \A c \in Creates : GroupCallsOnly(c) =>
        \A s, t \in StoredSeats(c) : booking[c][s].status = booking[c][t].status

\* Every confirmed booking names a payment that went through, and will not
\* expire any more.
ConfirmedIsPaid ==
    \A c \in Creates, s \in Seats :
        booking[c][s].status = "confirmed" =>
            booking[c][s].txn \in charged /\ booking[c][s].expiresAt = Null

\* As long as the bookings of a code are confirmed and cancelled together, no
\* payment gets lost: once a call charged and confirmed its bookings, each of
\* them names a transaction, even after a later cancellation or expiry.
PaymentRecorded ==
    \A e \in charged : result[e] = "ok" /\ GroupCallsOnly(code[e]) =>
        \A s \in want[e] : booking[code[e]][s].txn \in charged

\* A payment on record disappears from its row in one way only: a call for a
\* single booking, which had loaded it as pending, saves the whole entity after
\* a confirmation that came in between.  No cron job, group call or cancellation
\* of what was loaded as confirmed loses it.
PaymentWipedByOldEntity ==
    [][\A c \in Creates, s \in Seats :
          booking[c][s].txn # Null /\ booking'[c][s].txn = Null =>
             \E e \in Edits : /\ code[e] = c /\ s \in want[e]
                              /\ kind[e] \notin GroupKinds
                              /\ pc[e] \in {"expire", "write"}
                              /\ entity[e].status = "pending"]_vars

\* What was asked for under a code, and its rows as the customer sees them.
askedSeats    == [c \in Creates |-> want[c]]
bookedSeats   == [c \in Creates |-> StoredSeats(c)]
reservedSeats == [c \in Creates |->
    {s \in Seats : booking[c][s].status = "pending" /\ booking[c][s].expiresAt > now}]
soldSeats     == [c \in Creates |-> {s \in Seats : booking[c][s].status = "confirmed"}]

Promise == INSTANCE SeatReservations
    WITH Holders <- Creates, Renewable <- {}, asked <- askedSeats,
         granted <- bookedSeats, reserved <- reservedSeats, sold <- soldSeats

\* The service, with its locks, transactions and cron job, keeps the promise of
\* SeatReservations: all the seats of a request are granted at once and to
\* nobody else, sales and cancellations touch one code only, time ends no sale.
ImplementsReservations == Promise!Spec

\* Calls never wait for each other: of two calls that take the keys of the same
\* seats in opposite orders each notes the other's key as failed, goes on, gives
\* back what it got and throws.  So every call ends, unless its process dies,
\* although no key lapses while its owner works.
OperationsFinish ==
    \A o \in Ops : pc[o] # "idle" ~> pc[o] \in {"done", "crashed"}

\* A reservation does not stay pending for ever: it is confirmed, cancelled or
\* expired in the end (those that lapse before the bounded clock stops).
ReservationsEnd ==
    \A c \in Creates, s \in Seats :
        /\ booking[c][s].status = "pending"
        /\ booking[c][s].expiresAt < MaxTime
        ~> booking[c][s].status # "pending"
------------------------------------------------------------------------------
(***************************************************************************)
(* What the README says of the program and the code does not keep.         *)
(***************************************************************************)

\* README: distributed locking prevents races when several people book the
\* same seat.  A seat has at most one occupant.
OneBookingPerSeat == \A s \in Seats : OneOccupant(s)

\* README: the reservations that expire are those not confirmed.
ConfirmedNeverExpires ==
    [][\A c \in Creates, s \in Seats :
          booking[c][s].status = "confirmed" =>
              booking'[c][s].status # "expired"]_vars

\* README: confirming a confirmed booking answers 400.  No booking that is
\* confirmed and paid for is paid for by another call.
ConfirmedNotChargedAgain ==
    [][\A e \in charged' \ charged : \A s \in want[e] :
          booking[code[e]][s].status # "confirmed"]_vars
==============================================================================
