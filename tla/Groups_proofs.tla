----------------------------- MODULE Groups_proofs -----------------------------
(***************************************************************************)
(* What module Bookings promises to customers who confirm and cancel the   *)
(* bookings of a code together: the bookings go through their life         *)
(* together, and no payment gets lost.  Nothing here depends on the locks; *)
(* all faults are allowed, and keys may lapse early.                       *)
(***************************************************************************)
EXTENDS Bookings_proofs
------------------------------------------------------------------------------
(* The inductive invariant.                                                *)

\* A call that has not begun works on no code, and one that has not left its
\* try block has no result.
Undecided ==
    \A o \in Ops :
        /\ pc[o] = "idle" => code[o] = Null
        /\ pc[o] \notin {"release", "done", "crashed"} => result[o] = "none"

\* Who charges is a confirmation that is past its payment.
Chargers ==
    \A e \in Ops : e \in charged =>
        /\ e \in Edits
        /\ kind[e] \in ConfirmKinds
        /\ code[e] \in Creates
        /\ pc[e] \in {"write", "release", "done", "crashed"}

\* Calls for a whole code work on all its rows, also when a confirmation marks
\* only those it found overdue.
Follows ==
    \A e \in Edits :
        /\ code[e] \in Creates /\ GroupCallsOnly(code[e])
        /\ pc[e] \in {"lock", "expire", "pay", "write"} \/ e \in charged
        => want[e] = StoredSeats(code[e]) /\ want[e] # {}

\* The rows of a code have one status and one deadline.
Uniform(c) ==
    \A s, t \in StoredSeats(c) :
        /\ booking[c][s].status = booking[c][t].status
        /\ booking[c][s].expiresAt = booking[c][t].expiresAt

GroupInv == /\ CreateInv
            /\ PaidFirst
            /\ Undecided
            /\ Chargers
            /\ Follows
            /\ \A c \in Creates : GroupCallsOnly(c) => Uniform(c)
            /\ PaymentRecorded
------------------------------------------------------------------------------
(* Control.                                                                *)

\* The state of a call, as far as the invariant looks at it, changes by a step
\* of its own only.
LEMMA CallStep ==
    ASSUME NEW e \in Ops, TypeOK, [Next]_vars
    PROVE  \/ Begin(e) \/ Step(e) \/ Fault(e)
           \/ /\ pc'[e] = pc[e] /\ kind'[e] = kind[e] /\ code'[e] = code[e]
              /\ want'[e] = want[e] /\ result'[e] = result[e]
              /\ e \in charged' => e \in charged
  <1>1. ASSUME NEW p \in Ops, p # e, Begin(p) \/ Step(p) \/ Fault(p)
        PROVE  /\ pc'[e] = pc[e] /\ kind'[e] = kind[e] /\ code'[e] = code[e]
               /\ want'[e] = want[e] /\ result'[e] = result[e]
               /\ e \in charged' => e \in charged
    <2>1. Others(p) /\ result'[e] = result[e]
      BY <1>1, BeginOthers, StepOthers, FaultOthers, OthersResult
    <2>2. charged' \subseteq charged \cup {p}
      BY <1>1 DEF Begin, CreateBooking, NotFound, LookupRefused, LookupOverdue,
            LookupAccepted, Lookup, Step, AcquireSeat, ReleaseSeat, FindSeats,
            FindActiveBookings, InsertBookings, ExpireFound, ProcessPayment,
            WriteBookings, Fault, Crash, RedisFails, DbFails
    <2> QED BY <1>1, <2>1, <2>2 DEF Others
  <1>2. CASE UNCHANGED <<opVars, want, charged>>
    BY <1>2 DEF opVars
  <1>3. CASE \/ Tick \/ ExpireBookings \/ UNCHANGED vars
             \/ (\E s \in Toggled : ToggleSeat(s)) \/ (\E s \in Seats : Lapse(s))
    BY <1>2, <1>3 DEF Tick, ExpireBookings, ToggleSeat, Lapse, LapseLock, vars,
                      opVars, locksVars
  <1> QED BY <1>1, <1>3 DEF Next

\* Once a call has begun, its kind, its code and its seats are settled.
LEMMA CallSettled ==
    ASSUME NEW e \in Ops, Step(e) \/ Fault(e)
    PROVE  kind'[e] = kind[e] /\ code'[e] = code[e] /\ want'[e] = want[e]
  BY DEF Step, Fault, AcquireSeat, AcquireLock, ReleaseSeat, ReleaseLock,
         FindSeats, FindActiveBookings, InsertBookings, ExpireFound,
         ProcessPayment, WriteBookings, Crash, CrashLocks, RedisFails,
         RedisError, Forget, DbFails, locksVars

\* How a call that does not create begins.
LEMMA EditBegins ==
    ASSUME NEW e \in Edits, TypeOK, Begin(e)
    PROVE  /\ pc[e] = "idle"
           /\ \/ pc'[e] = "done"
              \/ \E k \in Kinds, c \in Creates : \E S \in Selections(k, c) :
                    \/ LookupOverdue(e, k, c, S)
                    \/ LookupAccepted(e, k, c, S)
  <1> e \in Ops /\ e \notin Creates
    BY DEF Edits
  <1> QED BY DEF TypeOK, Begin, NotFound, LookupRefused, LookupOverdue,
                 LookupAccepted, Lookup

\* A call begins once, and charges nothing by it.
LEMMA BeginsIdle ==
    ASSUME NEW o \in Ops, Begin(o)
    PROVE  pc[o] = "idle" /\ charged' = charged
  BY DEF Begin, CreateBooking, NotFound, LookupRefused, LookupOverdue,
         LookupAccepted, Lookup

\* A code that only group calls work on in the end never had others.
LEMMA GroupCallsBefore ==
    ASSUME NEW c \in Creates, TypeOK, Undecided, [Next]_vars, GroupCallsOnly(c)'
    PROVE  GroupCallsOnly(c)
  <1> SUFFICES ASSUME NEW e \in Edits, code[e] = c
               PROVE  kind[e] \in GroupKinds
    BY DEF GroupCallsOnly
  <1>1. e \in Ops /\ c # Null
    BY LocksAssumption, BookingsAssumption DEF Edits
  <1>2. pc[e] # "idle"
    BY <1>1 DEF Undecided
  <1>3. code'[e] = code[e] /\ kind'[e] = kind[e]
    BY <1>1, <1>2, CallStep, CallSettled, BeginsIdle
  <1> QED BY <1>3 DEF GroupCallsOnly

\* A result comes with the end of the try block.
LEMMA UndecidedStep ==
    ASSUME TypeOK, Undecided, [Next]_vars
    PROVE  Undecided'
  <1> SUFFICES ASSUME NEW o \in Ops
               PROVE  /\ pc'[o] = "idle" => code'[o] = Null
                      /\ pc'[o] \notin {"release", "done", "crashed"} =>
                            result'[o] = "none"
    BY DEF Undecided
  <1>1. CASE Begin(o)
    <2>1. pc'[o] = "done" \/ result'[o] = result[o]
      BY <1>1 DEF TypeOK, Begin, CreateBooking, NotFound, LookupRefused,
                  LookupOverdue, LookupAccepted
    <2> QED BY <1>1, <2>1, BeginPhase, BeginsIdle DEF Undecided
  <1>2. CASE Step(o)
    <2>1. pc'[o] # "idle" /\ pc[o] \notin {"done", "crashed"}
      BY <1>2 DEF TypeOK, Step, AcquireSeat, ReleaseSeat, FindSeats,
            FindActiveBookings, InsertBookings, ExpireFound, ProcessPayment,
            WriteBookings, Leave, FirstUnderLock, AfterRefusal
    <2>2. pc'[o] \notin {"release", "done"} =>
              result'[o] = result[o] /\ pc[o] # "release"
      BY <1>2 DEF TypeOK, Step, AcquireSeat, ReleaseSeat, FindSeats,
            FindActiveBookings, InsertBookings, ExpireFound, ProcessPayment,
            WriteBookings, Leave, FirstUnderLock, AfterRefusal
    <2> QED BY <2>1, <2>2 DEF Undecided
  <1>3. CASE Fault(o)
    <2>1. pc'[o] \in {"release", "done", "crashed"}
      BY <1>3 DEF TypeOK, Fault, Crash, RedisFails, DbFails
    <2> QED BY <2>1
  <1> QED BY <1>1, <1>2, <1>3, CallStep DEF Undecided

\* A payment is made in one phase only, which leads to the write.
LEMMA ChargersStep ==
    ASSUME CreateInv, TypeOK', Undecided, Chargers, [Next]_vars
    PROVE  Chargers'
  <1> SUFFICES ASSUME NEW e \in Ops, e \in charged'
               PROVE  /\ e \in Edits
                      /\ kind'[e] \in ConfirmKinds
                      /\ code'[e] \in Creates
                      /\ pc'[e] \in {"write", "release", "done", "crashed"}
    BY DEF Chargers
  <1>1. TypeOK /\ TypeOK'
    BY DEF CreateInv
  <1>2. CASE Begin(e)
    BY <1>2, BeginsIdle DEF Chargers
  <1>3. CASE e \in charged /\ (Step(e) \/ Fault(e))
    <2>1. pc'[e] \in {"write", "release", "done", "crashed"}
      BY <1>1, <1>3 DEF Chargers, TypeOK, Step, AcquireSeat, ReleaseSeat,
            FindSeats, FindActiveBookings, InsertBookings, ExpireFound,
            ProcessPayment, WriteBookings, Leave, Fault, Crash, RedisFails, DbFails
    <2> QED BY <1>3, <2>1, CallSettled DEF Chargers
  <1>4. CASE e \notin charged /\ (Step(e) \/ Fault(e))
    <2>1. ProcessPayment(e) /\ pc[e] = "pay" /\ pc'[e] = "write"
      BY <1>1, <1>4 DEF TypeOK, Step, AcquireSeat, ReleaseSeat,
            FindSeats, FindActiveBookings, InsertBookings, ExpireFound,
            ProcessPayment, WriteBookings, Leave, Fault, Crash, RedisFails, DbFails
    <2>2. e \notin Creates
      BY <2>1 DEF CreateInv, Stage
    <2>3. kind[e] \in ConfirmKinds /\ code[e] \in Creates
      BY <2>1 DEF CreateInv, PhaseFits
    <2> QED BY <1>4, <2>1, <2>2, <2>3, CallSettled DEF Edits
  <1>5. CASE /\ pc'[e] = pc[e] /\ kind'[e] = kind[e] /\ code'[e] = code[e]
             /\ e \in charged
    BY <1>5 DEF Chargers
  <1> QED BY <1>1, <1>2, <1>3, <1>4, <1>5, CallStep
------------------------------------------------------------------------------
(* The rows of a code.                                                     *)

\* The rows a group call has found, and those it will write, are all there are:
\* the insert came before, and there is no other.
LEMMA StoredSettled ==
    ASSUME NEW c \in Creates, CreateInv, [Next]_vars, StoredSeats(c) # {}
    PROVE  StoredSeats(c)' = StoredSeats(c) /\ pc[c] # "insert"
  BY StoredSeatsStep DEF CreateInv, Stage

\* The rows that a lookup for a whole code selects.
LEMMA GroupLookup ==
    ASSUME NEW e \in Edits, NEW k \in GroupKinds, NEW c \in Creates,
           NEW S \in Selections(k, c), CreateInv, Uniform(c),
           LookupOverdue(e, k, c, S) \/ LookupAccepted(e, k, c, S)
    PROVE  want'[e] = StoredSeats(c) /\ want'[e] # {}
  <1>1. S = StoredSeats(c) /\ S # {} /\ e \in Ops
    BY DEF Selections, LookupOverdue, LookupAccepted, Lookup, Edits
  <1>2. CASE LookupAccepted(e, k, c, S)
    BY <1>1, <1>2 DEF LookupAccepted, StartLocking, CreateInv, TypeOK, LocksTypeOK
  <1>3. CASE LookupOverdue(e, k, c, S)
    <2>1. want'[e] = OverdueSeats(k, c, S) /\ OverdueSeats(k, c, S) # {}
      BY <1>1, <1>3 DEF LookupOverdue, CreateInv, TypeOK, LocksTypeOK
    <2>2. OverdueSeats(k, c, S) = S
      BY <1>1, <2>1 DEF OverdueSeats, Uniform
    <2> QED BY <1>1, <2>1, <2>2
  <1> QED BY <1>2, <1>3

\* Nobody adds rows to a code after a call for the whole code has read it.
LEMMA FollowsStep ==
    ASSUME GroupInv, [Next]_vars
    PROVE  Follows'
  <1> SUFFICES ASSUME NEW e \in Edits, NEW c \in Creates,
                      code'[e] = c, GroupCallsOnly(c)',
                      \/ pc'[e] \in {"lock", "expire", "pay", "write"}
                      \/ e \in charged'
               PROVE  want'[e] = StoredSeats(c)' /\ want'[e] # {}
    BY DEF Follows, GroupCallsOnly, StoredSeats
  <1>1. /\ e \in Ops /\ e \notin Creates
        /\ TypeOK /\ CreateInv /\ Undecided /\ Chargers /\ Follows
    BY DEF Edits, GroupInv, CreateInv
  <1>2. kind'[e] \in GroupKinds
    BY DEF GroupCallsOnly
  <1>3. GroupCallsOnly(c) /\ Uniform(c)
    BY <1>1, <1>2, GroupCallsBefore DEF GroupInv
  <1>4. ASSUME want'[e] = StoredSeats(c), want'[e] # {}
        PROVE  want'[e] = StoredSeats(c)' /\ want'[e] # {}
    BY <1>1, <1>4, StoredSettled
  <1>5. CASE Begin(e)
    <2>1. pc[e] = "idle" /\ e \notin charged'
      BY <1>1, <1>5, BeginsIdle DEF Chargers
    <2>2. PICK k \in Kinds, d \in Creates : \E S \in Selections(k, d) :
              LookupOverdue(e, k, d, S) \/ LookupAccepted(e, k, d, S)
      BY <1>1, <1>5, <2>1, EditBegins
    <2>3. PICK S \in Selections(k, d) :
              LookupOverdue(e, k, d, S) \/ LookupAccepted(e, k, d, S)
      BY <2>2
    <2>4. k = kind'[e] /\ d = c
      BY <1>1, <2>3 DEF LookupOverdue, LookupAccepted, Lookup, TypeOK
    <2>5. want'[e] = StoredSeats(c) /\ want'[e] # {}
      BY <1>1, <1>2, <1>3, <2>3, <2>4, GroupLookup
    <2> QED BY <1>4, <2>5
  <1>6. ASSUME code'[e] = code[e], want'[e] = want[e],
               pc[e] \in {"lock", "expire", "pay", "write"} \/ e \in charged
        PROVE  want'[e] = StoredSeats(c)' /\ want'[e] # {}
    BY <1>1, <1>3, <1>4, <1>6 DEF Follows
  <1>7. CASE Step(e) \/ Fault(e)
    <2>1. pc[e] \in {"lock", "expire", "pay", "write"} \/ e \in charged
      BY <1>1, <1>7 DEF TypeOK, CreateInv, PhaseFits, Step, AcquireSeat, ReleaseSeat,
            FindSeats, FindActiveBookings, InsertBookings, ExpireFound,
            ProcessPayment, WriteBookings, Leave, Fault, Crash, RedisFails, DbFails,
            FirstUnderLock, AfterRefusal
    <2> QED BY <1>1, <1>6, <1>7, <2>1, CallSettled
  <1>8. CASE /\ pc'[e] = pc[e] /\ code'[e] = code[e] /\ want'[e] = want[e]
             /\ e \in charged' => e \in charged
    BY <1>6, <1>8
  <1> QED BY <1>1, <1>5, <1>7, <1>8, CallStep

\* What the write of a group call does to a row.
LEMMA GroupRow ==
    ASSUME NEW o \in Ops, NEW r \in Row, kind[o] \in GroupKinds,
           pc[o] \in {"expire", "write"}
    PROVE  \/ NewRow(o, r) = [r EXCEPT !.status = "expired"]
           \/ NewRow(o, r) = [r EXCEPT !.status = "cancelled"]
           \/ /\ kind[o] \in ConfirmKinds
              /\ pc[o] = "write"
              /\ NewRow(o, r) = [r EXCEPT !.status = "confirmed",
                                         !.expiresAt = Null, !.txn = o]
  BY DEF NewRow, ConfirmedRow, CancelledRow, GroupKinds

\* What kind of write it is that changes the rows of a code.
LEMMA GroupWrite ==
    ASSUME NEW c \in Creates, NEW o \in Ops, GroupInv, GroupCallsOnly(c),
           pc[o] \in {"insert", "expire", "write"}, code[o] = c
    PROVE  \/ o = c /\ pc[c] = "insert" /\ StoredSeats(c) = {}
           \/ /\ o \in Edits /\ kind[o] \in GroupKinds
              /\ pc[o] \in {"expire", "write"}
              /\ want[o] = StoredSeats(c)
  <1>1. CASE o \in Creates
    BY <1>1 DEF GroupInv, CreateInv, Stage, PhaseFits, OwnCode
  <1>2. CASE o \in Edits
    <2>1. pc[o] # "insert"
      BY <1>2 DEF GroupInv, CreateInv, PhaseFits, OwnCode, Edits
    <2> QED BY <1>2, <2>1 DEF GroupInv, Follows, GroupCallsOnly
  <1> QED BY <1>1, <1>2 DEF Edits

\* Each write reaches all rows of the code and treats them alike; so does the
\* cron job, as they have one deadline.
LEMMA UniformStep ==
    ASSUME NEW c \in Creates, GroupInv, [Next]_vars, GroupCallsOnly(c)'
    PROVE  Uniform(c)'
  <1>1. GroupCallsOnly(c) /\ Uniform(c) /\ CreateInv /\ TypeOK
    BY GroupCallsBefore DEF GroupInv, CreateInv
  <1>2. \A s \in Seats : booking[c][s] \in Row
    BY <1>1 DEF TypeOK
  <1> DEFINE Alike(r, q) == r.status = q.status /\ r.expiresAt = q.expiresAt
  <1>3. SUFFICES ASSUME NEW s \in StoredSeats(c)', NEW t \in StoredSeats(c)'
                 PROVE  Alike(booking'[c][s], booking'[c][t])
    BY DEF Uniform
  <1>4. s \in Seats /\ t \in Seats
    BY DEF StoredSeats
  <1>5. CASE StoredSeats(c)' = StoredSeats(c)
    <2>1. Alike(booking[c][s], booking[c][t])
      BY <1>1, <1>5 DEF Uniform
    <2>2. CASE booking' = booking
      BY <2>1, <2>2
    <2>3. CASE ExpireBookings
      BY <1>2, <1>4, <2>1, <2>3 DEF ExpireBookings, Overdue, Row
    <2>4. ASSUME NEW o \in Ops, pc[o] \in {"insert", "expire", "write"},
                 booking' = Written(o)
          PROVE  Alike(booking'[c][s], booking'[c][t])
      <3>1. CASE code[o] # c
        BY <1>4, <2>1, <2>4, <3>1, WrittenRow
      <3>2. CASE code[o] = c
        <4>1. /\ kind[o] \in GroupKinds /\ pc[o] \in {"expire", "write"}
              /\ want[o] = StoredSeats(c)
          BY <1>1, <1>5, <2>4, <3>2, GroupWrite
        <4>2. /\ booking'[c][s] = NewRow(o, booking[c][s])
              /\ booking'[c][t] = NewRow(o, booking[c][t])
          BY <1>4, <1>5, <2>4, <3>2, <4>1, WrittenRow
        <4>3. booking[c][s] \in Row /\ booking[c][t] \in Row
          BY <1>2, <1>4
        <4> QED BY <2>1, <4>1, <4>2, <4>3 DEF NewRow, ConfirmedRow, CancelledRow, Row
      <3> QED BY <3>1, <3>2
    <2> QED BY <1>1, <2>2, <2>3, <2>4, TableStep
  <1>6. CASE pc[c] = "insert" /\ booking' = Written(c)
    <2>1. StoredSeats(c)' = want[c] /\ c \in Ops /\ code[c] = c
      BY <1>1, <1>6, InsertStores, BookingsAssumption
         DEF CreateInv, PhaseFits, OwnCode
    <2>2. \A q \in Seats : q \in want[c] => booking'[c][q] = entity[c]
      BY <1>1, <1>6, <2>1, WrittenRow DEF NewRow, CreateInv, PhaseFits, GroupKinds
    <2> QED BY <1>4, <2>1, <2>2
  <1> QED BY <1>1, <1>5, <1>6, StoredSeatsStep

\* The transactions of paid bookings stay: a later group call keeps them, or
\* replaces them by its own.
LEMMA RecordedStep ==
    ASSUME GroupInv, TypeOK', Chargers', [Next]_vars
    PROVE  PaymentRecorded'
  <1> SUFFICES ASSUME NEW e \in Ops, NEW c \in Creates, e \in charged',
                      result'[e] = "ok", code'[e] = c, GroupCallsOnly(c)',
                      NEW s \in Seats, s \in want'[e]
               PROVE  booking'[c][s].txn \in charged'
    BY DEF PaymentRecorded, GroupCallsOnly, TypeOK, LocksTypeOK, Chargers
  <1>1. /\ TypeOK /\ CreateInv /\ Undecided /\ Chargers /\ Follows /\ PaidFirst
        /\ PaymentRecorded /\ charged \subseteq charged'
        /\ e \in Edits /\ e \notin Creates
    BY ChargedStep DEF GroupInv, CreateInv, Chargers, Edits
  <1>2. GroupCallsOnly(c) /\ booking[c][s] \in Row
    BY <1>1, GroupCallsBefore DEF TypeOK
  <1>3. CASE /\ e \in charged /\ result[e] = "ok"
             /\ code[e] = c /\ s \in want[e]
    <2>1. want[e] = StoredSeats(c) /\ booking[c][s].txn \in charged'
      BY <1>1, <1>2, <1>3 DEF Follows, PaymentRecorded
    <2>2. CASE booking' = booking
      BY <2>1, <2>2
    <2>3. CASE ExpireBookings
      <3>1. booking'[c][s].txn = booking[c][s].txn
        BY <1>2, <2>3 DEF ExpireBookings, Row
      <3> QED BY <2>1, <3>1
    <2>4. ASSUME NEW o \in Ops, pc[o] \in {"insert", "expire", "write"},
                 booking' = Written(o)
          PROVE  booking'[c][s].txn \in charged'
      <3>1. CASE ~(c = code[o] /\ s \in want[o])
        BY <2>1, <2>4, <3>1, WrittenRow
      <3>2. CASE c = code[o] /\ s \in want[o]
        <4>1. kind[o] \in GroupKinds /\ pc[o] \in {"expire", "write"}
          BY <1>2, <1>3, <2>1, <2>4, <3>2, GroupWrite
        <4>2. booking'[c][s] = NewRow(o, booking[c][s])
          BY <2>4, <3>2, WrittenRow
        <4>3. \/ booking'[c][s].txn = booking[c][s].txn
              \/ /\ kind[o] \in ConfirmKinds /\ pc[o] = "write"
                 /\ booking'[c][s].txn = o
          BY <1>2, <4>1, <4>2 DEF NewRow, ConfirmedRow, CancelledRow, Row
        <4> QED BY <1>1, <2>1, <4>3 DEF PaidFirst
      <3> QED BY <3>1, <3>2
    <2> QED BY <1>1, <2>2, <2>3, <2>4, TableStep
  <1>4. CASE WriteBookings(e)
    <2>1. /\ pc[e] = "write" /\ booking' = Written(e) /\ e \in charged
          /\ code[e] = c /\ want'[e] = want[e] /\ kind'[e] = kind[e]
      BY <1>4 DEF WriteBookings, locksVars
    <2>2. kind[e] \in ConfirmKinds \cap GroupKinds
      BY <1>1, <1>2, <2>1 DEF Chargers, GroupCallsOnly
    <2>3. booking'[c][s] = NewRow(e, booking[c][s])
      BY <2>1, WrittenRow
    <2>4. booking'[c][s].txn = e
      BY <1>2, <2>1, <2>2, <2>3 DEF NewRow, ConfirmedRow, Row
    <2> QED BY <1>1, <2>1, <2>4
  <1>5. ~Begin(e)
    BY <1>1, BeginsIdle DEF Chargers
  <1>6. CASE Step(e) /\ ~WriteBookings(e)
    <2>1. pc[e] # "insert"
      BY <1>1 DEF CreateInv, PhaseFits, OwnCode
    <2>2. pc[e] = "pay" => result[e] = "none"
      BY <1>1 DEF Undecided
    <2>3. result[e] = "ok" /\ e \in charged
      BY <1>1, <1>6, <2>1, <2>2
         DEF TypeOK, Step, AcquireSeat, ReleaseSeat, FindSeats,
             FindActiveBookings, InsertBookings, ExpireFound, ProcessPayment, Leave
    <2> QED BY <1>3, <1>6, <2>3, CallSettled
  <1>7. CASE Fault(e)
    <2>1. result[e] = "ok" /\ e \in charged
      BY <1>1, <1>7 DEF TypeOK, Fault, Crash, RedisFails, DbFails
    <2> QED BY <1>3, <1>7, <2>1, CallSettled
  <1> QED BY <1>1, <1>3, <1>4, <1>5, <1>6, <1>7, CallStep
------------------------------------------------------------------------------
(* The theorems.                                                           *)

\* The invariant holds in every behaviour, whatever fails and however short
\* the keys live.
THEOREM GroupInvariant == Spec => []GroupInv
  <1>1. Init => GroupInv
    <2>1. Init => CreateInv
      <3>1. Init => TypeOK
        BY DEF Init, LocksInit, TypeOK, LocksTypeOK, Phases, Results, Row,
               Statuses, Absent
      <3> QED BY <3>1, BookingsAssumption
              DEF Init, LocksInit, CreateInv, PhaseFits, Deadlines, RowsStored,
                  OwnCode, Stage, StoredSeats, Absent
    <2>2. Init => Follows
      BY LocksAssumption, BookingsAssumption DEF Init, Follows, Edits
    <2>3. Init => \A c \in Creates : StoredSeats(c) = {}
      BY DEF Init, StoredSeats, Absent
    <2> QED BY <2>1, <2>2, <2>3
            DEF Init, GroupInv, PaidFirst, Undecided, Chargers, Uniform,
                PaymentRecorded
  <1>2. GroupInv /\ TypeOK' /\ [Next]_vars => GroupInv'
    <2> SUFFICES ASSUME GroupInv, TypeOK', [Next]_vars
                 PROVE  GroupInv'
      OBVIOUS
    <2>1. TypeOK /\ CreateInv /\ PaidFirst /\ Undecided /\ Chargers
      BY DEF GroupInv, CreateInv
    <2>2. CreateInv'
      BY <2>1, PhaseFitsStep, DeadlinesStep, RowsStoredStep, OwnCodeStep, StageStep
         DEF CreateInv
    <2>3. PaidFirst' /\ Undecided' /\ Chargers' /\ Follows'
      BY <2>1, PaidFirstStep, UndecidedStep, ChargersStep, FollowsStep DEF CreateInv
    <2>4. \A c \in Creates : GroupCallsOnly(c)' => Uniform(c)'
      BY UniformStep
    <2>5. PaymentRecorded'
      BY <2>3, RecordedStep
    <2> QED BY <2>2, <2>3, <2>4, <2>5 DEF GroupInv
  <1> QED BY <1>1, <1>2, TypeCorrect, PTL DEF Spec

\* Bookings of a code that are confirmed and cancelled together have one status
\* at all times.
THEOREM GroupsStayTogether == Spec => []GroupUniform
  <1>1. GroupInv => GroupUniform
    BY DEF GroupInv, GroupUniform, Uniform
  <1> QED BY <1>1, GroupInvariant, PTL

\* What was paid for in a group call names a transaction for ever after.
THEOREM PaymentsStay == Spec => []PaymentRecorded
  <1>1. GroupInv => PaymentRecorded
    BY DEF GroupInv
  <1> QED BY <1>1, GroupInvariant, PTL
------------------------------------------------------------------------------
(***************************************************************************)
(* Calls that do not overlap.  A confirmation reads its rows before it     *)
(* locks their seats, and what it read may be out of date when it charges  *)
(* or marks as expired.  The README's two promises on confirmed bookings   *)
(* fail for this reason only: they hold if no two calls that confirm or    *)
(* cancel under one code are under way at the same time.                   *)
(***************************************************************************)
UnderWay(o) == pc[o] \notin {"idle", "done", "crashed"}

CallsApart ==
    \A e, f \in Edits : UnderWay(e) /\ UnderWay(f) /\ code[e] = code[f] => e = f

\* A confirmation that has not charged, and one that is to mark its rows as
\* expired, is still right that they are not confirmed.
Confirming(e) == \/ pc[e] \in {"expire", "pay"}
                 \/ pc[e] = "lock" /\ kind[e] \in ConfirmKinds

Unconfirmed ==
    \A e \in Edits : Confirming(e) =>
        \A s \in want[e] : booking[code[e]][s].status # "confirmed"

\* Calls other than creates make all the writes but the inserts.
LEMMA Writers ==
    ASSUME NEW o \in Ops, GroupInv, pc[o] \in {"expire", "pay", "write"}
    PROVE  o \in Edits
  BY DEF GroupInv, CreateInv, Stage, Edits

\* The rows that a confirmation goes on with are pending.
LEMMA ConfirmBegins ==
    ASSUME NEW e \in Edits, TypeOK, Begin(e), Confirming(e)'
    PROVE  \A s \in want'[e] : booking'[code'[e]][s].status # "confirmed"
  <1>1. e \in Ops /\ pc[e] = "idle"
    BY EditBegins DEF Edits
  <1>2. PICK k \in Kinds, c \in Creates : \E S \in Selections(k, c) :
            LookupOverdue(e, k, c, S) \/ LookupAccepted(e, k, c, S)
    BY EditBegins DEF Confirming
  <1>3. PICK S \in Selections(k, c) :
            LookupOverdue(e, k, c, S) \/ LookupAccepted(e, k, c, S)
    BY <1>2
  <1>4. /\ kind'[e] = k /\ code'[e] = c /\ booking' = booking
        /\ \A s \in S : ~Refused(k, booking[c][s])
    BY <1>1, <1>3 DEF LookupOverdue, LookupAccepted, Lookup, TypeOK
  <1>5. want'[e] \subseteq S /\ k \in ConfirmKinds
    <2>1. CASE LookupOverdue(e, k, c, S)
      BY <1>1, <2>1 DEF LookupOverdue, OverdueSeats, TypeOK, LocksTypeOK
    <2>2. CASE LookupAccepted(e, k, c, S)
      BY <1>1, <1>4, <2>2
         DEF LookupAccepted, StartLocking, Confirming, TypeOK, LocksTypeOK
    <2> QED BY <1>3, <2>1, <2>2
  <1> QED BY <1>4, <1>5 DEF Refused

\* A row becomes confirmed by the write of a call for its code, which is under
\* way until its locks are given back.
LEMMA ConfirmedBy ==
    ASSUME NEW c \in Creates, NEW s \in Seats, GroupInv, [Next]_vars,
           booking[c][s].status # "confirmed", booking'[c][s].status = "confirmed"
    PROVE  \E o \in Edits : /\ pc[o] = "write" /\ code[o] = c
                            /\ pc'[o] \in {"done", "release"}
  <1>1. TypeOK /\ PhaseFits /\ Deadlines /\ booking[c][s] \in Row
    BY DEF GroupInv, CreateInv, TypeOK
  <1>2. ~ExpireBookings
    BY <1>1, ExpiredRow
  <1>3. PICK o \in Ops : /\ pc[o] \in {"insert", "expire", "write"}
                         /\ booking' = Written(o)
                         /\ pc'[o] \in {"done", "release"}
    BY <1>1, <1>2, TableStep
  <1>4. code[o] = c /\ booking'[c][s] = NewRow(o, booking[c][s])
    BY <1>3, WrittenRow
  <1>5. pc[o] = "write"
    BY <1>1, <1>3, <1>4, NewRowStatus
  <1> QED BY <1>3, <1>4, <1>5, Writers

\* What a confirmation read stays true until it has charged, as long as no
\* other call works on the code.
LEMMA UnconfirmedStep ==
    ASSUME GroupInv, CallsApart, Unconfirmed, TypeOK', [Next]_vars
    PROVE  Unconfirmed'
  <1> SUFFICES ASSUME NEW e \in Edits, Confirming(e)'
               PROVE  \A s \in want'[e] : booking'[code'[e]][s].status # "confirmed"
    BY DEF Unconfirmed, Confirming
  <1>1. e \in Ops /\ TypeOK /\ PhaseFits
    BY DEF Edits, GroupInv, CreateInv
  <1>2. CASE Begin(e)
    BY <1>1, <1>2, ConfirmBegins
  <1>3. ASSUME Confirming(e), code'[e] = code[e], want'[e] = want[e]
        PROVE  \A s \in want'[e] : booking'[code'[e]][s].status # "confirmed"
    <2>1. UnderWay(e) /\ code[e] \in Creates /\ want[e] \subseteq Seats
      BY <1>1, <1>3 DEF Confirming, UnderWay, PhaseFits, TypeOK, LocksTypeOK
    <2>2. SUFFICES ASSUME NEW s \in want[e],
                          booking'[code[e]][s].status = "confirmed"
                   PROVE  FALSE
      BY <1>3
    <2>3. s \in Seats /\ booking[code[e]][s].status # "confirmed"
      BY <1>3, <2>1 DEF Unconfirmed
    <2>4. PICK o \in Edits : /\ pc[o] = "write" /\ code[o] = code[e]
                             /\ pc'[o] \in {"done", "release"}
      BY <2>1, <2>2, <2>3, ConfirmedBy
    <2>5. o = e
      BY <2>1, <2>4 DEF CallsApart, UnderWay
    <2> QED BY <1>3, <2>4, <2>5 DEF Confirming
  <1>4. CASE Step(e) \/ Fault(e)
    <2>1. Confirming(e)
      BY <1>1, <1>4 DEF Confirming, TypeOK, Step, AcquireSeat, ReleaseSeat,
            FindSeats, FindActiveBookings, InsertBookings, ExpireFound,
            ProcessPayment, WriteBookings, Leave, Fault, Crash, RedisFails,
            DbFails, FirstUnderLock, AfterRefusal
    <2> QED BY <1>1, <1>3, <1>4, <2>1, CallSettled
  <1>5. CASE /\ pc'[e] = pc[e] /\ kind'[e] = kind[e] /\ code'[e] = code[e]
             /\ want'[e] = want[e]
    BY <1>3, <1>5 DEF Confirming
  <1> QED BY <1>1, <1>2, <1>4, <1>5, CallStep

\* A confirmation keeps being right about its rows while it locks and charges, in
\* every behaviour in which no two calls overlap on a code.
LEMMA UnconfirmedHolds == Spec /\ []CallsApart => []Unconfirmed
  <1>1. Init => Unconfirmed
    BY DEF Init, Unconfirmed, Confirming, Edits
  <1>2. GroupInv /\ CallsApart /\ Unconfirmed /\ TypeOK' /\ [Next]_vars =>
            Unconfirmed'
    BY UnconfirmedStep
  <1> QED BY <1>1, <1>2, GroupInvariant, TypeCorrect, PTL DEF Spec

\* Without overlapping calls for a code, neither the cron job nor a confirmation
\* turns a booking that was confirmed and paid for into an expired one.
THEOREM ConfirmedStaysIfApart == Spec /\ []CallsApart => ConfirmedNeverExpires
  <1>1. ASSUME GroupInv, Unconfirmed, [Next]_vars, NEW c \in Creates,
               NEW s \in Seats, booking[c][s].status = "confirmed",
               booking'[c][s].status = "expired"
        PROVE  FALSE
    <2>1. TypeOK /\ PhaseFits /\ Deadlines /\ booking[c][s] \in Row
      BY <1>1 DEF GroupInv, CreateInv, TypeOK
    <2>2. ~ExpireBookings
      BY <1>1, <2>1, ExpiredRow
    <2>3. PICK o \in Ops : /\ pc[o] \in {"insert", "expire", "write"}
                           /\ booking' = Written(o)
      BY <1>1, <2>1, <2>2, TableStep
    <2>4. /\ code[o] = c /\ s \in want[o]
          /\ booking'[c][s] = NewRow(o, booking[c][s])
      BY <1>1, <2>3, WrittenRow
    <2>5. pc[o] = "expire"
      BY <1>1, <2>1, <2>3, <2>4, NewRowStatus
    <2> QED BY <1>1, <2>4, <2>5, Writers DEF Unconfirmed, Confirming
  <1>2. GroupInv /\ Unconfirmed /\ [Next]_vars =>
           [\A c \in Creates, s \in Seats :
               booking[c][s].status = "confirmed" =>
                   booking'[c][s].status # "expired"]_vars
    BY <1>1
  <1> QED BY <1>2, GroupInvariant, UnconfirmedHolds, PTL
          DEF Spec, ConfirmedNeverExpires

\* Without overlapping calls for a code, no booking is paid for twice: who
\* charges does so for bookings that are not confirmed at that moment.
THEOREM ChargedOnceIfApart == Spec /\ []CallsApart => ConfirmedNotChargedAgain
  <1>1. ASSUME GroupInv, Unconfirmed, [Next]_vars, NEW e \in charged' \ charged
        PROVE  \A s \in want[e] : booking[code[e]][s].status # "confirmed"
    <2>1. PICK o \in Ops : ProcessPayment(o) /\ e = o
      BY <1>1 DEF Next, Begin, CreateBooking, NotFound, LookupRefused,
            LookupOverdue, LookupAccepted, Lookup, Step, AcquireSeat, ReleaseSeat,
            FindSeats, FindActiveBookings, InsertBookings, ExpireFound,
            ProcessPayment, WriteBookings, Fault, Crash, RedisFails, DbFails,
            Tick, ExpireBookings, ToggleSeat, Lapse, vars
    <2>2. e \in Edits /\ pc[e] = "pay"
      BY <1>1, <2>1, Writers DEF ProcessPayment
    <2> QED BY <1>1, <2>2 DEF Unconfirmed, Confirming
  <1>2. GroupInv /\ Unconfirmed /\ [Next]_vars =>
           [\A e \in charged' \ charged : \A s \in want[e] :
               booking[code[e]][s].status # "confirmed"]_vars
    BY <1>1
  <1> QED BY <1>2, GroupInvariant, UnconfirmedHolds, PTL
          DEF Spec, ConfirmedNotChargedAgain
================================================================================
