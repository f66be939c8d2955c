--------------------------- MODULE SeatReservations ---------------------------
(***************************************************************************)
(* What the booking system promises about the seats themselves, whichever  *)
(* way a booking comes in: seats are granted all together and only if      *)
(* nobody has them, they are sold only to whom they were granted, and time *)
(* ends reservations but no sale.  How the promise is kept, with locks,    *)
(* transactions and messages, is the business of modules Bookings and      *)
(* BookingRequests.                                                        *)
(*                                                                         *)
(* The system does not promise that a sale is in time: seats whose         *)
(* reservation is over may still be sold to its holder, even if they have  *)
(* been granted to somebody else meanwhile.  What holds if all the sales   *)
(* are in time is stated below.                                            *)
(***************************************************************************)
EXTENDS TLAPS

CONSTANTS
    Seats,
    Holders,    \* those who reserve: a confirmation code, a booking request
    Renewable   \* the holders who may reserve their seats more than once

VARIABLES
    asked,      \* asked[h]: the seats h asked for
    granted,    \* granted[h]: the seats h ever got
    reserved,   \* reserved[h]: the seats h has reserved, in time
    sold        \* sold[h]: the seats h has paid for

vars == <<asked, granted, reserved, sold>>

\* The seats that h has at the moment.
Taken(h) == reserved[h] \cup sold[h]

Init ==
    /\ asked = [h \in Holders |-> {}]
    /\ granted = [h \in Holders |-> {}]
    /\ reserved = [h \in Holders |-> {}]
    /\ sold = [h \in Holders |-> {}]

\* h asks for seats, once and for all.
Ask(h, S) ==
    /\ asked[h] = {}
    /\ asked' = [asked EXCEPT ![h] = S]
    /\ UNCHANGED <<granted, reserved, sold>>

\* h gets all the seats it asked for, which nobody has; the time they are
\* reserved for may be over by then.
Reserve(h) ==
    /\ asked[h] # {}
    /\ \A g \in Holders : asked[h] \cap Taken(g) = {}
    /\ granted[h] = {} \/ h \in Renewable
    /\ granted' = [granted EXCEPT ![h] = asked[h]]
    /\ \E T \in {{}, asked[h]} : reserved' = [reserved EXCEPT ![h] = T]
    /\ UNCHANGED <<asked, sold>>

\* h buys seats that were granted to it.
Sell(h, S) ==
    /\ S \subseteq granted[h]
    /\ sold' = [sold EXCEPT ![h] = @ \cup S]
    /\ reserved' = [reserved EXCEPT ![h] = @ \ S]
    /\ UNCHANGED <<asked, granted>>

\* h loses the seats of S, and nobody else loses or gets any.
Withdraw(h, S) ==
    /\ reserved' = [reserved EXCEPT ![h] = @ \ S]
    /\ sold' = [sold EXCEPT ![h] = @ \ S]
    /\ UNCHANGED <<asked, granted>>

\* Time ends reservations.
Lapse ==
    /\ reserved' \in [Holders -> SUBSET Seats]
    /\ \A h \in Holders : reserved'[h] \subseteq reserved[h]
    /\ UNCHANGED <<asked, granted, sold>>

Next ==
    \/ \E h \in Holders, S \in SUBSET Seats :
          Ask(h, S) \/ Sell(h, S) \/ Withdraw(h, S)
    \/ \E h \in Holders : Reserve(h)
    \/ Lapse

Spec == Init /\ [][Next]_vars
TypeOK ==
    /\ asked \in [Holders -> SUBSET Seats]
    /\ granted \in [Holders -> SUBSET Seats]
    /\ reserved \in [Holders -> SUBSET Seats]
    /\ sold \in [Holders -> SUBSET Seats]

\* Nobody has or gets a seat it did not ask for, and nobody gets a part of what
\* it asked for.
AskedSeatsOnly ==
    \A h \in Holders : /\ Taken(h) \subseteq granted[h]
                       /\ granted[h] \in {{}, asked[h]}

\* No seat has two holders.
OneHolderPerSeat ==
    \A g, h \in Holders : g # h => Taken(g) \cap Taken(h) = {}

\* Every sale is made while its seats are still reserved.
SellsReserved == \A h \in Holders : sold'[h] \subseteq Taken(h)
SalesInTime   == [][SellsReserved]_vars
------------------------------------------------------------------------------
\* Type correctness.
THEOREM TypeCorrect == Spec => []TypeOK
  <1>1. Init => TypeOK
    BY DEF Init, TypeOK
  <1>2. TypeOK /\ [Next]_vars => TypeOK'
    <2> SUFFICES ASSUME TypeOK, [Next]_vars
                 PROVE  TypeOK'
      OBVIOUS
    <2>1. ASSUME NEW h \in Holders, NEW S \in SUBSET Seats,
                 Ask(h, S) \/ Sell(h, S) \/ Withdraw(h, S)
          PROVE  TypeOK'
      BY <2>1 DEF TypeOK, Ask, Sell, Withdraw
    <2>2. ASSUME NEW h \in Holders, Reserve(h)
          PROVE  TypeOK'
      BY <2>2 DEF TypeOK, Reserve
    <2>3. CASE Lapse
      BY <2>3 DEF TypeOK, Lapse
    <2>4. CASE UNCHANGED vars
      BY <2>4 DEF TypeOK, vars
    <2> QED BY <2>1, <2>2, <2>3, <2>4 DEF Next
  <1> QED BY <1>1, <1>2, PTL DEF Spec

\* Who keeps the promise gives away all that was asked for or nothing, and
\* nothing else.
THEOREM AllThatWasAsked == Spec => []AskedSeatsOnly
  <1>1. Init => AskedSeatsOnly
    BY DEF Init, AskedSeatsOnly, Taken
  <1>2. TypeOK /\ AskedSeatsOnly /\ [Next]_vars => AskedSeatsOnly'
    <2> SUFFICES ASSUME TypeOK, AskedSeatsOnly, [Next]_vars,
                        NEW g \in Holders
                 PROVE  /\ reserved'[g] \cup sold'[g] \subseteq granted'[g]
                        /\ granted'[g] \in {{}, asked'[g]}
      BY DEF AskedSeatsOnly, Taken
    <2>0. /\ reserved[g] \cup sold[g] \subseteq granted[g]
          /\ granted[g] \in {{}, asked[g]}
      BY DEF AskedSeatsOnly, Taken
    <2>1. ASSUME NEW h \in Holders, NEW S \in SUBSET Seats, Ask(h, S)
          PROVE  /\ UNCHANGED <<granted, reserved, sold>>
                 /\ asked'[g] = asked[g] \/ asked[g] = {}
      BY <2>1 DEF TypeOK, Ask
    <2>2. ASSUME NEW h \in Holders, NEW S \in SUBSET Seats, Sell(h, S)
          PROVE  /\ UNCHANGED <<asked, granted>>
                 /\ reserved'[g] \cup sold'[g] \subseteq
                       reserved[g] \cup sold[g] \cup granted[g]
      BY <2>2 DEF TypeOK, Sell
    <2>3. ASSUME NEW h \in Holders, NEW S \in SUBSET Seats, Withdraw(h, S)
          PROVE  /\ UNCHANGED <<asked, granted>>
                 /\ reserved'[g] \cup sold'[g] \subseteq reserved[g] \cup sold[g]
      BY <2>3 DEF TypeOK, Withdraw
    <2>4. ASSUME NEW h \in Holders, Reserve(h)
          PROVE  /\ UNCHANGED <<asked, sold>>
                 /\ \/ granted'[g] = granted[g] /\ reserved'[g] = reserved[g]
                    \/ granted'[g] = asked[g] /\ reserved'[g] \in {{}, asked[g]}
      BY <2>4 DEF TypeOK, Reserve
    <2>5. CASE Lapse
      BY <2>0, <2>5 DEF Lapse
    <2>6. CASE UNCHANGED vars
      BY <2>0, <2>6 DEF vars
    <2> QED BY <2>0, <2>1, <2>2, <2>3, <2>4, <2>5, <2>6 DEF Next
  <1> QED BY <1>1, <1>2, TypeCorrect, PTL DEF Spec

\* As long as all sales are in time no seat ever has two holders.
THEOREM OneHolderIfInTime == Spec /\ SalesInTime => []OneHolderPerSeat
  <1>1. Init => OneHolderPerSeat
    BY DEF Init, OneHolderPerSeat, Taken
  <1>2. TypeOK /\ OneHolderPerSeat /\ [Next]_vars /\ [SellsReserved]_vars
            => OneHolderPerSeat'
    <2> SUFFICES ASSUME TypeOK, OneHolderPerSeat, [Next]_vars,
                        [SellsReserved]_vars
                 PROVE  OneHolderPerSeat'
      OBVIOUS
    <2>1. ASSUME \A h \in Holders : Taken(h)' \subseteq Taken(h)
          PROVE  OneHolderPerSeat'
      BY <2>1 DEF OneHolderPerSeat
    <2>2. CASE UNCHANGED vars
      BY <2>1, <2>2 DEF vars, Taken
    <2>3. ASSUME NEW h \in Holders, NEW S \in SUBSET Seats, Ask(h, S)
          PROVE  OneHolderPerSeat'
      BY <2>1, <2>3 DEF Ask, Taken
    <2>4. ASSUME NEW h \in Holders, NEW S \in SUBSET Seats, ~UNCHANGED vars,
                 Sell(h, S)
          PROVE  OneHolderPerSeat'
      <3>1. \A g \in Holders : sold'[g] \subseteq Taken(g)
        BY <2>4 DEF SellsReserved
      <3>2. \A g \in Holders : reserved'[g] \subseteq reserved[g]
        BY <2>4 DEF TypeOK, Sell
      <3> QED BY <2>1, <3>1, <3>2 DEF Taken
    <2>5. ASSUME NEW h \in Holders, NEW S \in SUBSET Seats, Withdraw(h, S)
          PROVE  OneHolderPerSeat'
      BY <2>1, <2>5 DEF TypeOK, Withdraw, Taken
    <2>6. ASSUME NEW h \in Holders, Reserve(h)
          PROVE  OneHolderPerSeat'
      <3>1. \A g \in Holders \ {h} : Taken(g)' = Taken(g)
        BY <2>6 DEF TypeOK, Reserve, Taken
      <3>2. Taken(h)' \subseteq asked[h] \cup Taken(h)
        BY <2>6 DEF TypeOK, Reserve, Taken
      <3>3. \A g \in Holders : asked[h] \cap Taken(g) = {}
        BY <2>6 DEF Reserve
      <3> QED BY <3>1, <3>2, <3>3 DEF OneHolderPerSeat
    <2>7. CASE Lapse
      BY <2>1, <2>7 DEF Lapse, Taken
    <2> QED BY <2>2, <2>3, <2>4, <2>5, <2>6, <2>7 DEF Next
  <1> QED BY <1>1, <1>2, TypeCorrect, PTL DEF Spec, SalesInTime
===============================================================================
