--------------------------- MODULE BookingRequests ----------------------------
(***************************************************************************)
(* The way of a booking request: BookingsController.create sends it to     *)
(* Kafka, BookingConsumerService.handleMessage turns it into bookings and  *)
(* stores the outcome in Redis under the request id, and the client polls  *)
(* that key through getBookingByRequestId.                                 *)
(*                                                                         *)
(* A lane is a partition of the topic booking-requests with the member of  *)
(* the consumer group that reads it: messages of a lane are handled one at *)
(* a time, in order, and again from the last committed offset when that    *)
(* member crashes.  The lane of a request is the hash of its first seat.   *)
(*                                                                         *)
(* createBooking is module Bookings in three steps: the locks (all or      *)
(* none, see SeatMutex), the transaction, and the return.  A confirmation  *)
(* code is 8 hexadecimal digits; all that matters of it is whether it also *)
(* reads as a JSON number (12345678, 1234E567).                            *)
(***************************************************************************)
EXTENDS Naturals, Sequences

CONSTANTS
    Requests,    \* request ids drawn by the controller
    Seats,
    SeatsOf,     \* SeatsOf[r]: the seats asked for in r
    Lanes,
    LaneOf,      \* LaneOf[r]: the lane of the first seat of r
    Null,
    MaxSends,    \* MAX_RETRIES + 1, the attempts of sendWithRetry
    MaxFailures  \* bound of the runs: failures, of any kind, in a behaviour

FailureKinds == {"crash",    \* the process of a consumer dies
                 "redis",    \* a Redis command throws
                 "db"}       \* a database command throws

\* What createBooking returns, and what it throws.
Codes  == {"plainCode", "numericCode"}
Errors == {"alreadyBooked", "beingProcessed", "bookingError"}

ASSUME RequestsAssumption ==
    /\ SeatsOf \in [Requests -> (SUBSET Seats) \ {{}}]
    /\ LaneOf \in [Requests -> Lanes]
    /\ Null \notin Requests \cup Lanes \cup Codes \cup Errors
    /\ MaxSends \in Nat \ {0}
    /\ MaxFailures \in Nat

VARIABLES
    client,     \* client[r]: what became of the POST of request r
    sends,      \* sends[r]: attempts of sendWithRetry made for r
    topic,      \* topic[l]: the messages of lane l
    position,   \* position[l]: messages of l that were handled by its member
    committed,  \* committed[l]: the committed offset of l
    pc,         \* pc[l]: where handleMessage is in lane l
    outcome,    \* outcome[l]: what createBooking returned or threw
    lockedBy,   \* lockedBy[s]: the lane whose token is under the key of s
    bookedBy,   \* bookedBy[s]: the request whose active booking has seat s
    booked,     \* requests for which bookings were ever stored
    answer,     \* answer[r]: the value of the key booking:request:<r>
    failures    \* failures[k]: the failures of kind k so far

laneVars == <<topic, position, committed, pc, outcome>>
vars     == <<client, sends, laneVars, lockedBy, bookedBy, booked, answer, failures>>

Phases == {"idle", "lookup", "lock", "work", "storeCode", "storeError"}

TypeOK ==
    /\ client \in [Requests -> {"new", "sending", "accepted", "failed"}]
    /\ sends \in [Requests -> 0..MaxSends]
    /\ topic \in [Lanes -> Seq(Requests)]
    /\ \A l \in Lanes : 0 <= committed[l] /\ committed[l] <= position[l]
                        /\ position[l] <= Len(topic[l])
    /\ pc \in [Lanes -> Phases]
    /\ outcome \in [Lanes -> Codes \cup Errors \cup {Null}]
    /\ lockedBy \in [Seats -> Lanes \cup {Null}]
    /\ bookedBy \in [Seats -> Requests \cup {Null}]
    /\ booked \subseteq Requests
    /\ answer \in [Requests -> Codes \cup Errors \cup {Null}]
    /\ failures \in [FailureKinds -> Nat]

Init ==
    /\ client = [r \in Requests |-> "new"]
    /\ sends = [r \in Requests |-> 0]
    /\ topic = [l \in Lanes |-> <<>>]
    /\ position = [l \in Lanes |-> 0]
    /\ committed = [l \in Lanes |-> 0]
    /\ pc = [l \in Lanes |-> "idle"]
    /\ outcome = [l \in Lanes |-> Null]
    /\ lockedBy = [s \in Seats |-> Null]
    /\ bookedBy = [s \in Seats |-> Null]
    /\ booked = {}
    /\ answer = [r \in Requests |-> Null]
    /\ failures = [k \in FailureKinds |-> 0]

\* A failure of this kind happens now.
Fail(k) ==
    /\ failures["crash"] + failures["redis"] + failures["db"] < MaxFailures
    /\ failures' = [failures EXCEPT ![k] = @ + 1]
------------------------------------------------------------------------------
(* The API and the producer.                                               *)

\* POST /bookings: a request id is drawn and sendMessage called, which gives up
\* at once if the producer cannot connect.
Post(r) ==
    /\ client[r] = "new"
    /\ \E c \in {"sending", "failed"} : client' = [client EXCEPT ![r] = c]
    /\ UNCHANGED <<sends, laneVars, lockedBy, bookedBy, booked, answer, failures>>

\* One attempt of sendWithRetry.  When it throws, the broker may have the
\* message all the same, and the next attempt sends it once more.  After the
\* last attempt the client is told of a failure.
Send(r) ==
    /\ client[r] = "sending"
    /\ sends' = [sends EXCEPT ![r] = @ + 1]
    /\ \/ client' = [client EXCEPT ![r] = "accepted"]
       \/ /\ sends'[r] < MaxSends
          /\ UNCHANGED client
       \/ /\ sends'[r] = MaxSends
          /\ client' = [client EXCEPT ![r] = "failed"]
    /\ \/ topic' = [topic EXCEPT ![LaneOf[r]] = Append(@, r)]
       \/ /\ client'[r] # "accepted"
          /\ UNCHANGED topic
    /\ UNCHANGED <<position, committed, pc, outcome, lockedBy, bookedBy,
                   booked, answer, failures>>
------------------------------------------------------------------------------
(* The consumer.                                                           *)

\* The request a lane is at.
Current(l) == topic[l][position[l] + 1]

Goto(l, phase) == pc' = [pc EXCEPT ![l] = phase]

\* handleMessage returns, normally or after logging an error: the message
\* counts as handled.
Finish(l) ==
    /\ Goto(l, "idle")
    /\ position' = [position EXCEPT ![l] = @ + 1]
    /\ outcome' = [outcome EXCEPT ![l] = Null]

\* eachMessage gets the next message of the lane.
TakeMessage(l) ==
    /\ pc[l] = "idle"
    /\ position[l] < Len(topic[l])
    /\ Goto(l, "lookup")
    /\ UNCHANGED <<client, sends, topic, position, committed, outcome, lockedBy,
                   bookedBy, booked, answer, failures>>

\* existingConfirmationCode.  (Mutant: the key is not looked up.)
ProcessedMutant(r) == FALSE
Processed(r) == answer[r] # Null

\* The key of the request is read; a request that has an answer is skipped, and
\* so is one whose key cannot be read.
LookUpAnswer(l) ==
    /\ pc[l] = "lookup"
    /\ \/ /\ Processed(Current(l))
          /\ Finish(l)
          /\ UNCHANGED failures
       \/ /\ ~Processed(Current(l))
          /\ Goto(l, "lock")
          /\ UNCHANGED <<position, outcome, failures>>
       \/ /\ Fail("redis")
          /\ Finish(l)
    /\ UNCHANGED <<client, sends, topic, committed, lockedBy, bookedBy, booked,
                   answer>>

\* createBooking throws: the outer code is in its catch block.
Throw(l, error) ==
    /\ Goto(l, "storeError")
    /\ outcome' = [outcome EXCEPT ![l] = error]

\* The keys of the seats in T now hold tokens of lane l.
Locked(l, T) == [s \in Seats |-> IF s \in T THEN l ELSE lockedBy[s]]

\* createBooking locks all the seats, or throws that somebody processes them.
\* If Redis throws, the keys taken so far stay.
LockSeats(l) ==
    /\ pc[l] = "lock"
    /\ LET S == SeatsOf[Current(l)]
           free == {s \in S : lockedBy[s] = Null}
       IN  \/ /\ free = S
              /\ lockedBy' = Locked(l, S)
              /\ Goto(l, "work")
              /\ UNCHANGED <<outcome, failures>>
           \/ /\ free # S
              /\ Throw(l, "beingProcessed")
              /\ UNCHANGED <<lockedBy, failures>>
           \/ /\ Fail("redis")
              /\ Throw(l, "bookingError")
              /\ \E T \in SUBSET free : lockedBy' = Locked(l, T)
    /\ UNCHANGED <<client, sends, topic, position, committed, bookedBy, booked,
                   answer>>

\* Lane l is in createBooking and has locked seat s.
Holds(l, s) == lockedBy[s] = l /\ pc[l] = "work" /\ s \in SeatsOf[Current(l)]

\* The locks after the finally block of createBooking.
Unlocked(l) == [s \in Seats |-> IF Holds(l, s) THEN Null ELSE lockedBy[s]]

\* The bookings of r are stored.  (Mutant: one by one, until one fails.)
StoreBookingsMutant(r) ==
    /\ \E S \in SUBSET SeatsOf[r] :
          bookedBy' = [s \in Seats |-> IF s \in S THEN r ELSE bookedBy[s]]
    /\ booked' = booked \cup {r}
StoreBookings(r) ==
    /\ bookedBy' = [s \in Seats |-> IF s \in SeatsOf[r] THEN r ELSE bookedBy[s]]
    /\ booked' = booked \cup {r}

\* The transaction of createBooking and its finally block: the seats are free
\* and get booked under a new code, or are taken, or something else is wrong
\* with them.  The database may throw at any time, even after the commit.  Redis
\* may throw in the finally block, which hides the result of the transaction.
CreateBookings(l) ==
    /\ pc[l] = "work"
    /\ LET r == Current(l)
           taken == \E s \in SeatsOf[r] : bookedBy[s] # Null
       IN  \/ /\ ~taken
              /\ StoreBookings(r)
              /\ \/ /\ Goto(l, "storeCode")
                    /\ \E code \in Codes : outcome' = [outcome EXCEPT ![l] = code]
                    /\ lockedBy' = Unlocked(l)
                    /\ UNCHANGED failures
                 \/ /\ Fail("db") /\ Throw(l, "bookingError")
                    /\ lockedBy' = Unlocked(l)
                 \/ /\ Fail("redis") /\ Throw(l, "bookingError")
                    /\ UNCHANGED lockedBy
           \/ /\ \/ /\ \/ taken /\ Throw(l, "alreadyBooked")
                       \/ Throw(l, "bookingError")
                    /\ lockedBy' = Unlocked(l)
                    /\ UNCHANGED failures
                 \/ /\ Fail("redis") /\ Throw(l, "bookingError")
                    /\ UNCHANGED lockedBy
              /\ UNCHANGED <<bookedBy, booked>>
    /\ UNCHANGED <<client, sends, topic, position, committed, answer>>

\* SET writes the outcome of lane l under the id of its request.
SetAnswer(l) == answer' = [answer EXCEPT ![Current(l)] = outcome[l]]

\* The code is stored under the request id.  If Redis throws, the catch block
\* treats the booking as failed, also when the command had been executed and
\* only its reply got lost.
StoreCode(l) ==
    /\ pc[l] = "storeCode"
    /\ \/ SetAnswer(l) /\ Finish(l) /\ UNCHANGED failures
       \/ /\ Fail("redis")
          /\ Throw(l, "bookingError")
          /\ SetAnswer(l) \/ UNCHANGED answer
          /\ UNCHANGED position
    /\ UNCHANGED <<client, sends, topic, committed, lockedBy, bookedBy, booked>>

\* The error is stored under the request id, whatever is there, and rethrown, to
\* be logged by the outer catch block.
StoreError(l) ==
    /\ pc[l] = "storeError"
    /\ \/ SetAnswer(l) /\ UNCHANGED failures
       \/ Fail("redis") /\ (SetAnswer(l) \/ UNCHANGED answer)
    /\ Finish(l)
    /\ UNCHANGED <<client, sends, topic, committed, lockedBy, bookedBy, booked>>

\* What autoCommit may commit: the messages handled.  (Mutant: the one being
\* handled is committed as well.)
CommittableMutant(l) == IF pc[l] = "idle" THEN position[l] ELSE position[l] + 1
Committable(l) == position[l]

AutoCommit(l) ==
    /\ committed[l] < Committable(l)
    /\ committed' = [committed EXCEPT ![l] = Committable(l)]
    /\ UNCHANGED <<client, sends, topic, position, pc, outcome, lockedBy,
                   bookedBy, booked, answer, failures>>

\* The member that reads lane l dies; another one, or the same after a restart,
\* reads again from the committed offset.  Keys of locks stay in Redis.
Crash(l) ==
    /\ Fail("crash")
    /\ Goto(l, "idle")
    /\ outcome' = [outcome EXCEPT ![l] = Null]
    /\ position' = [position EXCEPT ![l] = committed[l]]
    /\ UNCHANGED <<client, sends, topic, committed, lockedBy, bookedBy, booked,
                   answer>>
------------------------------------------------------------------------------
(* Time.                                                                   *)

\* The key of a lock lapses after its owner has lost it.
LapseLock(s) ==
    /\ lockedBy[s] # Null
    /\ ~Holds(lockedBy[s], s)
    /\ lockedBy' = [lockedBy EXCEPT ![s] = Null]
    /\ UNCHANGED <<client, sends, laneVars, bookedBy, booked, answer, failures>>

\* The bookings of a request expire or are cancelled.
EndBooking(r) ==
    /\ \E s \in Seats : bookedBy[s] = r
    /\ bookedBy' = [s \in Seats |-> IF bookedBy[s] = r THEN Null ELSE bookedBy[s]]
    /\ UNCHANGED <<client, sends, laneVars, lockedBy, booked, answer, failures>>
------------------------------------------------------------------------------
LaneStep(l) ==
    \/ TakeMessage(l) \/ LookUpAnswer(l) \/ LockSeats(l) \/ CreateBookings(l)
    \/ StoreCode(l) \/ StoreError(l) \/ AutoCommit(l)

Next ==
    \/ \E r \in Requests : Post(r) \/ Send(r) \/ EndBooking(r)
    \/ \E l \in Lanes : LaneStep(l) \/ Crash(l)
    \/ \E s \in Seats : LapseLock(s)

Spec == Init /\ [][Next]_vars

\* A call of the producer returns, the consumers are polled, keys lapse.
Fairness ==
    /\ \A r \in Requests : WF_vars(Send(r))
    /\ \A l \in Lanes : WF_vars(LaneStep(l))
    /\ \A s \in Seats : WF_vars(LapseLock(s))

FairSpec == Spec /\ Fairness
------------------------------------------------------------------------------
\* What getBookingByRequestId makes of the value of the key: an error object,
\* a string that is not JSON, or JSON without a code.
Reported(value) ==
    CASE value = Null          -> "stillProcessed"
      [] value \in Errors      -> value
      [] value = "plainCode"   -> "confirmationCode"
      [] value = "numericCode" -> "unknown"

\* Once the key of a request tells of a booking, neither a copy of the message
\* nor its redelivery turns good news into bad.  One call can: the one that
\* stored the code itself, if Redis had executed its SET but threw, overwrites
\* it in its catch block.
AnswerStands ==
    [][\A r \in Requests : answer[r] \in Codes /\ answer'[r] # answer[r] =>
          /\ answer'[r] = "bookingError"
          /\ pc[LaneOf[r]] = "storeError" /\ Current(LaneOf[r]) = r
          /\ failures["redis"] > 0]_vars

\* An offset is committed only when every request before it has its answer, so
\* that what the next member skips after a crash was not lost.  Only a failure
\* of Redis makes handleMessage give up a request without an answer.
AnsweredBeforeCommit ==
    failures["redis"] = 0 =>
        \A l \in Lanes : \A i \in 1..committed[l] : answer[topic[l][i]] # Null

\* As long as nothing fails, a request that is answered with an error has no
\* booking of its own, however often its message was sent.
ErrorMeansNotBooked ==
    (\A k \in FailureKinds : failures[k] = 0) =>
        \A r \in Requests : answer[r] \in Errors => r \notin booked

\* A request the API accepted does not get lost on the way: whatever crashes and
\* is sent or delivered again, once its lane has no message left to handle, the
\* request has its answer.
NoRequestLost ==
    failures["redis"] = 0 =>
        \A r \in Requests :
            /\ client[r] = "accepted"
            /\ position[LaneOf[r]] = Len(topic[LaneOf[r]])
            => answer[r] # Null

\* The seats that requests ask for and have, as their customers see them.
askedSeats    == [r \in Requests |-> IF client[r] = "new" THEN {} ELSE SeatsOf[r]]
bookedSeats   == [r \in Requests |-> IF r \in booked THEN SeatsOf[r] ELSE {}]
reservedSeats == [r \in Requests |-> {s \in Seats : bookedBy[s] = r}]
soldSeats     == [r \in Requests |-> {}]

Promise == INSTANCE SeatReservations
    WITH Holders <- Requests, Renewable <- Requests, asked <- askedSeats,
         granted <- bookedSeats, reserved <- reservedSeats, sold <- soldSeats

\* However often a request is sent, delivered and handled, it gets all its seats
\* at once, takes none from another request, and may book them again after its
\* booking ended.
ImplementsReservations == Promise!Spec

\* Every request the API accepted is answered, unless Redis fails.
EveryRequestAnswered ==
    \A r \in Requests :
        client[r] = "accepted" ~> answer[r] # Null \/ failures["redis"] > 0

\* README, step 6: a request that has been processed is answered with its
\* confirmation code.
CodeIsReported ==
    \A r \in Requests : answer[r] \in Codes => Reported(answer[r]) = "confirmationCode"

\* README, step 5.3: the answer "already booked" is for who tries to book seats
\* that somebody else booked before.
RefusedForOthersOnly ==
    \A r \in Requests : answer[r] = "alreadyBooked" => r \notin booked
==============================================================================
