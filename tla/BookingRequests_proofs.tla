------------------------ MODULE BookingRequests_proofs -------------------------
(***************************************************************************)
(* Theorems about the requests on their way through Kafka, for any number  *)
(* of requests, seats, lanes, attempts and failures.                       *)
(***************************************************************************)
EXTENDS BookingRequests, TLAPS

\* A request that is not sent has an attempt left.
SendsLeft == \A r \in Requests : client[r] = "sending" => sends[r] < MaxSends

\* Before a request is posted nothing was sent.
NothingSent == \A r \in Requests : client[r] = "new" => sends[r] = 0

\* Positions are numbers, and a lane at work has a message to work on.
LanesFit ==
    /\ position \in [Lanes -> Nat]
    /\ committed \in [Lanes -> Nat]
    /\ \A l \in Lanes : pc[l] # "idle" => position[l] < Len(topic[l])

\* What is about to be stored is what the phase says.
OutcomeFits ==
    \A l \in Lanes :
        /\ pc[l] = "storeCode" => outcome[l] \in Codes
        /\ pc[l] = "storeError" => outcome[l] \in Errors

\* All copies of a request are in one lane.
KeyedByLane ==
    \A l \in Lanes : \A i \in 1..Len(topic[l]) : LaneOf[topic[l][i]] = l

\* Lane l stored a code, but was told that Redis threw.
LostReply(l) ==
    /\ answer[Current(l)] \in Codes
    /\ outcome[l] = "bookingError"
    /\ failures["redis"] # 0

\* From the look-up to the answer, the request of a lane has no answer, save the
\* code that the lane itself has stored without knowing it.
WorkUnanswered ==
    \A l \in Lanes :
        /\ pc[l] \in {"lock", "work", "storeCode"} => answer[Current(l)] = Null
        /\ pc[l] = "storeError" => answer[Current(l)] = Null \/ LostReply(l)

\* Unless Redis fails, what was handled is answered.
HandledIsAnswered ==
    failures["redis"] = 0 =>
        \A l \in Lanes : \A i \in 1..position[l] : answer[topic[l][i]] # Null

NothingFailed == \A k \in FailureKinds : failures[k] = 0

\* If nothing fails, a request with bookings has its code or is about to get it,
\* and is not handled again.
BookedGetsCode ==
    NothingFailed =>
        /\ \A l \in Lanes : pc[l] \in {"lock", "work", "storeError"} => Current(l) \notin booked
        /\ \A r \in booked :
              \/ answer[r] \in Codes
              \/ \E l \in Lanes : pc[l] = "storeCode" /\ Current(l) = r

IInv ==
    /\ TypeOK
    /\ SendsLeft
    /\ NothingSent
    /\ LanesFit
    /\ OutcomeFits
    /\ KeyedByLane
    /\ WorkUnanswered
    /\ HandledIsAnswered
    /\ BookedGetsCode

USE DEF laneVars

------------------------------------------------------------------------------
\* Null is neither a code nor an error, and no code is an error.
LEMMA OutcomesDiffer == Codes \cap Errors = {}
BY DEF Codes, Errors

(* No request has been posted yet: every part of the invariant is empty.    *)
LEMMA InitInv == ASSUME Init PROVE IInv
<1> USE RequestsAssumption DEF Init
<1>1. TypeOK
      BY DEF TypeOK, Phases, FailureKinds
<1>2. QED
      BY <1>1 DEF IInv, SendsLeft, NothingSent, LanesFit, OutcomeFits, KeyedByLane,
                  WorkUnanswered, HandledIsAnswered, BookedGetsCode

\* The request of a lane at work is a request of that lane.
LEMMA CurrentInLane ==
    ASSUME IInv, NEW l \in Lanes, pc[l] # "idle"
    PROVE  /\ Current(l) \in Requests /\ LaneOf[Current(l)] = l
           /\ position[l] + 1 \in 1..Len(topic[l])
BY DEF IInv, TypeOK, LanesFit, KeyedByLane, Current

\* A failure counts.
LEMMA FailCounts ==
    ASSUME IInv, NEW k \in FailureKinds, Fail(k)
    PROVE  /\ failures' \in [FailureKinds -> Nat]
           /\ failures'[k] # 0
           /\ \A j \in FailureKinds : failures'[j] = 0 => failures[j] = 0
BY DEF IInv, TypeOK, Fail

\* Steps that leave the lanes, the answers and the failures alone.
LEMMA ClientStepKeeps ==
    ASSUME IInv, NEW r \in Requests, NEW s \in Seats, Post(r) \/ EndBooking(r) \/ LapseLock(s)
    PROVE  IInv'
<1>1. UNCHANGED <<sends, laneVars, booked, answer, failures>>
      BY DEF Post, EndBooking, LapseLock
<1>2. TypeOK'
  <2>1. client' \in [Requests -> {"new", "sending", "accepted", "failed"}]
        BY DEF Post, EndBooking, LapseLock, IInv, TypeOK
  <2>2. lockedBy' \in [Seats -> Lanes \cup {Null}]
        BY DEF Post, EndBooking, LapseLock, IInv, TypeOK
  <2>3. bookedBy' \in [Seats -> Requests \cup {Null}]
        BY DEF Post, EndBooking, LapseLock, IInv, TypeOK
  <2>4. QED  BY <1>1, <2>1, <2>2, <2>3 DEF IInv, TypeOK
<1>3. SendsLeft' /\ NothingSent'
      BY RequestsAssumption DEF Post, EndBooking, LapseLock, IInv, TypeOK, SendsLeft, NothingSent
<1>4. QED
      BY <1>1, <1>2, <1>3 DEF IInv, LanesFit, OutcomeFits, KeyedByLane, WorkUnanswered,
             LostReply, Current, HandledIsAnswered, BookedGetsCode, NothingFailed

\* What Append does to a lane.
LEMMA AppendFacts ==
    ASSUME NEW q \in Seq(Requests), NEW r \in Requests
    PROVE  /\ Append(q, r) \in Seq(Requests)
           /\ Len(q) \in Nat /\ Len(Append(q, r)) = Len(q) + 1
           /\ \A i \in 1..Len(q) : Append(q, r)[i] = q[i]
           /\ Append(q, r)[Len(q) + 1] = r
OBVIOUS

\* A message may be appended to its lane; the messages before it stay.
LEMMA SendAppends ==
    ASSUME IInv, NEW r \in Requests, Send(r)
    PROVE  /\ topic' \in [Lanes -> Seq(Requests)]
           /\ \A l \in Lanes : Len(topic'[l]) >= Len(topic[l])
           /\ \A l \in Lanes : \A i \in 1..Len(topic[l]) : topic'[l][i] = topic[l][i]
           /\ \A l \in Lanes : \A i \in 1..Len(topic'[l]) :
                 \/ i \in 1..Len(topic[l]) /\ topic'[l][i] = topic[l][i]
                 \/ l = LaneOf[r] /\ topic'[l][i] = r
<1>1. LaneOf[r] \in Lanes
      BY RequestsAssumption
<1>2. \A l \in Lanes : topic[l] \in Seq(Requests) /\ Len(topic[l]) \in Nat
      BY DEF IInv, TypeOK
<1>3. CASE UNCHANGED topic
      BY <1>2, <1>3 DEF IInv, TypeOK
<1>4. CASE topic' = [topic EXCEPT ![LaneOf[r]] = Append(@, r)]
  <2> DEFINE k == LaneOf[r]
  <2>1. topic'[k] = Append(topic[k], r) /\ \A l \in Lanes \ {k} : topic'[l] = topic[l]
        BY <1>1, <1>4 DEF IInv, TypeOK
  <2>2. topic' \in [Lanes -> Seq(Requests)]
        BY <1>1, <1>2, <1>4, AppendFacts DEF IInv, TypeOK
  <2>3. /\ Len(topic'[k]) = Len(topic[k]) + 1
        /\ \A i \in 1..Len(topic[k]) : topic'[k][i] = topic[k][i]
        /\ topic'[k][Len(topic[k]) + 1] = r
        BY <1>1, <1>2, <2>1, AppendFacts
  <2>4. \A i \in 1..Len(topic'[k]) : i \in 1..Len(topic[k]) \/ i = Len(topic[k]) + 1
        BY <1>1, <1>2, <2>3
  <2>5. Len(topic'[k]) >= Len(topic[k])
        BY <1>1, <1>2, <2>3
  <2>6. \A i \in 1..Len(topic'[k]) :
           \/ i \in 1..Len(topic[k]) /\ topic'[k][i] = topic[k][i]
           \/ topic'[k][i] = r
        BY <2>3, <2>4
  <2> HIDE DEF k
  <2>7. ASSUME NEW l \in Lanes
        PROVE  /\ Len(topic'[l]) >= Len(topic[l])
               /\ \A i \in 1..Len(topic[l]) : topic'[l][i] = topic[l][i]
               /\ \A i \in 1..Len(topic'[l]) :
                     \/ i \in 1..Len(topic[l]) /\ topic'[l][i] = topic[l][i]
                     \/ l = k /\ topic'[l][i] = r
    <3>1. CASE l = k
          BY <2>3, <2>5, <2>6, <3>1
    <3>2. CASE l # k
      <4>1. topic'[l] = topic[l]
            BY <2>1, <3>2
      <4>2. QED  BY <1>2, <4>1
    <3>3. QED  BY <3>1, <3>2
  <2>8. QED  BY <2>2, <2>7 DEF k
<1>5. QED  BY <1>3, <1>4 DEF Send

\* An attempt to send keeps the invariant: what the lanes are at stays.
LEMMA SendKeeps ==
    ASSUME IInv, NEW r \in Requests, Send(r)
    PROVE  IInv'
<1>1. UNCHANGED <<position, committed, pc, outcome, lockedBy, bookedBy, booked, answer, failures>>
      BY DEF Send
<1>3. /\ topic' \in [Lanes -> Seq(Requests)]
      /\ \A l \in Lanes : Len(topic'[l]) >= Len(topic[l])
      /\ \A l \in Lanes : \A i \in 1..Len(topic[l]) : topic'[l][i] = topic[l][i]
      /\ \A l \in Lanes : \A i \in 1..Len(topic'[l]) :
            \/ i \in 1..Len(topic[l]) /\ topic'[l][i] = topic[l][i]
            \/ l = LaneOf[r] /\ topic'[l][i] = r
      BY SendAppends
<1>4. TypeOK'
  <2>1. client' \in [Requests -> {"new", "sending", "accepted", "failed"}]
        BY DEF Send, IInv, TypeOK
  <2>2. sends' \in [Requests -> 0..MaxSends]
    <3>1. sends[r] + 1 \in 0..MaxSends
          BY RequestsAssumption DEF Send, IInv, TypeOK, SendsLeft
    <3>2. QED  BY <3>1 DEF Send, IInv, TypeOK
  <2>3. QED
        BY <1>1, <1>3, <2>1, <2>2 DEF IInv, TypeOK, LanesFit
<1>5. LanesFit'
      BY <1>1, <1>3 DEF IInv, TypeOK, LanesFit
<1>6. \A l \in Lanes : pc[l] # "idle" => Current(l)' = Current(l)
      BY <1>1, <1>3, CurrentInLane DEF Current
<1>7. KeyedByLane'
      BY <1>3 DEF IInv, KeyedByLane
<1>8. OutcomeFits' /\ WorkUnanswered' /\ BookedGetsCode'
      BY <1>1, <1>6 DEF IInv, OutcomeFits, WorkUnanswered, LostReply, BookedGetsCode,
                        NothingFailed
<1>9. HandledIsAnswered'
  <2>1. SUFFICES ASSUME failures["redis"] = 0, NEW l \in Lanes, NEW i \in 1..position[l]
                 PROVE  answer[topic'[l][i]] # Null
        BY <1>1 DEF HandledIsAnswered
  <2>2. i \in 1..Len(topic[l])
        BY DEF IInv, TypeOK, LanesFit
  <2>3. QED  BY <1>3, <2>1, <2>2 DEF IInv, HandledIsAnswered
<1>10. SendsLeft' /\ NothingSent'
      BY RequestsAssumption DEF Send, IInv, TypeOK, SendsLeft, NothingSent
<1>11. QED  BY <1>4, <1>5, <1>7, <1>8, <1>9, <1>10 DEF IInv
------------------------------------------------------------------------------
(* A lane.                                                                 *)

\* The lanes after lane l has gone to another phase.
LEMMA GotoFits ==
    ASSUME IInv, NEW l \in Lanes, NEW phase \in Phases, Goto(l, phase),
           phase # "idle" => position[l] < Len(topic[l]),
           UNCHANGED <<topic, position, committed>>
    PROVE  /\ pc' \in [Lanes -> Phases] /\ pc'[l] = phase
           /\ \A k \in Lanes \ {l} : pc'[k] = pc[k]
           /\ LanesFit'
           /\ \A k \in Lanes : Current(k)' = Current(k)
BY DEF IInv, TypeOK, LanesFit, Goto, Current

\* The lanes after lane l has finished a message.
LEMMA FinishFits ==
    ASSUME IInv, NEW l \in Lanes, pc[l] # "idle", Finish(l), UNCHANGED <<topic, committed>>
    PROVE  /\ pc' \in [Lanes -> Phases] /\ pc'[l] = "idle"
           /\ \A k \in Lanes \ {l} : /\ pc'[k] = pc[k] /\ Current(k)' = Current(k)
                                     /\ outcome'[k] = outcome[k]
           /\ position' = [position EXCEPT ![l] = position[l] + 1]
           /\ LanesFit'
           /\ \A k \in Lanes : 0 <= committed'[k] /\ committed'[k] <= position'[k]
                               /\ position'[k] <= Len(topic'[k])
           /\ outcome' \in [Lanes -> Codes \cup Errors \cup {Null}]
           /\ OutcomeFits'
<1>1. /\ pc' = [pc EXCEPT ![l] = "idle"]
      /\ position' = [position EXCEPT ![l] = position[l] + 1]
      /\ outcome' = [outcome EXCEPT ![l] = Null]
      BY DEF Finish, Goto
<1>2. /\ pc' \in [Lanes -> Phases] /\ pc'[l] = "idle"
      /\ outcome' \in [Lanes -> Codes \cup Errors \cup {Null}]
      BY <1>1 DEF IInv, TypeOK, Phases
<1>3. position[l] < Len(topic[l]) /\ Len(topic[l]) \in Nat
      BY DEF IInv, TypeOK, LanesFit
<1>4. \A k \in Lanes \ {l} : pc'[k] = pc[k] /\ position'[k] = position[k]
                             /\ outcome'[k] = outcome[k]
      BY <1>1 DEF IInv, TypeOK, LanesFit
<1>5. \A k \in Lanes \ {l} : Current(k)' = Current(k)
      BY <1>4 DEF Current
<1>6. /\ LanesFit'
      /\ \A k \in Lanes : 0 <= committed'[k] /\ committed'[k] <= position'[k]
                          /\ position'[k] <= Len(topic'[k])
      BY <1>1, <1>2, <1>3, <1>4 DEF IInv, TypeOK, LanesFit
<1>7. OutcomeFits'
      BY <1>2, <1>4 DEF IInv, OutcomeFits
<1>8. QED  BY <1>1, <1>2, <1>4, <1>5, <1>6, <1>7

\* What was handled stays answered when lane l finishes a message that has an
\* answer, or Redis has failed.
LEMMA FinishAnswered ==
    ASSUME IInv, NEW l \in Lanes, pc[l] # "idle", Finish(l), UNCHANGED topic,
           failures'["redis"] = 0 =>
             /\ failures["redis"] = 0
             /\ answer'[Current(l)] # Null
             /\ \A r \in Requests : answer[r] # Null => answer'[r] # Null
    PROVE  HandledIsAnswered'
<1>1. SUFFICES ASSUME failures'["redis"] = 0, NEW k \in Lanes, NEW i \in 1..position'[k]
               PROVE  answer'[topic[k][i]] # Null
      BY DEF HandledIsAnswered
<1>2. /\ position' = [position EXCEPT ![l] = position[l] + 1]
      /\ position \in [Lanes -> Nat]
      BY DEF Finish, IInv, LanesFit
<1>3. CASE i \in 1..position[k]
  <2>1. topic[k] \in Seq(Requests) /\ i \in 1..Len(topic[k])
        BY <1>3 DEF IInv, TypeOK, LanesFit
  <2>2. topic[k][i] \in Requests
        BY <2>1
  <2>3. QED  BY <1>1, <1>3, <2>2 DEF IInv, HandledIsAnswered
<1>4. CASE i \notin 1..position[k]
  <2>1. k = l /\ i = position[l] + 1
        BY <1>1, <1>2, <1>4
  <2>2. QED  BY <1>1, <2>1 DEF Current
<1>5. QED  BY <1>3, <1>4

\* What was handled stays answered when no message is finished.
LEMMA StaysAnswered ==
    ASSUME IInv, UNCHANGED <<topic, position>>,
           failures'["redis"] = 0 => failures["redis"] = 0 /\ UNCHANGED answer
    PROVE  HandledIsAnswered'
BY DEF IInv, HandledIsAnswered

(* eachMessage takes the message at the position of its lane.                *)
LEMMA TakeMessageKeeps ==
    ASSUME IInv, NEW l \in Lanes, TakeMessage(l)
    PROVE  IInv'
<1>1. "lookup" \in Phases /\ Goto(l, "lookup") /\ position[l] < Len(topic[l])
      BY DEF Phases, TakeMessage
<1>2. UNCHANGED <<client, sends, topic, position, committed, outcome, lockedBy,
                  bookedBy, booked, answer, failures>>
      BY DEF TakeMessage
<1>3. /\ pc' \in [Lanes -> Phases] /\ pc'[l] = "lookup"
      /\ \A k \in Lanes \ {l} : pc'[k] = pc[k]
      /\ LanesFit'
      /\ \A k \in Lanes : Current(k)' = Current(k)
      BY <1>1, <1>2, GotoFits
<1>4. TypeOK' /\ SendsLeft' /\ NothingSent' /\ KeyedByLane'
      BY <1>2, <1>3 DEF IInv, TypeOK, SendsLeft, NothingSent, KeyedByLane
<1>5. OutcomeFits' /\ WorkUnanswered'
      BY <1>2, <1>3 DEF IInv, OutcomeFits, WorkUnanswered, LostReply
<1>6. HandledIsAnswered'
      BY <1>2, StaysAnswered
<1>7. BookedGetsCode'
  <2>1. pc[l] = "idle"
        BY DEF TakeMessage
  <2>2. QED  BY <1>2, <1>3, <2>1 DEF IInv, BookedGetsCode, NothingFailed
<1>8. QED  BY <1>3, <1>4, <1>5, <1>6, <1>7 DEF IInv

(* The look-up of the answer: a message that is answered already is done.    *)
LEMMA LookUpAnswerKeeps ==
    ASSUME IInv, NEW l \in Lanes, LookUpAnswer(l)
    PROVE  IInv'
<1> DEFINE r == Current(l)
<1>1. /\ pc[l] = "lookup"
      /\ UNCHANGED <<client, sends, topic, committed, lockedBy, bookedBy, booked, answer>>
      BY DEF LookUpAnswer
<1>2. r \in Requests /\ LaneOf[r] = l /\ position[l] < Len(topic[l])
      BY <1>1, CurrentInLane DEF IInv, LanesFit
<1>3. CASE /\ Finish(l)
           /\ \/ Processed(r) /\ UNCHANGED failures
              \/ Fail("redis")
  <2>1. /\ failures' \in [FailureKinds -> Nat]
        /\ \A k \in FailureKinds : failures'[k] = 0 => failures[k] = 0
        /\ failures'["redis"] = 0 => answer[r] # Null
        BY <1>3, FailCounts DEF Processed, IInv, TypeOK, FailureKinds
  <2>2. /\ pc' \in [Lanes -> Phases] /\ pc'[l] = "idle"
        /\ \A k \in Lanes \ {l} : /\ pc'[k] = pc[k] /\ Current(k)' = Current(k)
                                  /\ outcome'[k] = outcome[k]
        /\ LanesFit'
        /\ \A k \in Lanes : 0 <= committed'[k] /\ committed'[k] <= position'[k]
                            /\ position'[k] <= Len(topic'[k])
        /\ outcome' \in [Lanes -> Codes \cup Errors \cup {Null}]
        /\ OutcomeFits'
        BY <1>1, <1>3, FinishFits
  <2>3. TypeOK' /\ SendsLeft' /\ NothingSent' /\ KeyedByLane'
        BY <1>1, <2>1, <2>2 DEF IInv, TypeOK, SendsLeft, NothingSent, KeyedByLane
  <2>4. WorkUnanswered'
        BY <1>1, <2>1, <2>2 DEF IInv, WorkUnanswered, LostReply, FailureKinds
  <2>5. HandledIsAnswered'
        BY <1>1, <1>3, <2>1, FinishAnswered DEF FailureKinds
  <2>6. BookedGetsCode'
        BY <1>1, <2>1, <2>2 DEF IInv, BookedGetsCode, NothingFailed
  <2>7. QED  BY <2>2, <2>3, <2>4, <2>5, <2>6 DEF IInv
<1>4. CASE ~Processed(r) /\ Goto(l, "lock") /\ UNCHANGED <<position, outcome, failures>>
  <2>1. answer[r] = Null /\ "lock" \in Phases
        BY <1>4 DEF Processed, Phases
  <2>2. /\ pc' \in [Lanes -> Phases] /\ pc'[l] = "lock"
        /\ \A k \in Lanes \ {l} : pc'[k] = pc[k]
        /\ LanesFit'
        /\ \A k \in Lanes : Current(k)' = Current(k)
        BY <1>1, <1>2, <1>4, <2>1, GotoFits
  <2>3. TypeOK' /\ SendsLeft' /\ NothingSent' /\ KeyedByLane'
        BY <1>1, <1>4, <2>2 DEF IInv, TypeOK, SendsLeft, NothingSent, KeyedByLane
  <2>4. OutcomeFits' /\ WorkUnanswered'
        BY <1>1, <1>4, <2>1, <2>2 DEF IInv, OutcomeFits, WorkUnanswered, LostReply
  <2>5. HandledIsAnswered'
        BY <1>1, <1>4, StaysAnswered
  <2>6. BookedGetsCode'
    <3>1. NothingFailed => r \notin booked
      <4>1. SUFFICES ASSUME NothingFailed, r \in booked PROVE FALSE
            OBVIOUS
      <4>2. answer[r] \notin Codes
            BY <2>1, RequestsAssumption
      <4>3. PICK k \in Lanes : pc[k] = "storeCode" /\ Current(k) = r
            BY <4>1, <4>2 DEF IInv, BookedGetsCode
      <4>4. k = l
            BY <1>2, <4>3, CurrentInLane
      <4>5. QED  BY <1>1, <4>3, <4>4
    <3>2. QED  BY <1>1, <1>4, <2>2, <3>1 DEF IInv, BookedGetsCode, NothingFailed
  <2>7. QED  BY <2>2, <2>3, <2>4, <2>5, <2>6 DEF IInv
<1>5. QED  BY <1>3, <1>4 DEF LookUpAnswer

\* createBooking goes on, or is about to store what came of it, or has stored the
\* code but not been told.  As long as nothing fails, bookings are stored on the
\* way to the code only.
LEMMA WorkStepKeeps ==
    ASSUME IInv, NEW l \in Lanes, NEW phase \in {"work", "storeCode", "storeError"},
           pc[l] \in {"lock", "work", "storeCode"}, Goto(l, phase),
           UNCHANGED <<client, sends, topic, position, committed>>,
           \/ UNCHANGED answer
           \/ /\ phase = "storeError" /\ outcome'[l] = "bookingError"
              /\ failures'["redis"] # 0
              /\ outcome[l] \in Codes
              /\ answer' = [answer EXCEPT ![Current(l)] = outcome[l]],
           outcome' \in [Lanes -> Codes \cup Errors \cup {Null}],
           \A k \in Lanes \ {l} : outcome'[k] = outcome[k],
           phase = "storeCode" => outcome'[l] \in Codes,
           phase = "storeError" => outcome'[l] \in Errors,
           failures' \in [FailureKinds -> Nat],
           \A k \in FailureKinds : failures'[k] = 0 => failures[k] = 0,
           lockedBy' \in [Seats -> Lanes \cup {Null}],
           bookedBy' \in [Seats -> Requests \cup {Null}],
           booked' = booked \/ booked' = booked \cup {Current(l)},
           NothingFailed' /\ phase # "storeCode" => booked' = booked /\ pc[l] # "storeCode"
    PROVE  IInv'
<1> DEFINE r == Current(l)
<1>1. r \in Requests /\ LaneOf[r] = l /\ position[l] < Len(topic[l]) /\ phase \in Phases
      BY CurrentInLane DEF IInv, LanesFit, Phases
<1>2. /\ pc' \in [Lanes -> Phases] /\ pc'[l] = phase
      /\ \A k \in Lanes \ {l} : pc'[k] = pc[k]
      /\ LanesFit'
      /\ \A k \in Lanes : Current(k)' = Current(k)
      BY <1>1, GotoFits
<1>3. TypeOK'
  <2>1. booked' \subseteq Requests
        BY <1>1 DEF IInv, TypeOK
  <2>2. answer' \in [Requests -> Codes \cup Errors \cup {Null}]
        BY <1>1 DEF IInv, TypeOK
  <2>3. QED  BY <1>2, <2>1, <2>2 DEF IInv, TypeOK
<1>4. SendsLeft' /\ NothingSent' /\ KeyedByLane' /\ OutcomeFits'
      BY <1>2 DEF IInv, SendsLeft, NothingSent, KeyedByLane, OutcomeFits
<1>5. WorkUnanswered'
  <2>1. \A k \in Lanes \ {l} : pc[k] # "idle" => Current(k) \in Requests \ {r}
        BY <1>1, CurrentInLane
  <2>2. ASSUME NEW k \in Lanes \ {l}, pc[k] # "idle"
        PROVE  answer'[Current(k)] = answer[Current(k)]
        BY <2>1, <2>2 DEF IInv, TypeOK
  <2>3. answer[r] = Null /\ (answer'[r] = Null \/ LostReply(l)')
        BY <1>1, <1>2 DEF IInv, TypeOK, WorkUnanswered, LostReply
  <2>4. phase # "storeError" => answer'[r] = Null
        BY <2>3
  <2>5. \A k \in Lanes \ {l} : pc[k] # "idle" /\ LostReply(k) => LostReply(k)'
        BY <1>2, <2>2 DEF LostReply, FailureKinds
  <2>6. QED  BY <1>2, <2>2, <2>3, <2>4, <2>5 DEF IInv, WorkUnanswered
<1>6. HandledIsAnswered'
      BY StaysAnswered DEF FailureKinds
<1>7. BookedGetsCode'
  <2>1. SUFFICES ASSUME NothingFailed'
                 PROVE  /\ \A k \in Lanes : pc'[k] \in {"lock", "work", "storeError"}
                                              => Current(k)' \notin booked'
                        /\ \A q \in booked' :
                              \/ answer'[q] \in Codes
                              \/ \E k \in Lanes : pc'[k] = "storeCode" /\ Current(k)' = q
        BY DEF BookedGetsCode
  <2>2. NothingFailed /\ UNCHANGED answer
        BY <2>1 DEF NothingFailed, FailureKinds
  <2>3. phase # "storeCode" => booked' = booked /\ r \notin booked
        BY <2>1, <2>2 DEF IInv, BookedGetsCode
  <2>4. \A k \in Lanes \ {l} : pc[k] # "idle" => Current(k) # r
        BY <1>1, CurrentInLane
  <2>5. ASSUME NEW k \in Lanes, pc'[k] \in {"lock", "work", "storeError"}
        PROVE  Current(k)' \notin booked'
    <3>1. CASE k = l
          BY <1>2, <2>3, <2>5, <3>1
    <3>2. CASE k # l
          BY <1>2, <2>2, <2>4, <2>5, <3>2 DEF IInv, BookedGetsCode
    <3>3. QED  BY <3>1, <3>2
  <2>6. ASSUME NEW q \in booked', answer'[q] \notin Codes
        PROVE  \E k \in Lanes : pc'[k] = "storeCode" /\ Current(k)' = q
    <3>1. CASE q = r
      <4>1. CASE phase = "storeCode"
            BY <1>2, <3>1, <4>1
      <4>2. CASE phase # "storeCode"
            BY <2>3, <2>6, <3>1, <4>2
      <4>3. QED  BY <4>1, <4>2
    <3>2. CASE q # r
      <4>1. PICK k \in Lanes : pc[k] = "storeCode" /\ Current(k) = q
            BY <2>2, <2>6, <3>2 DEF IInv, BookedGetsCode
      <4>2. QED  BY <1>2, <3>2, <4>1
    <3>3. QED  BY <3>1, <3>2
  <2>7. QED  BY <2>5, <2>6
<1>8. QED  BY <1>2, <1>3, <1>4, <1>5, <1>6, <1>7 DEF IInv

\* The keys of the seats, with some of them taken and with those of l given back.
LEMMA KeysTyped ==
    ASSUME IInv, NEW l \in Lanes
    PROVE  /\ \A T \in SUBSET Seats : Locked(l, T) \in [Seats -> Lanes \cup {Null}]
           /\ Unlocked(l) \in [Seats -> Lanes \cup {Null}]
BY DEF IInv, TypeOK, Locked, Unlocked

\* createBooking throws.
LEMMA ThrowFits ==
    ASSUME IInv, NEW l \in Lanes, NEW error \in Errors, Throw(l, error)
    PROVE  /\ Goto(l, "storeError")
           /\ outcome' \in [Lanes -> Codes \cup Errors \cup {Null}]
           /\ outcome'[l] = error /\ outcome'[l] \in Errors
           /\ \A k \in Lanes \ {l} : outcome'[k] = outcome[k]
BY DEF IInv, TypeOK, Throw

(* createBooking gets its locks or refuses.                                  *)
LEMMA LockSeatsKeeps ==
    ASSUME IInv, NEW l \in Lanes, LockSeats(l)
    PROVE  IInv'
<1>1. /\ pc[l] = "lock"
      /\ UNCHANGED <<client, sends, topic, position, committed, bookedBy, booked, answer>>
      BY DEF LockSeats
<1>2. /\ "beingProcessed" \in Errors /\ "bookingError" \in Errors
      /\ "redis" \in FailureKinds
      BY DEF Errors, FailureKinds
<1>3. SeatsOf[Current(l)] \subseteq Seats
      BY <1>1, CurrentInLane, RequestsAssumption
<1>4. /\ failures' \in [FailureKinds -> Nat]
      /\ \A k \in FailureKinds : failures'[k] = 0 => failures[k] = 0
  <2>1. UNCHANGED failures \/ Fail("redis")
        BY DEF LockSeats
  <2>2. QED  BY <1>2, <2>1, FailCounts DEF IInv, TypeOK
<1>5. lockedBy' \in [Seats -> Lanes \cup {Null}]
  <2>1. \/ UNCHANGED lockedBy
        \/ \E T \in SUBSET Seats : lockedBy' = Locked(l, T)
        BY <1>3 DEF LockSeats
  <2>2. QED  BY <2>1, KeysTyped DEF IInv, TypeOK
<1>6. CASE Goto(l, "work") /\ UNCHANGED outcome
  <2>1. outcome \in [Lanes -> Codes \cup Errors \cup {Null}]
        BY DEF IInv, TypeOK
  <2>2. bookedBy \in [Seats -> Requests \cup {Null}]
        BY DEF IInv, TypeOK
  <2>3. QED  BY <1>1, <1>4, <1>5, <1>6, <2>1, <2>2, WorkStepKeeps
<1>7. ASSUME NEW error \in Errors, Throw(l, error) PROVE IInv'
  <2>1. /\ Goto(l, "storeError")
        /\ outcome' \in [Lanes -> Codes \cup Errors \cup {Null}]
        /\ outcome'[l] \in Errors
        /\ \A k \in Lanes \ {l} : outcome'[k] = outcome[k]
        BY <1>7, ThrowFits
  <2>2. bookedBy \in [Seats -> Requests \cup {Null}]
        BY DEF IInv, TypeOK
  <2>3. QED  BY <1>1, <1>4, <1>5, <2>1, <2>2, WorkStepKeeps
<1>8. QED  BY <1>2, <1>6, <1>7 DEF LockSeats

(* The transaction of createBooking: the code exists from here on.           *)
LEMMA CreateBookingsKeeps ==
    ASSUME IInv, NEW l \in Lanes, CreateBookings(l)
    PROVE  IInv'
<1> DEFINE r == Current(l)
<1>1. /\ pc[l] = "work" /\ r \in Requests
      /\ UNCHANGED <<client, sends, topic, position, committed, answer>>
      BY CurrentInLane DEF CreateBookings
<1>2. /\ "alreadyBooked" \in Errors /\ "bookingError" \in Errors
      /\ "redis" \in FailureKinds /\ "db" \in FailureKinds
      BY DEF Errors, FailureKinds
<1>3. lockedBy' \in [Seats -> Lanes \cup {Null}]
  <2>1. UNCHANGED lockedBy \/ lockedBy' = Unlocked(l)
        BY DEF CreateBookings
  <2>2. QED  BY <2>1, KeysTyped DEF IInv, TypeOK
<1>4. /\ bookedBy' \in [Seats -> Requests \cup {Null}]
      /\ booked' = booked \/ booked' = booked \cup {r}
  <2>1. UNCHANGED <<bookedBy, booked>> \/ StoreBookings(r)
        BY DEF CreateBookings
  <2>2. QED  BY <1>1, <2>1 DEF IInv, TypeOK, StoreBookings
<1>5. CASE \E c \in Codes : /\ Goto(l, "storeCode")
                            /\ outcome' = [outcome EXCEPT ![l] = c]
                            /\ UNCHANGED failures
  <2>1. /\ outcome' \in [Lanes -> Codes \cup Errors \cup {Null}]
        /\ outcome'[l] \in Codes
        /\ \A k \in Lanes \ {l} : outcome'[k] = outcome[k]
        /\ failures' \in [FailureKinds -> Nat]
        BY <1>5 DEF IInv, TypeOK
  <2>2. QED  BY <1>1, <1>3, <1>4, <1>5, <2>1, WorkStepKeeps
<1>6. ASSUME NEW error \in Errors, Throw(l, error),
             \/ UNCHANGED <<failures, booked>>
             \/ Fail("db") \/ Fail("redis")
      PROVE  IInv'
  <2>1. /\ Goto(l, "storeError")
        /\ outcome' \in [Lanes -> Codes \cup Errors \cup {Null}]
        /\ outcome'[l] \in Errors
        /\ \A k \in Lanes \ {l} : outcome'[k] = outcome[k]
        BY <1>6, ThrowFits
  <2>2. /\ failures' \in [FailureKinds -> Nat]
        /\ \A k \in FailureKinds : failures'[k] = 0 => failures[k] = 0
        /\ NothingFailed' => booked' = booked
        BY <1>2, <1>6, FailCounts DEF IInv, TypeOK, NothingFailed
  <2>3. QED  BY <1>1, <1>3, <1>4, <2>1, <2>2, WorkStepKeeps
<1>7. QED  BY <1>2, <1>5, <1>6 DEF CreateBookings

\* A message is finished, and its request gets the outcome as its answer, unless
\* Redis fails.
LEMMA StoreKeeps ==
    ASSUME IInv, NEW l \in Lanes, pc[l] \in {"storeCode", "storeError"}, Finish(l),
           SetAnswer(l) \/ UNCHANGED answer,
           (SetAnswer(l) /\ UNCHANGED failures) \/ Fail("redis"),
           UNCHANGED <<client, sends, topic, committed, lockedBy, bookedBy, booked>>
    PROVE  IInv'
<1> DEFINE r == Current(l)
<1> USE DEF SetAnswer
<1>1. /\ r \in Requests /\ LaneOf[r] = l
      /\ NothingFailed => answer[r] = Null
      BY CurrentInLane DEF IInv, WorkUnanswered, LostReply, NothingFailed, FailureKinds
<1>2. /\ outcome[l] \in Codes \cup Errors
      /\ pc[l] = "storeCode" => outcome[l] \in Codes
      BY DEF IInv, OutcomeFits
<1>3. /\ pc' \in [Lanes -> Phases] /\ pc'[l] = "idle"
      /\ \A k \in Lanes \ {l} : /\ pc'[k] = pc[k] /\ Current(k)' = Current(k)
                                /\ outcome'[k] = outcome[k]
      /\ LanesFit'
      /\ \A k \in Lanes : 0 <= committed'[k] /\ committed'[k] <= position'[k]
                          /\ position'[k] <= Len(topic'[k])
      /\ outcome' \in [Lanes -> Codes \cup Errors \cup {Null}]
      /\ OutcomeFits'
      BY FinishFits
<1>4. /\ failures' \in [FailureKinds -> Nat]
      /\ \A k \in FailureKinds : failures'[k] = 0 => failures[k] = 0
      /\ failures'["redis"] = 0 => answer' = [answer EXCEPT ![r] = outcome[l]]
      BY FailCounts DEF IInv, TypeOK, FailureKinds
<1>5. /\ answer' \in [Requests -> Codes \cup Errors \cup {Null}]
      /\ \A q \in Requests \ {r} : answer'[q] = answer[q]
      BY <1>1, <1>2 DEF IInv, TypeOK
<1>6. failures'["redis"] = 0 => answer'[r] = outcome[l]
      BY <1>1, <1>4 DEF IInv, TypeOK
<1>7. TypeOK' /\ SendsLeft' /\ NothingSent' /\ KeyedByLane'
      BY <1>3, <1>4, <1>5 DEF IInv, TypeOK, SendsLeft, NothingSent, KeyedByLane
<1>8. \A k \in Lanes \ {l} : pc[k] # "idle" => Current(k) \in Requests \ {r}
      BY <1>1, CurrentInLane
<1>9. WorkUnanswered'
  <2>1. \A k \in Lanes \ {l} : pc[k] # "idle" => answer'[Current(k)] = answer[Current(k)]
        BY <1>5, <1>8
  <2>2. \A k \in Lanes \ {l} : pc[k] # "idle" /\ LostReply(k) => LostReply(k)'
        BY <1>3, <1>4, <2>1 DEF LostReply, FailureKinds
  <2>3. QED  BY <1>3, <2>1, <2>2 DEF IInv, WorkUnanswered
<1>10. HandledIsAnswered'
  <2>1. failures'["redis"] = 0 => /\ failures["redis"] = 0
                                  /\ answer'[r] # Null
                                  /\ \A q \in Requests : answer[q] # Null => answer'[q] # Null
        BY <1>1, <1>2, <1>4, <1>5, <1>6, RequestsAssumption DEF FailureKinds
  <2>2. pc[l] # "idle"
        OBVIOUS
  <2>3. QED  BY <2>1, <2>2, FinishAnswered
<1>11. BookedGetsCode'
  <2>1. SUFFICES ASSUME NothingFailed'
                 PROVE  /\ \A k \in Lanes : pc'[k] \in {"lock", "work", "storeError"}
                                              => Current(k)' \notin booked'
                        /\ \A q \in booked' :
                              \/ answer'[q] \in Codes
                              \/ \E k \in Lanes : pc'[k] = "storeCode" /\ Current(k)' = q
        BY DEF BookedGetsCode
  <2>2. NothingFailed /\ answer'[r] = outcome[l]
        BY <1>4, <1>6, <2>1 DEF NothingFailed, FailureKinds
  <2>3. \A k \in Lanes : pc'[k] \in {"lock", "work", "storeError"} => Current(k)' \notin booked'
        BY <1>3, <2>2 DEF IInv, BookedGetsCode
  <2>4. ASSUME NEW q \in booked', answer'[q] \notin Codes
        PROVE  \E k \in Lanes : pc'[k] = "storeCode" /\ Current(k)' = q
    <3>1. q \in Requests
          BY DEF IInv, TypeOK
    <3>2. answer[q] \notin Codes
          BY <1>1, <1>5, <2>2, <2>4, <3>1, RequestsAssumption
    <3>3. PICK k \in Lanes : pc[k] = "storeCode" /\ Current(k) = q
          BY <2>2, <3>2 DEF IInv, BookedGetsCode
    <3>4. k # l
          BY <1>2, <2>2, <2>4, <3>3
    <3>5. QED  BY <1>3, <3>3, <3>4
  <2>5. QED  BY <2>3, <2>4
<1>12. QED  BY <1>3, <1>7, <1>9, <1>10, <1>11 DEF IInv

(* The code is stored as the answer; only then may the offset move.          *)
LEMMA StoreCodeKeeps ==
    ASSUME IInv, NEW l \in Lanes, StoreCode(l)
    PROVE  IInv'
<1>1. CASE Finish(l)
      BY <1>1, StoreKeeps DEF StoreCode
<1>2. CASE /\ Fail("redis") /\ Throw(l, "bookingError")
           /\ SetAnswer(l) \/ UNCHANGED answer
           /\ UNCHANGED position
  <2>1. "bookingError" \in Errors /\ "redis" \in FailureKinds
        BY DEF Errors, FailureKinds
  <2>2. /\ pc[l] = "storeCode"
        /\ UNCHANGED <<client, sends, topic, committed, lockedBy, bookedBy, booked>>
        BY DEF StoreCode
  <2>3. /\ Goto(l, "storeError")
        /\ outcome' \in [Lanes -> Codes \cup Errors \cup {Null}]
        /\ outcome'[l] = "bookingError"
        /\ \A k \in Lanes \ {l} : outcome'[k] = outcome[k]
        BY <1>2, <2>1, ThrowFits
  <2>4. /\ failures' \in [FailureKinds -> Nat]
        /\ \A k \in FailureKinds : failures'[k] = 0 => failures[k] = 0
        /\ failures'["redis"] # 0 /\ ~NothingFailed'
        BY <1>2, <2>1, FailCounts DEF NothingFailed
  <2>5. lockedBy \in [Seats -> Lanes \cup {Null}] /\ bookedBy \in [Seats -> Requests \cup {Null}]
        BY DEF IInv, TypeOK
  <2>6. outcome[l] \in Codes
        BY <2>2 DEF IInv, OutcomeFits
  <2>7. \/ UNCHANGED answer
        \/ answer' = [answer EXCEPT ![Current(l)] = outcome[l]]
        BY <1>2 DEF SetAnswer
  <2>8. QED  BY <1>2, <2>1, <2>2, <2>3, <2>4, <2>5, <2>6, <2>7, WorkStepKeeps
<1>3. QED  BY <1>1, <1>2 DEF StoreCode

\* An offset that is committed is the position of its lane.
LEMMA AutoCommitKeeps ==
    ASSUME IInv, NEW l \in Lanes, AutoCommit(l)
    PROVE  IInv'
<1>1. /\ committed' = [committed EXCEPT ![l] = position[l]]
      /\ UNCHANGED <<client, sends, topic, position, pc, outcome, lockedBy,
                     bookedBy, booked, answer, failures>>
      BY DEF AutoCommit, Committable
<1>2. TypeOK' /\ LanesFit'
      BY <1>1 DEF IInv, TypeOK, LanesFit
<1>3. QED
      BY <1>1, <1>2 DEF IInv, SendsLeft, NothingSent, OutcomeFits, KeyedByLane,
             WorkUnanswered, LostReply, Current, HandledIsAnswered, BookedGetsCode,
             NothingFailed

\* After a crash a lane is handled again from its offset.
LEMMA CrashKeeps ==
    ASSUME IInv, NEW l \in Lanes, Crash(l)
    PROVE  IInv'
<1>1. /\ pc' = [pc EXCEPT ![l] = "idle"]
      /\ outcome' = [outcome EXCEPT ![l] = Null]
      /\ position' = [position EXCEPT ![l] = committed[l]]
      /\ UNCHANGED <<client, sends, topic, committed, lockedBy, bookedBy, booked, answer>>
      BY DEF Crash, Goto
<1>2. /\ failures' \in [FailureKinds -> Nat]
      /\ \A k \in FailureKinds : failures'[k] = 0 => failures[k] = 0
      /\ ~NothingFailed'
      BY FailCounts DEF Crash, NothingFailed, FailureKinds
<1>3. \A k \in Lanes : committed[k] \in Nat /\ position[k] \in Nat
                       /\ committed[k] <= position[k] /\ position[k] <= Len(topic[k])
                       /\ Len(topic[k]) \in Nat
      BY DEF IInv, TypeOK, LanesFit
<1>4. /\ \A k \in Lanes \ {l} : /\ pc'[k] = pc[k] /\ position'[k] = position[k]
                                /\ outcome'[k] = outcome[k]
      /\ pc'[l] = "idle" /\ position'[l] = committed[l]
      BY <1>1 DEF IInv, TypeOK, LanesFit
<1>5. TypeOK' /\ LanesFit'
  <2>1. pc' \in [Lanes -> Phases] /\ outcome' \in [Lanes -> Codes \cup Errors \cup {Null}]
        BY <1>1 DEF IInv, TypeOK, Phases
  <2>2. position' \in [Lanes -> Nat]
        BY <1>1, <1>3 DEF IInv, LanesFit
  <2>3. \A k \in Lanes : 0 <= committed[k] /\ committed[k] <= position'[k]
                         /\ position'[k] <= Len(topic[k])
        BY <1>3, <1>4
  <2>4. QED  BY <1>1, <1>2, <1>4, <2>1, <2>2, <2>3 DEF IInv, TypeOK, LanesFit
<1>6. OutcomeFits' /\ SendsLeft' /\ NothingSent' /\ KeyedByLane'
      BY <1>1, <1>4 DEF IInv, OutcomeFits, SendsLeft, NothingSent, KeyedByLane
<1>7. WorkUnanswered'
      BY <1>1, <1>2, <1>4 DEF IInv, WorkUnanswered, LostReply, Current, FailureKinds
<1>8. HandledIsAnswered'
  <2>1. \A k \in Lanes : \A i \in 1..position'[k] : i \in 1..position[k]
        BY <1>3, <1>4
  <2>2. QED  BY <1>1, <1>2, <2>1 DEF IInv, HandledIsAnswered, FailureKinds
<1>9. QED  BY <1>2, <1>5, <1>6, <1>7, <1>8 DEF IInv, BookedGetsCode
------------------------------------------------------------------------------
\* Every step keeps the invariant.
LEMMA StepKeeps == ASSUME IInv, [Next]_vars PROVE IInv'
<1>1. ASSUME NEW r \in Requests, Post(r) \/ Send(r) \/ EndBooking(r) PROVE IInv'
  <2>1. CASE Send(r)
        BY <2>1, SendKeeps
  <2>2. CASE Post(r) \/ EndBooking(r)
    <3>1. PICK s \in Seats : TRUE
          BY RequestsAssumption
    <3>2. QED  BY <2>2, <3>1, ClientStepKeeps
  <2>3. QED  BY <1>1, <2>1, <2>2
<1>2. ASSUME NEW l \in Lanes, LaneStep(l) \/ Crash(l) PROVE IInv'
  <2>1. CASE StoreError(l)
        BY <2>1, StoreKeeps DEF StoreError
  <2>2. QED
        BY <1>2, <2>1, TakeMessageKeeps, LookUpAnswerKeeps, LockSeatsKeeps,
           CreateBookingsKeeps, StoreCodeKeeps, AutoCommitKeeps, CrashKeeps DEF LaneStep
<1>3. ASSUME NEW s \in Seats, LapseLock(s) PROVE IInv'
  <2>1. PICK l \in Lanes : lockedBy[s] = l
        BY <1>3 DEF LapseLock, IInv, TypeOK
  <2>2. /\ lockedBy' = [lockedBy EXCEPT ![s] = Null]
        /\ UNCHANGED <<client, sends, laneVars, bookedBy, booked, answer, failures>>
        BY <1>3 DEF LapseLock
  <2>3. TypeOK' /\ SendsLeft' /\ NothingSent'
        BY <2>2 DEF IInv, TypeOK, SendsLeft, NothingSent
  <2>4. QED
        BY <2>2, <2>3 DEF IInv, LanesFit, OutcomeFits, KeyedByLane, WorkUnanswered,
               LostReply, Current, HandledIsAnswered, BookedGetsCode, NothingFailed
<1>4. CASE UNCHANGED vars
      BY <1>4 DEF vars, IInv, TypeOK, SendsLeft, NothingSent, LanesFit, OutcomeFits,
                  KeyedByLane, WorkUnanswered, LostReply, Current, HandledIsAnswered,
                  BookedGetsCode, NothingFailed
<1>5. QED  BY <1>1, <1>2, <1>3, <1>4 DEF Next

\* The invariant holds in every behaviour.
THEOREM RequestsInvariant == Spec => []IInv
BY InitInv, StepKeeps, PTL DEF Spec

\* Types, and positions that stay inside their lanes.
THEOREM RequestsTypeCorrect == Spec => []TypeOK
<1>1. IInv => TypeOK
      BY DEF IInv
<1>2. QED  BY <1>1, RequestsInvariant, PTL

\* The news of a booking is final, whatever fails and however often the message
\* was sent or is handled again, with one exception: Redis stored the code and
\* threw, and the call that was told so overwrites it.
THEOREM AnswersAreFinal == Spec => AnswerStands
<1> DEFINE Overwritten(r) == /\ answer'[r] = "bookingError"
                             /\ pc[LaneOf[r]] = "storeError" /\ Current(LaneOf[r]) = r
                             /\ failures["redis"] > 0
<1>1. IInv /\ [Next]_vars =>
        [\A r \in Requests : answer[r] \in Codes /\ answer'[r] # answer[r]
                                => Overwritten(r)]_vars
  <2>1. SUFFICES ASSUME IInv, Next, NEW r \in Requests, answer[r] \in Codes,
                        answer'[r] # answer[r]
                 PROVE  Overwritten(r)
        OBVIOUS
  <2>2. PICK l \in Lanes : SetAnswer(l) /\ pc[l] \in {"storeCode", "storeError"}
        BY <2>1 DEF Next, Post, Send, EndBooking, LaneStep, TakeMessage, LookUpAnswer,
               LockSeats, CreateBookings, StoreCode, StoreError, AutoCommit, Crash, LapseLock
  <2>3. Current(l) = r /\ answer'[r] = outcome[l]
        BY <2>1, <2>2 DEF SetAnswer, IInv, TypeOK
  <2>4. pc[l] = "storeError" /\ LostReply(l)
        BY <2>1, <2>2, <2>3, RequestsAssumption DEF IInv, WorkUnanswered
  <2>5. LaneOf[r] = l
        BY <2>1, <2>2, <2>3, <2>4, CurrentInLane
  <2>6. failures["redis"] > 0
        BY <2>1, <2>4 DEF LostReply, IInv, TypeOK, FailureKinds
  <2>7. QED  BY <2>3, <2>4, <2>5, <2>6 DEF LostReply
<1>2. QED  BY <1>1, RequestsInvariant, PTL DEF Spec, AnswerStands

\* No offset passes a request without an answer, unless Redis fails.
THEOREM OffsetsFollowAnswers == Spec => []AnsweredBeforeCommit
<1>1. IInv => AnsweredBeforeCommit
  <2>1. SUFFICES ASSUME IInv, failures["redis"] = 0, NEW l \in Lanes,
                        NEW i \in 1..committed[l]
                 PROVE  answer[topic[l][i]] # Null
        BY DEF AnsweredBeforeCommit
  <2>2. i \in 1..position[l]
        BY <2>1 DEF IInv, TypeOK, LanesFit
  <2>3. QED  BY <2>1, <2>2 DEF IInv, HandledIsAnswered
<1>2. QED  BY <1>1, RequestsInvariant, PTL

\* Without failures an error answer means that the request has no booking.
THEOREM ErrorsAreTrue == Spec => []ErrorMeansNotBooked
<1>1. IInv => ErrorMeansNotBooked
  <2>1. SUFFICES ASSUME IInv, NothingFailed, NEW r \in Requests, answer[r] \in Errors,
                        r \in booked
                 PROVE  FALSE
        BY DEF ErrorMeansNotBooked, NothingFailed
  <2>2. PICK l \in Lanes : pc[l] = "storeCode" /\ Current(l) = r
        BY <2>1, OutcomesDiffer DEF IInv, BookedGetsCode
  <2>3. answer[r] = Null
        BY <2>1, <2>2 DEF IInv, WorkUnanswered
  <2>4. QED  BY <2>1, <2>3, RequestsAssumption
<1>2. QED  BY <1>1, RequestsInvariant, PTL
------------------------------------------------------------------------------
(* No request gets lost.                                                   *)

Sent(r) == \E i \in 1..Len(topic[LaneOf[r]]) : topic[LaneOf[r]][i] = r

\* What the client was told is true: an accepted request is in its lane.  And
\* what is in a lane was posted.
AcceptedIsSent == \A r \in Requests : client[r] = "accepted" => Sent(r)
SentWasPosted  == \A l \in Lanes : \A i \in 1..Len(topic[l]) : client[topic[l][i]] # "new"

RequestsKept == AcceptedIsSent /\ SentWasPosted

\* No other step changes the lanes or what the clients were told.
LEMMA OtherStepsKeep ==
    ASSUME UNCHANGED <<client, topic>>, RequestsKept
    PROVE  RequestsKept'
BY DEF RequestsKept, AcceptedIsSent, Sent, SentWasPosted

LEMMA PostKeepsRequests ==
    ASSUME IInv, RequestsKept, NEW r \in Requests, Post(r)
    PROVE  RequestsKept'
<1>1. /\ UNCHANGED topic
      /\ \A q \in Requests : client[q] # "new" => client'[q] = client[q]
      /\ \A q \in Requests : client'[q] = "accepted" => client[q] = "accepted"
      BY DEF Post, IInv, TypeOK
<1>2. AcceptedIsSent'
      BY <1>1 DEF RequestsKept, AcceptedIsSent, Sent
<1>3. SentWasPosted'
  <2>1. \A l \in Lanes : \A i \in 1..Len(topic[l]) : topic[l][i] \in Requests
        BY DEF IInv, TypeOK
  <2>2. QED  BY <1>1, <2>1 DEF RequestsKept, SentWasPosted
<1>4. QED  BY <1>2, <1>3 DEF RequestsKept

LEMMA SendKeepsRequests ==
    ASSUME IInv, RequestsKept, NEW r \in Requests, Send(r)
    PROVE  RequestsKept'
<1>1. /\ client[r] = "sending" /\ client'[r] # "new"
      /\ \A q \in Requests \ {r} : client'[q] = client[q]
      BY DEF Send, IInv, TypeOK
<1>2. LaneOf[r] \in Lanes /\ topic[LaneOf[r]] \in Seq(Requests)
      BY RequestsAssumption DEF IInv, TypeOK
<1>3. client'[r] = "accepted" => Sent(r)'
  <2>1. SUFFICES ASSUME client'[r] = "accepted"
                 PROVE  \E i \in 1..Len(topic'[LaneOf[r]]) : topic'[LaneOf[r]][i] = r
        BY DEF Sent
  <2>2. topic'[LaneOf[r]] = Append(topic[LaneOf[r]], r)
        BY <1>2, <2>1 DEF Send, IInv, TypeOK
  <2> DEFINE n == Len(topic[LaneOf[r]]) + 1
  <2>3. n \in 1..Len(topic'[LaneOf[r]]) /\ topic'[LaneOf[r]][n] = r
        BY <1>2, <2>2, AppendFacts
  <2>4. QED  BY <2>3
<1>4. ASSUME NEW q \in Requests \ {r}, client'[q] = "accepted"
      PROVE  Sent(q)'
  <2>1. LaneOf[q] \in Lanes
        BY RequestsAssumption
  <2>2. PICK i \in 1..Len(topic[LaneOf[q]]) : topic[LaneOf[q]][i] = q
        BY <1>1, <1>4 DEF RequestsKept, AcceptedIsSent, Sent
  <2>3. topic'[LaneOf[q]][i] = q
        BY <2>1, <2>2, SendAppends
  <2>4. i \in 1..Len(topic'[LaneOf[q]])
        BY <2>1, <2>2, SendAppends DEF IInv, TypeOK
  <2>5. QED  BY <2>3, <2>4 DEF Sent
<1>5. AcceptedIsSent'
      BY <1>3, <1>4 DEF AcceptedIsSent
<1>6. SentWasPosted'
  <2>1. SUFFICES ASSUME NEW l \in Lanes, NEW i \in 1..Len(topic'[l])
                 PROVE  client'[topic'[l][i]] # "new"
        BY DEF SentWasPosted
  <2>2. CASE topic'[l][i] = r
        BY <1>1, <2>2
  <2>3. CASE i \in 1..Len(topic[l]) /\ topic'[l][i] = topic[l][i]
    <3>1. topic[l][i] \in Requests /\ client[topic[l][i]] # "new"
          BY <2>3 DEF IInv, TypeOK, RequestsKept, SentWasPosted
    <3>2. QED  BY <1>1, <2>3, <3>1
  <2>4. QED  BY <2>2, <2>3, SendAppends
<1>7. QED  BY <1>5, <1>6 DEF RequestsKept

\* What the clients are told of their requests stays true.
THEOREM RequestsAreKept == Spec => []RequestsKept
<1>1. Init => RequestsKept
      BY DEF Init, RequestsKept, AcceptedIsSent, SentWasPosted
<1>2. IInv /\ RequestsKept /\ [Next]_vars => RequestsKept'
  <2> SUFFICES ASSUME IInv, RequestsKept, [Next]_vars
               PROVE  RequestsKept'
      OBVIOUS
  <2>1. \/ \E r \in Requests : Post(r) \/ Send(r)
        \/ UNCHANGED <<client, topic>>
        BY DEF Next, EndBooking, LaneStep, TakeMessage, LookUpAnswer, LockSeats,
               CreateBookings, StoreCode, StoreError, AutoCommit, Crash, LapseLock, vars
  <2>2. QED
        BY <2>1, PostKeepsRequests, SendKeepsRequests, OtherStepsKeep
<1>3. QED  BY <1>1, <1>2, RequestsInvariant, PTL DEF Spec

\* A request that the API accepted has its answer once its lane is done, however
\* often it was sent, its consumer crashed or its message was delivered.
THEOREM AcceptedIsAnswered == Spec => []NoRequestLost
<1>1. IInv /\ RequestsKept => NoRequestLost
  <2>1. SUFFICES ASSUME IInv, RequestsKept, failures["redis"] = 0,
                        NEW r \in Requests, client[r] = "accepted",
                        position[LaneOf[r]] = Len(topic[LaneOf[r]])
                 PROVE  answer[r] # Null
        BY DEF NoRequestLost
  <2>2. LaneOf[r] \in Lanes
        BY RequestsAssumption
  <2>3. PICK i \in 1..Len(topic[LaneOf[r]]) : topic[LaneOf[r]][i] = r
        BY <2>1 DEF RequestsKept, AcceptedIsSent, Sent
  <2>4. answer[topic[LaneOf[r]][i]] # Null
        BY <2>1, <2>2, <2>3 DEF IInv, HandledIsAnswered
  <2>5. QED  BY <2>3, <2>4
<1>2. QED  BY <1>1, RequestsInvariant, RequestsAreKept, PTL
------------------------------------------------------------------------------
(* The bookings of requests are reservations.                              *)

\* Bookings are for seats that their request asked for.
BookedAsAsked == \A s \in Seats : bookedBy[s] # Null => s \in SeatsOf[bookedBy[s]]

LEMMA BookedAsAskedKept ==
    ASSUME IInv, BookedAsAsked, [Next]_vars
    PROVE  BookedAsAsked'
<1>1. \/ UNCHANGED bookedBy
      \/ \E r \in Requests : EndBooking(r)
      \/ \E l \in Lanes : CreateBookings(l) /\ StoreBookings(Current(l))
      BY DEF Next, Post, Send, LaneStep, TakeMessage, LookUpAnswer, LockSeats,
             CreateBookings, StoreCode, StoreError, AutoCommit, Crash, LapseLock, vars
<1>2. ASSUME NEW r \in Requests, EndBooking(r) PROVE BookedAsAsked'
      BY <1>2 DEF EndBooking, BookedAsAsked
<1>3. ASSUME NEW r, StoreBookings(r) PROVE BookedAsAsked'
      BY <1>3 DEF StoreBookings, BookedAsAsked
<1>4. QED  BY <1>1, <1>2, <1>3 DEF BookedAsAsked

\* The request of a lane at work was posted.
LEMMA CurrentWasPosted ==
    ASSUME IInv, RequestsKept, NEW l \in Lanes, pc[l] # "idle"
    PROVE  client[Current(l)] # "new"
BY CurrentInLane DEF RequestsKept, SentWasPosted, Current

\* A client has asked for the seats of a request as soon as it was posted.
LEMMA PostImplements ==
    ASSUME IInv, NEW r \in Requests, Post(r)
    PROVE  Promise!Ask(r, SeatsOf[r])
<1>1. client[r] = "new" /\ client'[r] # "new"
      BY DEF Post, IInv, TypeOK
<1>2. \A q \in Requests \ {r} : client'[q] = client[q]
      BY DEF Post, IInv, TypeOK
<1>3. askedSeats[r] = {} /\ askedSeats' = [askedSeats EXCEPT ![r] = SeatsOf[r]]
      BY <1>1, <1>2 DEF askedSeats
<1>4. UNCHANGED <<bookedSeats, reservedSeats, soldSeats>>
      BY DEF Post, bookedSeats, reservedSeats, soldSeats
<1>5. QED  BY <1>3, <1>4 DEF Promise!Ask

\* The transaction of createBooking books all the seats of a request at once,
\* and only if nobody has one of them.
LEMMA CreateImplements ==
    ASSUME IInv, RequestsKept, BookedAsAsked, NEW l \in Lanes, CreateBookings(l),
           StoreBookings(Current(l)),
           \A s \in SeatsOf[Current(l)] : bookedBy[s] = Null
    PROVE  Current(l) \in Requests /\ Promise!Reserve(Current(l))
<1> DEFINE r == Current(l)
<1>1. UNCHANGED client /\ pc[l] = "work"
      BY DEF CreateBookings
<1>2. r \in Requests /\ client[r] # "new"
      BY <1>1, CurrentInLane, CurrentWasPosted
<1>3. SeatsOf[r] \in SUBSET Seats /\ SeatsOf[r] # {} /\ Null \notin Requests
      BY <1>2, RequestsAssumption
<1> HIDE DEF r
<1>4. askedSeats[r] = SeatsOf[r] /\ UNCHANGED askedSeats
      BY <1>1, <1>2 DEF askedSeats
<1>5. ASSUME NEW q \in Requests
      PROVE  askedSeats[r] \cap Promise!Taken(q) = {}
  <2>1. Promise!Taken(q) = {s \in Seats : bookedBy[s] = q}
        BY DEF Promise!Taken, reservedSeats, soldSeats
  <2>2. \A s \in SeatsOf[r] : bookedBy[s] = Null
        BY DEF r
  <2>3. QED  BY <1>3, <1>4, <2>1, <2>2
<1>6. /\ \A s \in Seats : bookedBy'[s] = IF s \in SeatsOf[r] THEN r ELSE bookedBy[s]
      /\ booked' = booked \cup {r}
      BY DEF StoreBookings, r
<1>7. bookedSeats' = [bookedSeats EXCEPT ![r] = SeatsOf[r]]
      BY <1>2, <1>6 DEF bookedSeats
<1>8. reservedSeats' = [reservedSeats EXCEPT ![r] = SeatsOf[r]]
  <2>1. {s \in Seats : bookedBy'[s] = r} = SeatsOf[r]
        BY <1>2, <1>3, <1>6 DEF BookedAsAsked
  <2>2. ASSUME NEW q \in Requests \ {r}
        PROVE  {s \in Seats : bookedBy'[s] = q} = {s \in Seats : bookedBy[s] = q}
    <3>1. \A s \in SeatsOf[r] : bookedBy[s] # q
          BY <1>3 DEF r
    <3>2. QED  BY <1>6, <3>1
  <2>3. QED  BY <1>2, <2>1, <2>2 DEF reservedSeats
<1>9. UNCHANGED soldSeats
      BY DEF soldSeats
<1>10. QED  BY <1>2, <1>3, <1>4, <1>5, <1>7, <1>8, <1>9 DEF Promise!Reserve, r

\* A booking that ends gives back the seats of its request.
LEMMA EndImplements ==
    ASSUME IInv, NEW r \in Requests, EndBooking(r)
    PROVE  Promise!Withdraw(r, Seats)
<1>1. Null \notin Requests
      BY RequestsAssumption
<1>2. \A s \in Seats : bookedBy'[s] = IF bookedBy[s] = r THEN Null ELSE bookedBy[s]
      BY DEF EndBooking
<1>3. ASSUME NEW q \in Requests
      PROVE  {s \in Seats : bookedBy'[s] = q} =
             IF q = r THEN {} ELSE {s \in Seats : bookedBy[s] = q}
      BY <1>1, <1>2
<1>4. reservedSeats' = [reservedSeats EXCEPT ![r] = reservedSeats[r] \ Seats]
      BY <1>3 DEF reservedSeats
<1>5. soldSeats' = [soldSeats EXCEPT ![r] = soldSeats[r] \ Seats]
      BY DEF soldSeats
<1>6. UNCHANGED <<askedSeats, bookedSeats>>
      BY DEF EndBooking, askedSeats, bookedSeats
<1>7. QED  BY <1>4, <1>5, <1>6 DEF Promise!Withdraw

\* No other step is one of the reservations.
LEMMA OtherStepsImplement ==
    ASSUME UNCHANGED <<bookedBy, booked>>,
           \A r \in Requests : client'[r] = "new" <=> client[r] = "new"
    PROVE  UNCHANGED Promise!vars
<1>1. UNCHANGED askedSeats
      BY DEF askedSeats
<1>2. UNCHANGED <<bookedSeats, reservedSeats, soldSeats>>
      BY DEF bookedSeats, reservedSeats, soldSeats
<1>3. QED  BY <1>1, <1>2 DEF Promise!vars

\* The requests keep the promise of SeatReservations, although they are sent,
\* delivered and handled more than once: each gets all its seats in one step,
\* and only while nobody has one of them.
THEOREM RequestsImplementReservations == Spec => ImplementsReservations
<1>1. Init => Promise!Init /\ BookedAsAsked
  <2> SUFFICES ASSUME Init
               PROVE  Promise!Init /\ BookedAsAsked
      OBVIOUS
  <2>1. askedSeats = [r \in Requests |-> {}] /\ bookedSeats = [r \in Requests |-> {}]
        BY DEF Init, askedSeats, bookedSeats
  <2>2. reservedSeats = [r \in Requests |-> {}]
        BY RequestsAssumption DEF Init, reservedSeats
  <2>3. soldSeats = [r \in Requests |-> {}] /\ BookedAsAsked
        BY DEF Init, soldSeats, BookedAsAsked
  <2>4. QED  BY <2>1, <2>2, <2>3 DEF Promise!Init
<1>2. IInv /\ RequestsKept /\ BookedAsAsked /\ [Next]_vars
        => [Promise!Next]_(Promise!vars)
  <2> SUFFICES ASSUME IInv, RequestsKept, BookedAsAsked, [Next]_vars
               PROVE  Promise!Next \/ UNCHANGED Promise!vars
      OBVIOUS
  <2>1. \/ \E r \in Requests : Post(r) \/ Send(r) \/ EndBooking(r)
        \/ \E l \in Lanes : CreateBookings(l)
        \/ UNCHANGED <<client, bookedBy, booked>>
        BY DEF Next, LaneStep, TakeMessage, LookUpAnswer, LockSeats, StoreCode,
               StoreError, AutoCommit, Crash, LapseLock, vars
  <2>2. ASSUME NEW r \in Requests, Post(r) \/ EndBooking(r)
        PROVE  Promise!Next
    <3>1. SeatsOf[r] \in SUBSET Seats /\ Seats \in SUBSET Seats
          BY RequestsAssumption
    <3>2. QED  BY <2>2, <3>1, PostImplements, EndImplements DEF Promise!Next
  <2>3. ASSUME NEW r \in Requests, Send(r)
        PROVE  UNCHANGED Promise!vars
    <3>1. UNCHANGED <<bookedBy, booked>>
          BY <2>3 DEF Send
    <3>2. \A q \in Requests : client'[q] = "new" <=> client[q] = "new"
          BY <2>3 DEF Send, IInv, TypeOK
    <3>3. QED  BY <3>1, <3>2, OtherStepsImplement
  <2>4. ASSUME NEW l \in Lanes, CreateBookings(l)
        PROVE  Promise!Next \/ UNCHANGED Promise!vars
    <3>1. \/ UNCHANGED <<bookedBy, booked>>
          \/ /\ StoreBookings(Current(l))
             /\ \A s \in SeatsOf[Current(l)] : bookedBy[s] = Null
          BY <2>4 DEF CreateBookings
    <3>2. UNCHANGED client
          BY <2>4 DEF CreateBookings
    <3>3. CASE UNCHANGED <<bookedBy, booked>>
          BY <3>2, <3>3, OtherStepsImplement
    <3>4. CASE /\ StoreBookings(Current(l))
               /\ \A s \in SeatsOf[Current(l)] : bookedBy[s] = Null
          BY <2>4, <3>4, CreateImplements DEF Promise!Next
    <3>5. QED  BY <3>1, <3>3, <3>4
  <2>5. QED  BY <2>1, <2>2, <2>3, <2>4, OtherStepsImplement
<1>3. IInv /\ BookedAsAsked /\ [Next]_vars => BookedAsAsked'
      BY BookedAsAskedKept
<1>4. QED
      BY <1>1, <1>2, <1>3, RequestsInvariant, RequestsAreKept, PTL
      DEF Spec, ImplementsReservations, Promise!Spec
==============================================================================
