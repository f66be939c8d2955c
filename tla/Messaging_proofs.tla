--------------------------- MODULE Messaging_proofs ----------------------------
(***************************************************************************)
(* Theorems about the Kafka producer and consumer of the service, for any  *)
(* number of messages, topics, overlapping loops and retries.              *)
(*                                                                         *)
(* ProducerInv and ConsumerInv are inductive, each under the steps of its  *)
(* own service; the two share nothing but the count of failures.           *)
(***************************************************************************)
EXTENDS Messaging, TLAPS

\* What a call of sendMessage has stored and tried in each of its states.
Progress(m) ==
    /\ sender[m] \in {"idle", "connect"} => copies[m] = 0 /\ retryCount[m] = 0
    /\ sender[m] \in {"send", "refused"} => copies[m] <= retryCount[m]
    /\ sender[m] \in {"wait", "reconnect"} => retryCount[m] < MaxRetries
    /\ sender[m] = "resolved" => copies[m] > 0
    /\ copies[m] <= retryCount[m] + 1

\* The producer disconnects only at the end of the application.
ClosingAtTheEnd == closing => producerClosed

ProducerInv ==
    /\ ProducerTypeOK
    /\ ClosingAtTheEnd
    /\ NeverIdleDisconnected
    /\ \A m \in Messages : Progress(m)

USE DEF connectionVars, messageVars, producerVars, Answers

------------------------------------------------------------------------------
(* The producer.                                                           *)

LEMMA ProducerInitInv == ProducerInit => ProducerInv
<1> SUFFICES ASSUME ProducerInit PROVE ProducerInv
    OBVIOUS
<1>1. ProducerTypeOK
  <2>1. /\ producerConnected \in BOOLEAN /\ linked \in BOOLEAN
        /\ producerClosed \in BOOLEAN /\ closing \in BOOLEAN
        BY DEF ProducerInit
  <2>2. 0 \in 0..MaxRetries
        BY ProducerAssumption
  <2>3. QED  BY <2>1, <2>2 DEF ProducerInit, ProducerTypeOK, SenderStates
<1>2. NeverIdleDisconnected
      BY DEF ProducerInit, NeverIdleDisconnected
<1>3. \A m \in Messages : Progress(m)
      BY DEF ProducerInit, Progress
<1>4. ClosingAtTheEnd
      BY DEF ProducerInit, ClosingAtTheEnd
<1>5. QED  BY <1>1, <1>2, <1>3, <1>4 DEF ProducerInv

\* The end of a connect keeps what concerns the connection.
LEMMA ConnectEndsKeeps ==
    ASSUME ProducerTypeOK, CallsTypeOK, ConnectEnds
    PROVE  /\ producerConnected' \in BOOLEAN /\ linked' \in BOOLEAN
           /\ producerRetries' \in Nat
           /\ producerClosed' \in BOOLEAN /\ closing' \in BOOLEAN /\ timers' \in Nat
           /\ CallsTypeOK'
           /\ producerConnected' \/ timers' > 0 \/ producerRetries' >= MaxProducerRetries
<1>1. CASE Connected
  <2>1. /\ producerConnected' = TRUE /\ linked' = TRUE /\ producerRetries' = 0
        /\ failures' = failures
        BY <1>1 DEF Connected
  <2>2. NewTimers = 0
        BY <2>1 DEF NewTimers
  <2>3. timers' = timers /\ UNCHANGED <<producerClosed, closing>>
        BY <2>2 DEF ConnectEnds, ProducerTypeOK
  <2>4. QED  BY <2>1, <2>3 DEF ProducerTypeOK, CallsTypeOK
<1>2. CASE ConnectFailed
  <2>1. /\ producerConnected' = FALSE /\ linked' \in BOOLEAN
        /\ UNCHANGED <<producerClosed, closing>>
        BY <1>2 DEF ConnectFailed, ConnectEnds
  <2>2. NewTimers = IF producerRetries' < MaxProducerRetries THEN 1 ELSE 0
        BY <2>1 DEF NewTimers
  <2>3. /\ producerRetries' \in Nat /\ timers' \in Nat
        /\ timers' > 0 \/ producerRetries' >= MaxProducerRetries
        BY <1>2, <2>2, ProducerAssumption DEF ConnectFailed, ConnectEnds, ProducerTypeOK
  <2>4. CallsTypeOK'
        BY <1>2, CallsAssumption DEF ConnectFailed, Throws, CallsTypeOK
  <2>5. QED  BY <2>1, <2>3, <2>4 DEF ProducerTypeOK
<1>3. QED  BY <1>1, <1>2 DEF ConnectEnds

\* A step of the producer without a message.
LEMMA DialStepKeeps ==
    ASSUME ProducerInv, CallsTypeOK,
           Dial \/ DialEnds \/ DestroyProducer \/ DisconnectEnds
    PROVE  ProducerInv' /\ CallsTypeOK' /\ UNCHANGED messageVars
<1>1. CASE Dial
      BY <1>1 DEF Dial, ProducerInv, ProducerTypeOK, NeverIdleDisconnected, ClosingAtTheEnd,
                  Progress, CallsTypeOK
<1>2. CASE DialEnds
  <2>1. /\ producerConnected' \in BOOLEAN /\ linked' \in BOOLEAN
        /\ producerRetries' \in Nat
        /\ producerClosed' \in BOOLEAN /\ closing' \in BOOLEAN /\ timers' \in Nat
        /\ CallsTypeOK'
        /\ producerConnected' \/ timers' > 0 \/ producerRetries' >= MaxProducerRetries
        BY <1>2, ConnectEndsKeeps DEF DialEnds, ProducerInv
  <2>2. dials' = dials - 1 /\ dials' \in Nat /\ UNCHANGED messageVars
        BY <1>2 DEF DialEnds, ProducerInv, ProducerTypeOK
  <2>3. ProducerTypeOK' /\ NeverIdleDisconnected'
        BY <2>1, <2>2 DEF ProducerInv, ProducerTypeOK, NeverIdleDisconnected
  <2>4. ClosingAtTheEnd'
        BY <1>2 DEF DialEnds, ConnectEnds, ProducerInv, ClosingAtTheEnd
  <2>5. QED  BY <2>1, <2>2, <2>3, <2>4 DEF ProducerInv, Progress
<1>3. CASE DestroyProducer \/ DisconnectEnds
  <2>1. /\ producerConnected' \in BOOLEAN /\ linked' \in BOOLEAN
        /\ producerClosed' \in BOOLEAN /\ closing' \in BOOLEAN
        /\ UNCHANGED <<producerRetries, timers, dials, messageVars>>
        BY <1>3 DEF DestroyProducer, DisconnectEnds, ProducerInv, ProducerTypeOK
  <2>2. CallsTypeOK'
    <3>1. UNCHANGED failures \/ Throws
          BY <1>3 DEF DestroyProducer, DisconnectEnds
    <3>2. QED  BY <3>1, CallsAssumption DEF Throws, CallsTypeOK
  <2>3. ProducerTypeOK'
        BY <2>1 DEF ProducerInv, ProducerTypeOK
  <2>4. producerClosed'
        BY <1>3 DEF DestroyProducer, DisconnectEnds, ProducerInv, ClosingAtTheEnd
  <2>5. NeverIdleDisconnected' /\ ClosingAtTheEnd'
        BY <2>4 DEF NeverIdleDisconnected, ClosingAtTheEnd
  <2>6. QED  BY <2>1, <2>2, <2>3, <2>5 DEF ProducerInv, Progress
<1>4. QED  BY <1>1, <1>2, <1>3

\* A step of a message leaves the others where they are.
LEMMA MessageStepLocal ==
    ASSUME NEW m \in Messages, ProducerTypeOK, MessageStep(m)
    PROVE  \A n \in Messages \ {m} : /\ sender'[n] = sender[n]
                                     /\ retryCount'[n] = retryCount[n]
                                     /\ copies'[n] = copies[n]
BY DEF MessageStep, SendMessage, ConnectForMessage, Attempt, RefusedAttempt, Retry,
       ReconnectForMessage,
       SenderGoes, NextAttempt, Store, ProducerTypeOK

\* The types and the progress of the message that makes a step.
LEMMA MessageStepProgress ==
    ASSUME NEW m \in Messages, ProducerInv, MessageStep(m)
    PROVE  /\ sender' \in [Messages -> SenderStates]
           /\ retryCount' \in [Messages -> 0..MaxRetries]
           /\ copies' \in [Messages -> Nat]
           /\ copies'[m] >= copies[m]
           /\ Progress(m)'
<1> USE ProducerAssumption DEF ProducerInv, ProducerTypeOK, Progress, SenderGoes,
                               SenderStates, Sending
<1>1. CASE SendMessage(m)
      BY <1>1 DEF SendMessage
<1>2. CASE ConnectForMessage(m)
      BY <1>2 DEF ConnectForMessage
<1>3. CASE Attempt(m) \/ RefusedAttempt(m)
      BY <1>3 DEF Attempt, RefusedAttempt, Store, AfterFailure
<1>4. CASE Retry(m)
      BY <1>4 DEF Retry, NextAttempt
<1>5. CASE ReconnectForMessage(m)
      BY <1>5 DEF ReconnectForMessage, NextAttempt
<1>6. QED  BY <1>1, <1>2, <1>3, <1>4, <1>5 DEF MessageStep

\* A step of a message and the connection.
LEMMA MessageStepConnection ==
    ASSUME NEW m \in Messages, ProducerInv, CallsTypeOK, MessageStep(m)
    PROVE  /\ producerConnected' \in BOOLEAN /\ linked' \in BOOLEAN
           /\ producerRetries' \in Nat
           /\ producerClosed' \in BOOLEAN /\ closing' \in BOOLEAN
           /\ timers' \in Nat /\ dials' \in Nat
           /\ CallsTypeOK'
           /\ NeverIdleDisconnected' /\ ClosingAtTheEnd'
<1> USE DEF ProducerInv, ProducerTypeOK, ClosingAtTheEnd, Sending
<1>1. CASE SendMessage(m)
      BY <1>1 DEF SendMessage, SenderGoes, NeverIdleDisconnected, CallsTypeOK
<1>2. CASE ConnectForMessage(m) \/ ReconnectForMessage(m)
  <2>1. ConnectEnds /\ UNCHANGED dials
        BY <1>2 DEF ConnectForMessage, ReconnectForMessage
  <2>2. QED  BY <2>1, ConnectEndsKeeps DEF NeverIdleDisconnected, ConnectEnds
<1>3. CASE Attempt(m) \/ RefusedAttempt(m)
      BY <1>3, CallsAssumption
         DEF Attempt, RefusedAttempt, SenderGoes, NeverIdleDisconnected, CallsTypeOK, Throws
<1>4. CASE Retry(m)
      BY <1>4 DEF Retry, SenderGoes, NextAttempt, NeverIdleDisconnected, CallsTypeOK
<1>5. QED  BY <1>1, <1>2, <1>3, <1>4 DEF MessageStep

\* Every step of the producer keeps the invariant and no record gets lost.
LEMMA ProducerNextKeeps ==
    ASSUME ProducerInv, CallsTypeOK, ProducerNext
    PROVE  /\ ProducerInv' /\ CallsTypeOK'
           /\ \A m \in Messages : copies'[m] >= copies[m]
<1>1. CASE Dial \/ DialEnds \/ DestroyProducer \/ DisconnectEnds
      BY <1>1, DialStepKeeps DEF ProducerInv, ProducerTypeOK
<1>2. ASSUME NEW m \in Messages, MessageStep(m)
      PROVE  /\ ProducerInv' /\ CallsTypeOK'
             /\ \A n \in Messages : copies'[n] >= copies[n]
  <2>1. \A n \in Messages : Progress(n)'
        BY <1>2, MessageStepLocal, MessageStepProgress DEF ProducerInv, Progress
  <2>2. \A n \in Messages : copies'[n] >= copies[n]
        BY <1>2, MessageStepLocal, MessageStepProgress DEF ProducerInv, ProducerTypeOK
  <2>3. QED  BY <1>2, <2>1, <2>2, MessageStepProgress, MessageStepConnection
             DEF ProducerInv, ProducerTypeOK
<1>3. QED  BY <1>1, <1>2 DEF ProducerNext

(* The invariant of the producer speaks of its own variables only.           *)
LEMMA ProducerStutters ==
    ASSUME ProducerInv, UNCHANGED producerVars
    PROVE  ProducerInv'
BY DEF ProducerInv, ProducerTypeOK, NeverIdleDisconnected, ClosingAtTheEnd, Progress
------------------------------------------------------------------------------
(* The consumer.                                                           *)

LoopTypeOK ==
    /\ todo \in [Loops -> SUBSET Topics]
    /\ topic \in [Loops -> Topics \cup {NoTopic}]
    /\ attempts \in [Loops -> 0..MaxSubscriptionRetries]

\* Loop f has topic t in hand.
Holds(f, t) == topic[f] = t \/ t \in todo[f]

\* Loops, the list and kafkajs deal with registered topics only.
RegisteredOnly ==
    /\ known \subseteq subscriptions
    /\ \A t \in Topics : pending[t] > 0 => t \in subscriptions
    /\ \A f \in Loops : \A t \in Topics : Holds(f, t) => t \in subscriptions

\* A loop that has returned has left nothing undone, and connect starts the loop
\* of setupSubscriptions only when it is idle.
IdleLoops ==
    /\ \A f \in Loops : ~Busy(f) => todo[f] = {}
    /\ phase \in {"timer", "connect", "run"} => ~Busy(Setup)

\* What kafkajs fetches is what it knew when run was called.
FetchedIsKnown ==
    /\ fetching \subseteq known
    /\ ran /\ ~consumerClosed => fetching = known

ConsumerInv ==
    /\ ConsumerTypeOK
    /\ phase \in {"timer", "connect"} => consumerRetries < MaxConsumerRetries
    /\ RegisteredOnly
    /\ IdleLoops
    /\ FetchedIsKnown
    /\ NoTopicForgotten
    /\ PendingOnce

USE DEF loopVars, kafkaVars, linkVars, consumerVars

(* setupSubscriptions is one of the loops that hold topics.                  *)
LEMMA SetupIsLoop == Setup \in Loops
BY DEF Loops

(* At the start nothing is registered, listed or held by a loop.             *)
LEMMA ConsumerInitInv == ConsumerInit => ConsumerInv
<1> SUFFICES ASSUME ConsumerInit PROVE ConsumerInv
    OBVIOUS
<1> USE ConsumerAssumption DEF ConsumerInit
<1>1. ConsumerTypeOK
  <2>1. consumerConnected \in BOOLEAN /\ consumerRunning \in BOOLEAN
        /\ consumerClosed \in BOOLEAN /\ ran \in BOOLEAN
        OBVIOUS
  <2>2. /\ pending \in [Topics -> Nat]
        /\ consumerRetries \in 0..MaxConsumerRetries
        /\ attempts \in [Loops -> 0..MaxSubscriptionRetries]
        OBVIOUS
  <2>3. QED  BY <2>1, <2>2 DEF ConsumerTypeOK, Phases
<1>2. consumerRetries < MaxConsumerRetries
      OBVIOUS
<1>3. RegisteredOnly /\ IdleLoops /\ FetchedIsKnown /\ NoTopicForgotten /\ PendingOnce
      BY SetupIsLoop DEF RegisteredOnly, Holds, IdleLoops, Busy, FetchedIsKnown,
                         NoTopicForgotten, PendingOnce
<1>4. QED  BY <1>1, <1>2, <1>3 DEF ConsumerInv

\* An idle loop that starts has the topics it was given in hand, and no others.
LEMMA StartLoopHolds ==
    ASSUME LoopTypeOK, NEW f \in Loops, NEW S \in SUBSET Topics, StartLoop(f, S)
    PROVE  /\ LoopTypeOK'
           /\ \A t \in Topics : Holds(f, t)' <=> t \in S
           /\ Busy(f)'
           /\ \A g \in Loops \ {f} : topic'[g] = topic[g] /\ todo'[g] = todo[g]
<1>1. PICK s \in S : /\ topic' = [topic EXCEPT ![f] = s]
                     /\ todo' = [todo EXCEPT ![f] = S \ {s}]
                     /\ attempts' = [attempts EXCEPT ![f] = 0]
      BY DEF StartLoop
<1>2. LoopTypeOK'
      BY <1>1, ConsumerAssumption DEF LoopTypeOK
<1>3. topic'[f] = s /\ todo'[f] = S \ {s}
      BY <1>1 DEF LoopTypeOK
<1>4. \A g \in Loops \ {f} : topic'[g] = topic[g] /\ todo'[g] = todo[g]
      BY <1>1 DEF LoopTypeOK
<1>5. QED  BY <1>2, <1>3, <1>4, ConsumerAssumption DEF Holds, Busy

\* A loop that goes on has what it still had to do in hand, and no more.
LEMMA NextTopicHolds ==
    ASSUME LoopTypeOK, NEW f \in Loops, NextTopic(f)
    PROVE  /\ LoopTypeOK'
           /\ \A t \in Topics : Holds(f, t)' <=> t \in todo[f]
           /\ ~Busy(f)' => todo'[f] = {}
           /\ \A g \in Loops \ {f} : topic'[g] = topic[g] /\ todo'[g] = todo[g]
<1>1. CASE StartLoop(f, todo[f])
      BY <1>1, StartLoopHolds DEF LoopTypeOK
<1>2. CASE /\ todo[f] = {}
           /\ topic' = [topic EXCEPT ![f] = NoTopic]
           /\ attempts' = [attempts EXCEPT ![f] = 0]
           /\ UNCHANGED todo
  <2>1. LoopTypeOK'
        BY <1>2, ConsumerAssumption DEF LoopTypeOK
  <2>2. /\ topic'[f] = NoTopic /\ todo'[f] = {}
        /\ \A g \in Loops \ {f} : topic'[g] = topic[g] /\ todo'[g] = todo[g]
        BY <1>2 DEF LoopTypeOK
  <2>3. QED  BY <1>2, <2>1, <2>2, ConsumerAssumption DEF Holds
<1>3. QED  BY <1>1, <1>2 DEF NextTopic

\* The list of pending topics after a push or a splice.
LEMMA ListChanges ==
    ASSUME ConsumerInv, NEW t \in Topics
    PROVE  /\ Pushed(t) \in [Topics -> Nat] /\ Spliced(t) \in [Topics -> Nat]
           /\ \A u \in Topics : Pushed(t)[u] <= 1 /\ Spliced(t)[u] <= 1
           /\ Pushed(t)[t] > 0
           /\ \A u \in Topics \ {t} : Pushed(t)[u] = pending[u] /\ Spliced(t)[u] = pending[u]
BY DEF ConsumerInv, ConsumerTypeOK, PendingOnce, Pushed, Spliced

\* The frame of an attempt that is the last for its topic: the loop goes on, and
\* the topic is on the list or kafkajs knows it.
LEMMA LoopGoesOn ==
    ASSUME NEW f \in Loops, ConsumerInv, Busy(f), NextTopic(f), LoopReturns(f),
           \/ pending' = Spliced(topic[f]) /\ known' = known \cup {topic[f]} /\ ~ran
           \/ pending' = GivenBack(topic[f]) /\ known' = known,
           UNCHANGED <<subscriptions, consumerConnected, consumerRunning,
                       consumerRetries, consumerClosed, ran, fetching>>
    PROVE  ConsumerInv'
<1> DEFINE t == topic[f]
<1>1. LoopTypeOK /\ t \in Topics
      BY DEF ConsumerInv, ConsumerTypeOK, LoopTypeOK, Busy
<1>2. /\ LoopTypeOK'
      /\ \A u \in Topics : Holds(f, u)' <=> u \in todo[f]
      /\ ~Busy(f)' => todo'[f] = {}
      /\ \A g \in Loops \ {f} : topic'[g] = topic[g] /\ todo'[g] = todo[g]
      BY <1>1, NextTopicHolds
<1>3. \A u \in Topics : Holds(f, u) <=> u = t \/ u \in todo[f]
      BY <1>1 DEF Holds
<1>4. /\ pending' \in [Topics -> Nat]
      /\ \A u \in Topics : pending'[u] <= 1
      /\ \A u \in Topics \ {t} : pending'[u] = pending[u]
      /\ pending'[t] > 0 \/ t \in known'
      BY <1>1, ListChanges DEF GivenBack
<1>5. t \in subscriptions
      BY <1>1, <1>3 DEF ConsumerInv, RegisteredOnly
<1>6. ConsumerTypeOK'
  <2>1. isSubscribed' \subseteq Topics /\ phase' \in Phases /\ known' \subseteq Topics
        BY <1>1 DEF LoopReturns, ConsumerInv, ConsumerTypeOK, Phases
  <2>2. QED  BY <1>2, <1>4, <2>1 DEF ConsumerInv, ConsumerTypeOK, LoopTypeOK
<1>7. phase' \in {"timer", "connect"} => consumerRetries' < MaxConsumerRetries
      BY DEF LoopReturns, ConsumerInv
<1>8. RegisteredOnly'
  <2>1. known' \subseteq subscriptions'
        BY <1>5 DEF ConsumerInv, RegisteredOnly
  <2>2. \A u \in Topics : pending'[u] > 0 => u \in subscriptions'
        BY <1>4, <1>5 DEF ConsumerInv, RegisteredOnly
  <2>3. \A g \in Loops : \A u \in Topics : Holds(g, u)' => u \in subscriptions'
        BY <1>2, <1>3 DEF ConsumerInv, RegisteredOnly, Holds
  <2>4. QED  BY <2>1, <2>2, <2>3 DEF RegisteredOnly
<1>9. IdleLoops'
  <2>1. \A g \in Loops : ~Busy(g)' => todo'[g] = {}
        BY <1>2 DEF ConsumerInv, IdleLoops, Busy
  <2>2. phase \in {"timer", "connect", "run"} => f # Setup
        BY DEF ConsumerInv, IdleLoops
  <2>3. phase' \in {"timer", "connect", "run"} => ~Busy(Setup)'
        BY <1>2, <2>2, SetupIsLoop DEF LoopReturns, ConsumerInv, IdleLoops, Busy
  <2>4. QED  BY <2>1, <2>3 DEF IdleLoops
<1>10. FetchedIsKnown'
      BY DEF ConsumerInv, FetchedIsKnown
<1>11. NoTopicForgotten'
  <2>1. SUFFICES ASSUME NEW u \in subscriptions', u \notin known', ~(pending'[u] > 0)
                 PROVE  \E g \in Loops : Holds(g, u)'
        BY DEF NoTopicForgotten, Holds
  <2>2. u \in Topics /\ u # t /\ u \notin known /\ ~(pending[u] > 0)
        BY <1>4, <1>6, <2>1 DEF ConsumerInv, ConsumerTypeOK
  <2>3. PICK g \in Loops : Holds(g, u)
        BY <2>1, <2>2 DEF ConsumerInv, NoTopicForgotten, Holds
  <2>4. QED  BY <1>2, <1>3, <2>2, <2>3 DEF Holds
<1>12. PendingOnce'
      BY <1>4 DEF PendingOnce
<1>13. QED
      BY <1>6, <1>7, <1>8, <1>9, <1>10, <1>11, <1>12 DEF ConsumerInv

\* Steps of a loop.
LEMMA LoopStepKeeps ==
    ASSUME NEW f \in Loops, ConsumerInv, CallsTypeOK, LoopStep(f)
    PROVE  ConsumerInv' /\ CallsTypeOK'
<1>1. CASE AttemptSucceeds(f)
      BY <1>1, LoopGoesOn DEF AttemptSucceeds, CallsTypeOK
<1>2. CASE AttemptFails(f)
  <2>1. CallsTypeOK'
        BY <1>2, CallsAssumption DEF AttemptFails, Throws, CallsTypeOK
  <2>2. ASSUME MayRetry(f), attempts' = [attempts EXCEPT ![f] = @ + 1],
               UNCHANGED <<pending, todo, topic, isSubscribed, phase>>
        PROVE  ConsumerInv'
    <3>1. attempts[f] + 1 \in 0..MaxSubscriptionRetries
          BY <2>2, ConsumerAssumption DEF MayRetry, ConsumerInv, ConsumerTypeOK
    <3>2. attempts' \in [Loops -> 0..MaxSubscriptionRetries]
          BY <2>2, <3>1 DEF ConsumerInv, ConsumerTypeOK
    <3>3. UNCHANGED <<subscriptions, pending, isSubscribed, linkVars, kafkaVars,
                      todo, topic>>
          BY <1>2, <2>2 DEF AttemptFails
    <3>4. ConsumerTypeOK'
          BY <3>2, <3>3 DEF ConsumerInv, ConsumerTypeOK
    <3>5. QED
          BY <3>3, <3>4 DEF ConsumerInv, RegisteredOnly, Holds, IdleLoops, Busy,
                             FetchedIsKnown, NoTopicForgotten, PendingOnce
  <2>3. QED
        BY <1>2, <2>1, <2>2, LoopGoesOn DEF AttemptFails
<1>3. QED  BY <1>1, <1>2 DEF LoopStep

\* An idle loop starts with registered topics, the new ones among them.
LEMMA IdleLoopStarts ==
    ASSUME NEW f \in Loops, NEW S \in SUBSET Topics, ConsumerInv, ~Busy(f),
           StartLoop(f, S), S \subseteq subscriptions',
           subscriptions \subseteq subscriptions',
           subscriptions' \subseteq subscriptions \cup S,
           UNCHANGED <<known, pending>>
    PROVE  /\ LoopTypeOK' /\ RegisteredOnly' /\ NoTopicForgotten'
           /\ \A g \in Loops : ~Busy(g)' => todo'[g] = {}
           /\ \A g \in Loops \ {f} : topic'[g] = topic[g]
<1>1. LoopTypeOK
      BY DEF ConsumerInv, ConsumerTypeOK, LoopTypeOK
<1>2. /\ LoopTypeOK'
      /\ \A t \in Topics : Holds(f, t)' <=> t \in S
      /\ Busy(f)'
      /\ \A g \in Loops \ {f} : topic'[g] = topic[g] /\ todo'[g] = todo[g]
      BY <1>1, StartLoopHolds
<1>3. topic[f] = NoTopic /\ todo[f] = {}
      BY DEF ConsumerInv, IdleLoops, Busy
<1>4. RegisteredOnly'
  <2>1. \A g \in Loops : \A t \in Topics : Holds(g, t)' => t \in subscriptions'
        BY <1>2 DEF ConsumerInv, RegisteredOnly, Holds
  <2>2. QED  BY <2>1 DEF ConsumerInv, RegisteredOnly
<1>5. NoTopicForgotten'
  <2>1. SUFFICES ASSUME NEW t \in subscriptions', t \notin known', ~(pending'[t] > 0)
                 PROVE  \E g \in Loops : Holds(g, t)'
        BY DEF NoTopicForgotten, Holds
  <2>2. t \in Topics
        BY DEF ConsumerInv, ConsumerTypeOK
  <2>3. CASE t \in S
        BY <1>2, <2>2, <2>3
  <2>4. CASE t \in subscriptions
    <3>1. PICK g \in Loops : Holds(g, t)
          BY <2>1, <2>4 DEF ConsumerInv, NoTopicForgotten, Holds
    <3>2. g # f
          BY <1>3, <2>2, <3>1, ConsumerAssumption DEF Holds
    <3>3. QED  BY <1>2, <3>1, <3>2 DEF Holds
  <2>5. QED  BY <2>3, <2>4
<1>6. QED  BY <1>2, <1>4, <1>5 DEF ConsumerInv, IdleLoops, Busy

\* Steps of connect.
LEMMA ConnectStepKeeps ==
    ASSUME ConsumerInv, CallsTypeOK, ConnectStep
    PROVE  ConsumerInv' /\ CallsTypeOK'
<1>1. CASE ConnectConsumer
  <2>1. ConsumerTypeOK'
        BY <1>1 DEF ConnectConsumer, ConsumerInv, ConsumerTypeOK, Phases
  <2>2. QED
        BY <1>1, <2>1 DEF ConnectConsumer, ConsumerInv, RegisteredOnly, Holds, IdleLoops,
               Busy, FetchedIsKnown, NoTopicForgotten, PendingOnce, CallsTypeOK
<1>2. CASE ConsumerConnects
  <2>0. /\ consumerConnected' \in BOOLEAN /\ consumerRunning' \in BOOLEAN
        /\ consumerRetries' \in 0..MaxConsumerRetries /\ phase' \in Phases
        /\ phase' \in {"over", "subscribe"}
        /\ UNCHANGED <<subscriptions, pending, isSubscribed, consumerClosed, kafkaVars,
                       failures>>
    <3>1. consumerConnected' = TRUE /\ consumerRunning' \in BOOLEAN
          BY <1>2 DEF ConsumerConnects, ConsumerInv, ConsumerTypeOK
    <3>2. consumerRetries' \in 0..MaxConsumerRetries
          BY <1>2, ConsumerAssumption DEF ConsumerConnects
    <3>3. QED  BY <1>2, <3>1, <3>2 DEF ConsumerConnects, Phases
  <2>1. CASE UNCHANGED loopVars
    <3>1. ConsumerTypeOK'
          BY <2>0, <2>1 DEF ConsumerInv, ConsumerTypeOK
    <3>2. QED
          BY <2>0, <2>1, <3>1 DEF ConsumerInv, RegisteredOnly, Holds, IdleLoops, Busy,
                 FetchedIsKnown, NoTopicForgotten, PendingOnce, CallsTypeOK
  <2>2. CASE StartLoop(Setup, AllTopics)
    <3>1. ~Busy(Setup)
          BY <1>2 DEF ConsumerConnects, ConsumerInv, IdleLoops
    <3>2. AllTopics \subseteq subscriptions /\ AllTopics \in SUBSET Topics
          BY DEF AllTopics, PendingTopics, ConsumerInv, RegisteredOnly, ConsumerTypeOK
    <3>3. /\ LoopTypeOK' /\ RegisteredOnly' /\ NoTopicForgotten'
          /\ \A g \in Loops : ~Busy(g)' => todo'[g] = {}
          BY <2>0, <2>2, <3>1, <3>2, IdleLoopStarts, SetupIsLoop
    <3>4. ConsumerTypeOK'
          BY <2>0, <3>3 DEF ConsumerInv, ConsumerTypeOK, LoopTypeOK
    <3>5. QED
          BY <2>0, <3>3, <3>4 DEF ConsumerInv, IdleLoops, FetchedIsKnown, PendingOnce,
                                  CallsTypeOK
  <2>3. QED  BY <1>2, <2>1, <2>2 DEF ConsumerConnects
<1>3. CASE ConsumerConnectFails
  <2>1. consumerRetries' \in 0..MaxConsumerRetries /\ phase' \in Phases
        BY <1>3, ConsumerAssumption DEF ConsumerConnectFails, ConsumerInv, ConsumerTypeOK, Phases
  <2>2. /\ CallsTypeOK'
        /\ phase' \in {"timer", "connect"} => consumerRetries' < MaxConsumerRetries
        BY <1>3, CallsAssumption DEF ConsumerConnectFails, Throws, CallsTypeOK
  <2>3. ~Busy(Setup) /\ consumerConnected' \in BOOLEAN
        BY <1>3 DEF ConsumerConnectFails, ConsumerInv, IdleLoops
  <2>4. UNCHANGED <<subscriptions, pending, isSubscribed, consumerRunning,
                    consumerClosed, loopVars, kafkaVars>>
        BY <1>3 DEF ConsumerConnectFails
  <2>5. ConsumerTypeOK'
        BY <2>1, <2>3, <2>4 DEF ConsumerInv, ConsumerTypeOK
  <2>6. QED
        BY <2>2, <2>3, <2>4, <2>5 DEF ConsumerInv, RegisteredOnly, Holds, IdleLoops, Busy,
               FetchedIsKnown, NoTopicForgotten, PendingOnce
<1>4. CASE RunSucceeds
  <2>0. /\ phase = "run" /\ phase' = "over" /\ ran' = TRUE /\ consumerRunning' = TRUE
        /\ fetching' = known
        /\ UNCHANGED <<subscriptions, pending, isSubscribed, consumerConnected,
                       consumerRetries, consumerClosed, known, failures>>
        BY <1>4 DEF RunSucceeds
  <2>1. CASE UNCHANGED loopVars
    <3>1. ConsumerTypeOK'
          BY <2>0, <2>1 DEF ConsumerInv, ConsumerTypeOK, Phases
    <3>2. QED
          BY <2>0, <2>1, <3>1 DEF ConsumerInv, RegisteredOnly, Holds, IdleLoops, Busy,
                 FetchedIsKnown, NoTopicForgotten, PendingOnce, CallsTypeOK
  <2>2. CASE StartLoop(Setup, PendingTopics)
    <3>1. ~Busy(Setup)
          BY <2>0 DEF ConsumerInv, IdleLoops
    <3>2. PendingTopics \subseteq subscriptions /\ PendingTopics \in SUBSET Topics
          BY DEF PendingTopics, ConsumerInv, RegisteredOnly
    <3>3. /\ LoopTypeOK' /\ RegisteredOnly' /\ NoTopicForgotten'
          /\ \A g \in Loops : ~Busy(g)' => todo'[g] = {}
          BY <2>0, <2>2, <3>1, <3>2, IdleLoopStarts, SetupIsLoop
    <3>4. ConsumerTypeOK'
          BY <2>0, <3>3 DEF ConsumerInv, ConsumerTypeOK, LoopTypeOK, Phases
    <3>5. QED
          BY <2>0, <3>3, <3>4 DEF ConsumerInv, IdleLoops, FetchedIsKnown, PendingOnce,
                                  CallsTypeOK
  <2>3. QED  BY <1>4, <2>1, <2>2 DEF RunSucceeds
<1>5. CASE RunFails
  <2>1. CallsTypeOK'
        BY <1>5, CallsAssumption DEF RunFails, Throws, CallsTypeOK
  <2>2. ConsumerTypeOK'
        BY <1>5 DEF RunFails, ConsumerInv, ConsumerTypeOK, Phases
  <2>3. QED
        BY <1>5, <2>1, <2>2 DEF RunFails, ConsumerInv, RegisteredOnly, Holds, IdleLoops,
               Busy, FetchedIsKnown, NoTopicForgotten, PendingOnce
<1>6. QED  BY <1>1, <1>2, <1>3, <1>4, <1>5 DEF ConnectStep

\* A call of subscribe, and a call of the interval.
LEMMA CallStarts ==
    ASSUME ConsumerInv, CallsTypeOK,
           \/ \E c \in Calls, t \in Topics : SubscribeNow(c, t)
           \/ \E i \in Intervals : RetryPending(i)
    PROVE  ConsumerInv' /\ CallsTypeOK'
<1>1. PICK f \in Loops, S \in SUBSET Topics :
        /\ ~Busy(f) /\ StartLoop(f, S) /\ S \subseteq subscriptions'
        /\ subscriptions' = subscriptions \cup S
        /\ consumerRunning /\ f # Setup
        /\ UNCHANGED <<pending, isSubscribed, linkVars, kafkaVars, failures>>
  <2>1. CASE \E c \in Calls, t \in Topics : SubscribeNow(c, t)
    <3>1. PICK c \in Calls, t \in Topics : SubscribeNow(c, t)
          BY <2>1
    <3>2. c \in Loops /\ c # Setup /\ {t} \in SUBSET Topics
          BY ConsumerAssumption DEF Loops
    <3>3. QED  BY <3>1, <3>2 DEF SubscribeNow
  <2>2. CASE \E i \in Intervals : RetryPending(i)
    <3>1. PICK i \in Intervals : RetryPending(i)
          BY <2>2
    <3>2. i \in Loops /\ i # Setup
          BY ConsumerAssumption DEF Loops
    <3>3. PendingTopics \subseteq subscriptions /\ PendingTopics \in SUBSET Topics
          BY DEF PendingTopics, ConsumerInv, RegisteredOnly
    <3>4. subscriptions' = subscriptions \cup PendingTopics
          BY <3>1, <3>3 DEF RetryPending
    <3>5. QED  BY <3>1, <3>2, <3>3, <3>4 DEF RetryPending
  <2>3. QED  BY <2>1, <2>2
<1>2. /\ LoopTypeOK' /\ RegisteredOnly' /\ NoTopicForgotten'
      /\ \A g \in Loops : ~Busy(g)' => todo'[g] = {}
      /\ \A g \in Loops \ {f} : topic'[g] = topic[g]
      BY <1>1, IdleLoopStarts
<1>3. ConsumerTypeOK'
      BY <1>1, <1>2 DEF ConsumerInv, ConsumerTypeOK, LoopTypeOK
<1>4. IdleLoops'
      BY <1>1, <1>2, SetupIsLoop DEF ConsumerInv, IdleLoops, Busy
<1>5. QED
      BY <1>1, <1>2, <1>3, <1>4 DEF ConsumerInv, FetchedIsKnown, PendingOnce, CallsTypeOK

\* A topic that is queued.
LEMMA EnqueueKeeps ==
    ASSUME NEW t \in Topics, ConsumerInv, CallsTypeOK, Enqueue(t)
    PROVE  ConsumerInv' /\ CallsTypeOK'
<1>1. /\ pending' \in [Topics -> Nat]
      /\ \A u \in Topics : pending'[u] <= 1
      /\ pending'[t] > 0
      /\ \A u \in Topics \ {t} : pending'[u] = pending[u]
      BY ListChanges DEF Enqueue
<1>2. /\ subscriptions' = subscriptions \cup {t} /\ isSubscribed' = isSubscribed \cup {t}
      /\ UNCHANGED <<linkVars, loopVars, kafkaVars, failures>>
      BY DEF Enqueue
<1>3. ConsumerTypeOK'
      BY <1>1, <1>2 DEF ConsumerInv, ConsumerTypeOK
<1>4. RegisteredOnly'
      BY <1>1, <1>2 DEF ConsumerInv, RegisteredOnly, Holds
<1>5. NoTopicForgotten'
  <2>1. SUFFICES ASSUME NEW u \in subscriptions', u \notin known', ~(pending'[u] > 0)
                 PROVE  \E f \in Loops : topic'[f] = u \/ u \in todo'[f]
        BY DEF NoTopicForgotten
  <2>2. u \in subscriptions /\ u \notin known /\ ~(pending[u] > 0)
        BY <1>1, <1>2, <1>3, <2>1 DEF ConsumerTypeOK
  <2>3. QED  BY <1>2, <2>2 DEF ConsumerInv, NoTopicForgotten
<1>6. QED
      BY <1>1, <1>2, <1>3, <1>4, <1>5
         DEF ConsumerInv, IdleLoops, Busy, FetchedIsKnown, PendingOnce, CallsTypeOK

(* onModuleDestroy disconnects and leaves the topics where they are.         *)
LEMMA DestroyConsumerKeeps ==
    ASSUME ConsumerInv, CallsTypeOK, DestroyConsumer
    PROVE  ConsumerInv' /\ CallsTypeOK'
<1>1. CallsTypeOK'
  <2>1. UNCHANGED failures \/ Throws
        BY DEF DestroyConsumer
  <2>2. QED  BY <2>1, CallsAssumption DEF Throws, CallsTypeOK
<1>2. /\ consumerConnected' \in BOOLEAN /\ consumerClosed' = TRUE
      /\ fetching' = {} \/ fetching' = fetching
      /\ UNCHANGED <<subscriptions, pending, isSubscribed, consumerRunning,
                     consumerRetries, phase, loopVars, known, ran>>
      BY DEF DestroyConsumer, ConsumerInv, ConsumerTypeOK
<1>3. ConsumerTypeOK'
      BY <1>2 DEF ConsumerInv, ConsumerTypeOK
<1>4. QED
      BY <1>1, <1>2, <1>3 DEF ConsumerInv, RegisteredOnly, Holds, IdleLoops, Busy,
             FetchedIsKnown, NoTopicForgotten, PendingOnce

\* Every step of the consumer keeps the invariant.
LEMMA ConsumerNextKeeps ==
    ASSUME ConsumerInv, CallsTypeOK, ConsumerNext
    PROVE  ConsumerInv' /\ CallsTypeOK'
BY ConnectStepKeeps, DestroyConsumerKeeps, LoopStepKeeps, EnqueueKeeps, CallStarts
   DEF ConsumerNext

(* The invariant of the consumer speaks of its own variables only.           *)
LEMMA ConsumerStutters ==
    ASSUME ConsumerInv, UNCHANGED consumerVars
    PROVE  ConsumerInv'
BY DEF ConsumerInv, ConsumerTypeOK, RegisteredOnly, Holds, IdleLoops, Busy, FetchedIsKnown,
       NoTopicForgotten, PendingOnce
------------------------------------------------------------------------------
(* The service.                                                            *)

MessagingInv == TypeOK /\ ProducerInv /\ ConsumerInv

\* The two services start and go on side by side.
LEMMA MessagingInductive ==
    /\ Init => MessagingInv
    /\ MessagingInv /\ [Next]_vars => MessagingInv'
<1>1. Init => MessagingInv
  <2>1. CallsInit => CallsTypeOK
        BY CallsAssumption DEF CallsInit, CallsTypeOK
  <2>2. QED
        BY <2>1, ProducerInitInv, ConsumerInitInv
           DEF Init, MessagingInv, TypeOK, ProducerInv, ConsumerInv
<1>2. ASSUME MessagingInv, [Next]_vars
      PROVE  MessagingInv'
  <2>0. TypeOK /\ ProducerInv /\ ConsumerInv /\ CallsTypeOK
        BY <1>2 DEF MessagingInv, TypeOK
  <2>1. CASE Produce
    <3>1. /\ ProducerInv' /\ CallsTypeOK'
          /\ \A m \in Messages : copies'[m] >= copies[m]
          BY <2>0, <2>1, ProducerNextKeeps DEF Produce
    <3>2. ConsumerInv'
          BY <2>0, <2>1, ConsumerStutters DEF Produce
    <3>3. copies \in [Messages -> Nat] /\ copies' \in [Messages -> Nat]
          BY <2>0, <3>1 DEF ProducerInv, ProducerTypeOK
    <3>4. /\ missed' \subseteq Messages /\ handled' \subseteq Messages
          /\ unread' \in [Messages -> Nat]
          BY <2>0, <2>1, <3>1, <3>3 DEF Produce, TypeOK
    <3>5. QED
          BY <3>1, <3>2, <3>4 DEF MessagingInv, TypeOK, ProducerInv, ConsumerInv
  <2>2. CASE Consume
    <3>1. ConsumerInv' /\ CallsTypeOK'
          BY <2>0, <2>2, ConsumerNextKeeps DEF Consume
    <3>2. ProducerInv'
          BY <2>0, <2>2, ProducerStutters DEF Consume
    <3>3. QED
          BY <2>0, <2>2, <3>1, <3>2
             DEF Consume, brokerVars, MessagingInv, TypeOK, ProducerInv, ConsumerInv
  <2>3. ASSUME NEW m \in Messages, EachMessage(m)
        PROVE  MessagingInv'
    <3>1. ProducerInv' /\ ConsumerInv' /\ CallsTypeOK'
          BY <2>0, <2>3, ProducerStutters, ConsumerStutters DEF EachMessage, CallsTypeOK
    <3>2. /\ missed' \subseteq Messages /\ handled' \subseteq Messages
          /\ unread' \in [Messages -> Nat]
          BY <2>0, <2>3 DEF EachMessage, TypeOK
    <3>3. QED
          BY <3>1, <3>2 DEF MessagingInv, TypeOK, ProducerInv, ConsumerInv
  <2>4. CASE UNCHANGED vars
    <3>1. ProducerInv' /\ ConsumerInv'
          BY <2>0, <2>4, ProducerStutters, ConsumerStutters DEF vars
    <3>2. QED
          BY <2>0, <2>4, <3>1
             DEF vars, brokerVars, CallsTypeOK, MessagingInv, TypeOK, ProducerInv, ConsumerInv
  <2>5. QED  BY <1>2, <2>1, <2>2, <2>3, <2>4 DEF Next
<1>3. QED  BY <1>1, <1>2

\* The invariant holds in every behaviour.
THEOREM MessagingInvariant == Spec => []MessagingInv
BY MessagingInductive, PTL DEF Spec

\* Every variable of the two services and of the broker keeps its type.
THEOREM MessagingTypes == Spec => []TypeOK
<1>1. MessagingInv => TypeOK
      BY DEF MessagingInv
<1>2. QED  BY <1>1, MessagingInvariant, PTL

\* A producer without a connection has a timer or a connect under way, until the
\* attempts are used up.
THEOREM ProducerNeverIdle == Spec => []NeverIdleDisconnected
<1>1. MessagingInv => NeverIdleDisconnected
      BY DEF MessagingInv, ProducerInv
<1>2. QED  BY <1>1, MessagingInvariant, PTL

\* sendMessage returns normally only when the record is stored, and stores it at
\* most once for each attempt.
THEOREM ResolvedStored == Spec => []ResolvedIsStored
<1>1. MessagingInv => ResolvedIsStored
      BY DEF MessagingInv, ProducerInv, Progress, ResolvedIsStored
<1>2. QED  BY <1>1, MessagingInvariant, PTL

\* A registered topic is known to kafkajs, on the list, or in the hand of a loop.
THEOREM TopicsKept == Spec => []NoTopicForgotten
<1>1. MessagingInv => NoTopicForgotten
      BY DEF MessagingInv, ConsumerInv
<1>2. QED  BY <1>1, MessagingInvariant, PTL

\* However many loops overlap, no topic is on the list twice.
THEOREM ListedOnce == Spec => []PendingOnce
<1>1. MessagingInv => PendingOnce
      BY DEF MessagingInv, ConsumerInv
<1>2. QED  BY <1>1, MessagingInvariant, PTL

\* Once run was called, a registered topic that is not fetched is on the list or
\* in the hand of a loop.
THEOREM MissesShow == Spec => []NothingSilentlyMissed
<1>1. MessagingInv => NothingSilentlyMissed
      BY DEF MessagingInv, ConsumerInv, RegisteredOnly, FetchedIsKnown, NoTopicForgotten,
             NothingSilentlyMissed
<1>2. QED  BY <1>1, MessagingInvariant, PTL
------------------------------------------------------------------------------
(* The records.                                                            *)

\* The broker stores a record: the group will read it or started behind it.
LEMMA ProduceKeepsRecords ==
    ASSUME MessagingInv, NoRecordLost, Produce
    PROVE  NoRecordLost'
<1>1. /\ copies \in [Messages -> Nat] /\ copies' \in [Messages -> Nat]
      /\ unread \in [Messages -> Nat]
      /\ \A m \in Messages : copies'[m] >= copies[m]
      BY ProducerNextKeeps DEF Produce, MessagingInv, TypeOK, ProducerInv, ProducerTypeOK
<1>2. SUFFICES ASSUME NEW m \in Messages, copies'[m] > 0
               PROVE  unread'[m] > 0 \/ m \in handled' \cup missed'
      BY DEF NoRecordLost
<1>3. CASE MessageTopic \in fetching
  <2>1. unread'[m] = unread[m] + (copies'[m] - copies[m]) /\ UNCHANGED <<missed, handled>>
        BY <1>3 DEF Produce
  <2>2. QED  BY <1>1, <1>2, <2>1 DEF NoRecordLost
<1>4. CASE MessageTopic \notin fetching
  <2>1. /\ missed' = missed \cup {n \in Messages : copies'[n] > copies[n]}
        /\ UNCHANGED <<unread, handled>>
        BY <1>4 DEF Produce
  <2>2. QED  BY <1>1, <1>2, <2>1 DEF NoRecordLost
<1>5. QED  BY <1>3, <1>4

\* The group reads a record: its topic is fetched, so it has a callback.
LEMMA EachMessageKeepsRecords ==
    ASSUME MessagingInv, NoRecordLost, NEW n \in Messages, EachMessage(n)
    PROVE  NoRecordLost'
<1>1. HasCallback
      BY DEF EachMessage, HasCallback, MessagingInv, ConsumerInv, FetchedIsKnown, RegisteredOnly
<1>2. /\ handled' = handled \cup {n}
      /\ \A m \in Messages \ {n} : unread'[m] = unread[m]
      /\ UNCHANGED <<copies, missed>>
      BY <1>1 DEF EachMessage, MessagingInv, TypeOK
<1>3. QED  BY <1>2 DEF NoRecordLost

\* Whatever the connections, loops and lists do, each record that is stored is
\* read by the callback of its topic, is still to be read, or was stored before
\* the group fetched the topic.
THEOREM RecordsKept == Spec => []NoRecordLost
<1>1. Init => NoRecordLost
      BY DEF Init, ProducerInit, NoRecordLost
<1>2. MessagingInv /\ NoRecordLost /\ [Next]_vars => NoRecordLost'
  <2> SUFFICES ASSUME MessagingInv, NoRecordLost, [Next]_vars PROVE NoRecordLost'
      OBVIOUS
  <2>1. CASE UNCHANGED <<copies, brokerVars>>
        BY <2>1 DEF NoRecordLost, brokerVars
  <2>2. QED
        BY <2>1, ProduceKeepsRecords, EachMessageKeepsRecords DEF Next, Consume, vars
<1>3. QED  BY <1>1, <1>2, MessagingInvariant, PTL DEF Spec
------------------------------------------------------------------------------
(* The promise of sendMessage.                                             *)

\* A step of a message is a step of the promise, or none that a caller sees.
LEMMA MessageStepPromised ==
    ASSUME NEW m \in Messages, ProducerInv, MessageStep(m)
    PROVE  \/ Promise!Post(m) \/ Promise!Send(m)
           \/ UNCHANGED <<clients, tries, copies>>
<1>1. \A n \in Messages \ {m} : ClientOf(n)' = ClientOf(n) /\ AttemptsOf(n)' = AttemptsOf(n)
      BY MessageStepLocal DEF ProducerInv, ClientOf, AttemptsOf
<1>2. /\ clients' = [clients EXCEPT ![m] = ClientOf(m)']
      /\ tries' = [tries EXCEPT ![m] = AttemptsOf(m)']
      BY <1>1 DEF clients, tries
<1>3. /\ clients[m] = ClientOf(m) /\ clients'[m] = ClientOf(m)'
      /\ tries[m] = AttemptsOf(m) /\ tries'[m] = AttemptsOf(m)'
      BY DEF clients, tries
<1>4. /\ retryCount[m] \in 0..MaxRetries /\ Progress(m) /\ sender[m] \in SenderStates
      /\ sender'[m] \in SenderStates /\ copies \in [Messages -> Nat]
      BY MessageStepProgress DEF ProducerInv, ProducerTypeOK
<1>5. CASE SendMessage(m)
  <2>1. /\ sender[m] = "idle" /\ sender'[m] \in {"send", "refused", "connect"}
        /\ UNCHANGED <<retryCount, copies>>
        BY <1>5 DEF SendMessage, Sending, SenderGoes, ProducerInv, ProducerTypeOK
  <2>2. ClientOf(m) = "new" /\ AttemptsOf(m) = retryCount[m] /\ AttemptsOf(m)' = retryCount[m]
        BY <2>1 DEF ClientOf, AttemptsOf
  <2>3. tries' = tries
        BY <1>2, <1>3, <2>2 DEF tries
  <2>4. CASE sender'[m] = "connect"
    <3>1. clients' = clients
          BY <1>2, <1>3, <2>2, <2>4 DEF clients, ClientOf
    <3>2. QED  BY <2>1, <2>3, <3>1 DEF clients, tries
  <2>5. CASE sender'[m] \in {"send", "refused"}
    <3>1. ClientOf(m)' = "sending"
          BY <2>5 DEF ClientOf
    <3>2. QED  BY <1>2, <1>3, <2>1, <2>2, <2>3, <3>1 DEF Promise!Post, clients, tries
  <2>6. QED  BY <2>1, <2>4, <2>5
<1>6. CASE ConnectForMessage(m)
  <2>1. /\ sender[m] = "connect" /\ sender'[m] \in {"send", "refused", "rejected"}
        /\ UNCHANGED <<retryCount, copies>>
        BY <1>6 DEF ConnectForMessage, Sending, SenderGoes, ProducerInv, ProducerTypeOK
  <2>2. retryCount[m] = 0 /\ retryCount[m] # MaxRetries
        BY <1>4, <2>1, ProducerAssumption DEF Progress
  <2>3. /\ ClientOf(m) = "new" /\ ClientOf(m)' \in {"sending", "failed"}
        /\ AttemptsOf(m) = AttemptsOf(m)'
        BY <2>1, <2>2 DEF ClientOf, AttemptsOf
  <2>4. tries' = tries
        BY <1>2, <1>3, <2>3 DEF tries
  <2>5. QED  BY <1>2, <1>3, <2>1, <2>3, <2>4 DEF Promise!Post, clients, tries
<1>7. CASE Attempt(m) \/ RefusedAttempt(m)
  <2>1. /\ sender[m] \in {"send", "refused"} /\ UNCHANGED retryCount
        /\ \/ sender'[m] = "resolved" /\ copies' = [copies EXCEPT ![m] = @ + 1]
           \/ /\ sender'[m] = AfterFailure(m)
              /\ copies' = [copies EXCEPT ![m] = @ + 1] \/ UNCHANGED copies
        BY <1>7 DEF Attempt, RefusedAttempt, Store, SenderGoes, ProducerInv, ProducerTypeOK
  <2>2. ClientOf(m) = "sending" /\ AttemptsOf(m) = retryCount[m]
        BY <2>1 DEF ClientOf, AttemptsOf
  <2>3. AttemptsOf(m)' = retryCount[m] + 1
    <3>1. CASE sender'[m] \in {"resolved", "wait"}
          BY <2>1, <3>1 DEF AttemptsOf
    <3>2. CASE sender'[m] = "rejected"
      <4>1. retryCount'[m] = MaxRetries
            BY <1>4, <2>1, <3>2, ProducerAssumption DEF AfterFailure
      <4>2. QED  BY <2>1, <3>2, <4>1 DEF AttemptsOf
    <3>3. QED  BY <2>1, <3>1, <3>2 DEF AfterFailure
  <2>4. \/ ClientOf(m)' = "accepted" /\ copies' = [copies EXCEPT ![m] = @ + 1]
        \/ /\ \/ ClientOf(m)' = "sending" /\ AttemptsOf(m)' < MaxRetries + 1
              \/ ClientOf(m)' = "failed" /\ AttemptsOf(m)' = MaxRetries + 1
           /\ copies' = [copies EXCEPT ![m] = @ + 1] \/ UNCHANGED copies
    <3>1. CASE sender'[m] = "resolved"
          BY <2>1, <3>1 DEF ClientOf, AfterFailure
    <3>2. CASE sender'[m] = "wait"
          BY <1>4, <2>1, <2>3, <3>2, ProducerAssumption DEF ClientOf, AfterFailure
    <3>3. CASE sender'[m] = "rejected"
          BY <1>4, <2>1, <2>3, <3>3, ProducerAssumption DEF ClientOf, AfterFailure
    <3>4. QED  BY <2>1, <3>1, <3>2, <3>3 DEF AfterFailure
  <2>5. tries' = [tries EXCEPT ![m] = tries[m] + 1]
        BY <1>2, <1>3, <2>2, <2>3
  <2>6. ClientOf(m)' = "sending" => clients' = clients
        BY <1>2, <1>3, <2>2 DEF clients
  <2>7. Promise!Send(m)
        BY <1>2, <1>3, <2>2, <2>4, <2>5, <2>6 DEF Promise!Send, clients, tries
  <2>8. QED  BY <2>7
<1>8. CASE Retry(m) \/ ReconnectForMessage(m)
  <2>1. /\ UNCHANGED copies
        /\ sender[m] \in {"wait", "reconnect"}
        /\ \/ sender'[m] \in {"send", "refused"} /\ retryCount'[m] = retryCount[m] + 1
           \/ sender'[m] = "reconnect" /\ UNCHANGED retryCount
        BY <1>8 DEF Retry, ReconnectForMessage, SenderGoes, NextAttempt, Sending,
                    ProducerInv, ProducerTypeOK
  <2>2. ClientOf(m)' = ClientOf(m) /\ AttemptsOf(m)' = AttemptsOf(m)
        BY <2>1 DEF ClientOf, AttemptsOf
  <2>3. clients' = clients /\ tries' = tries
        BY <1>2, <1>3, <2>2 DEF clients, tries
  <2>4. QED  BY <2>1, <2>3 DEF clients, tries
<1>9. QED  BY <1>5, <1>6, <1>7, <1>8 DEF MessageStep

\* Whatever the connection does, sendMessage does what SendPromise says.
THEOREM ProducerKeepsPromise == Spec => PromiseKept
<1>1. Init => Promise!Init
  <2>1. SUFFICES ASSUME ProducerInit PROVE Promise!Init
        BY DEF Init
  <2>2. \A n \in Messages : ClientOf(n) = "new" /\ AttemptsOf(n) = 0
        BY <2>1 DEF ProducerInit, ClientOf, AttemptsOf
  <2>3. QED  BY <2>1, <2>2 DEF ProducerInit, clients, tries, Promise!Init
<1>2. MessagingInv /\ [Next]_vars => [Promise!Next]_<<clients, tries, copies>>
  <2> SUFFICES ASSUME MessagingInv, [Next]_vars PROVE [Promise!Next]_<<clients, tries, copies>>
      OBVIOUS
  <2>1. CASE \E m \in Messages : MessageStep(m)
        BY <2>1, MessageStepPromised DEF MessagingInv, Promise!Next
  <2>2. CASE UNCHANGED messageVars
        BY <2>2 DEF clients, tries, ClientOf, AttemptsOf
  <2>3. \/ UNCHANGED messageVars
        \/ \E m \in Messages : MessageStep(m)
        BY DEF Next, Produce, ProducerNext, Dial, DialEnds, DestroyProducer, DisconnectEnds,
               Consume, EachMessage, vars
  <2>4. QED  BY <2>1, <2>2, <2>3
<1>3. QED  BY <1>1, <1>2, MessagingInvariant, PTL DEF Spec, PromiseKept, Promise!Spec
==============================================================================
