------------------------------ MODULE Messaging -------------------------------
(***************************************************************************)
(* The way of a message from sendMessage to the callback of its topic: the *)
(* producer and the consumer of the service with the broker between them.  *)
(*                                                                         *)
(* The consumer group is new: consumer.subscribe is called with            *)
(* fromBeginning: false, so the group starts behind the records that are   *)
(* stored when kafkajs begins to fetch.  A group with committed offsets,   *)
(* and the redelivery after a crash, are in module BookingRequests.        *)
(***************************************************************************)
EXTENDS KafkaProducer, KafkaConsumer

CONSTANT MessageTopic  \* booking-requests, the topic of all messages

ASSUME MessagingAssumption == MessageTopic \in Topics

VARIABLES
    missed,   \* messages with a record the group starts behind
    unread,   \* unread[m]: records of m that the group has to read
    handled   \* messages passed to the callback

brokerVars == <<missed, unread, handled>>
vars       == <<producerVars, consumerVars, failures, brokerVars>>

TypeOK ==
    /\ ProducerTypeOK
    /\ ConsumerTypeOK
    /\ CallsTypeOK
    /\ missed \subseteq Messages
    /\ unread \in [Messages -> Nat]
    /\ handled \subseteq Messages

Init ==
    /\ ProducerInit
    /\ ConsumerInit
    /\ CallsInit
    /\ missed = {}
    /\ unread = [m \in Messages |-> 0]
    /\ handled = {}

\* A step of the producer; the record it stores, if any, is read only if the
\* group has begun to fetch.
Produce ==
    /\ ProducerNext
    /\ LET stored == {m \in Messages : copies'[m] > copies[m]}
       IN  IF MessageTopic \in fetching
           THEN /\ unread' = [m \in Messages |-> unread[m] + (copies'[m] - copies[m])]
                /\ UNCHANGED missed
           ELSE /\ missed' = missed \cup stored
                /\ UNCHANGED unread
    /\ UNCHANGED <<consumerVars, handled>>

Consume ==
    /\ ConsumerNext
    /\ UNCHANGED <<producerVars, brokerVars>>

\* The callback that eachMessage finds for the topic.
HasCallback == MessageTopic \in subscriptions

\* eachMessage: the record is passed to the callback, whose errors are caught;
\* without a callback there is a warning, and the record is gone.
EachMessage(m) ==
    /\ MessageTopic \in fetching
    /\ unread[m] > 0
    /\ unread' = [unread EXCEPT ![m] = @ - 1]
    /\ handled' = IF HasCallback THEN handled \cup {m} ELSE handled
    /\ UNCHANGED <<producerVars, consumerVars, failures, missed>>

Next ==
    \/ Produce
    \/ Consume
    \/ \E m \in Messages : EachMessage(m)

Spec == Init /\ [][Next]_vars

\* The processes run, and the consumer fetches what there is.
Fairness ==
    /\ ProducerFairness
    /\ ConsumerFairness
    /\ \A m \in Messages : WF_brokerVars(EachMessage(m))

FairSpec == Spec /\ Fairness
------------------------------------------------------------------------------
\* A record is not lost between the two services: when the broker has stored it,
\* the callback got the message, or will be offered it, or the group started
\* behind it.  No topic is fetched whose callback eachMessage would not find,
\* whichever way its subscription took.
NoRecordLost ==
    \A m \in Messages :
        copies[m] > 0 => unread[m] > 0 \/ m \in handled \cup missed

\* A message for which sendMessage returned normally reaches the callback of
\* its topic, unless it was stored before the group fetched the topic or the
\* consumer was shut down: between the two services nothing else gets lost.
SentIsHandled ==
    \A m \in Messages :
        sender[m] = "resolved" ~> m \in handled \cup missed \/ consumerClosed
==============================================================================
